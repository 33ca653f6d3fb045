--------------------------- MODULE Segments_proofs ---------------------------
(***************************************************************************)
(* Lemmas about the operators of module Segments: which segments they      *)
(* yield, and that a chosen segment disturbs no running download; then     *)
(* that the loops of module SegmentLoops compute the same, in any state of *)
(* its runs.                                                               *)
(***************************************************************************)
EXTENDS SegmentLoops, TLAPS, WellFoundedInduction, FiniteSetTheorems, FunctionTheorems

\* A set of integers that is bounded below has a smallest element.
LEMMA SmallestExists ==
    ASSUME NEW lo \in Int, NEW S \in SUBSET Int, S # {}, \A x \in S : x >= lo
    PROVE  \E x \in S : \A y \in S : x <= y
<1> DEFINE T == {n \in Nat : lo + n \in S}
           R == {ss \in Nat \X Nat : ss[1] < ss[2]}
<1>1. T \subseteq Nat
  OBVIOUS
<1>2. T # {}
  <2>1. PICK x \in S : TRUE
    OBVIOUS
  <2>2. x - lo \in Nat /\ lo + (x - lo) = x
    BY <2>1
  <2> QED BY <2>1, <2>2
<1>3. IsWellFoundedOn(R, Nat)
  BY NatLessThanWellFounded DEF OpToRel
<1>4. PICK n \in T : \A m \in T : ~(<<m, n>> \in R)
  BY <1>1, <1>2, <1>3, WFMin
<1>5. \A m \in T : n <= m
  <2> TAKE m \in T
  <2>1. n \in Nat /\ m \in Nat /\ ~(m < n)
    BY <1>4
  <2> QED BY <2>1
<1>6. \A y \in S : lo + n <= y
  <2> TAKE y \in S
  <2>1. y - lo \in T
    <3>1. y - lo \in Nat /\ lo + (y - lo) = y
      OBVIOUS
    <3> QED BY <3>1
  <2>2. n <= y - lo
    BY <2>1, <1>5
  <2> QED BY <2>2, <1>1
<1> QED BY <1>4, <1>6

\* A set of integers that is bounded above has a greatest element.
LEMMA GreatestExists ==
    ASSUME NEW hi \in Int, NEW S \in SUBSET Int, S # {}, \A x \in S : x <= hi
    PROVE  \E x \in S : \A y \in S : x >= y
<1> DEFINE T == {-x : x \in S}
<1>1. T \in SUBSET Int /\ T # {} /\ -hi \in Int
  <2>1. \A x \in Int : -x \in Int
    OBVIOUS
  <2>2. T \in SUBSET Int /\ -hi \in Int
    BY <2>1
  <2>3. PICK x \in S : TRUE
    OBVIOUS
  <2>4. -x \in T
    BY <2>3
  <2> QED BY <2>2, <2>4
<1>2. \A t \in T : t >= -hi
  <2> TAKE t \in T
  <2>1. PICK x \in S : t = -x
    OBVIOUS
  <2> QED BY <2>1
<1>3. PICK t \in T : \A u \in T : t <= u
  BY <1>1, <1>2, SmallestExists
<1>4. PICK x \in S : t = -x
  BY <1>3
<1>5. \A y \in S : x >= y
  <2> TAKE y \in S
  <2>1. -y \in T
    OBVIOUS
  <2>2. -x <= -y
    BY <2>1, <1>3, <1>4
  <2> QED BY <2>2
<1> QED BY <1>4, <1>5

\* Min and Max of a bounded set are what their names say.
LEMMA MinOfSet ==
    ASSUME NEW lo \in Int, NEW S \in SUBSET Int, S # {}, \A x \in S : x >= lo
    PROVE  Min(S) \in S /\ \A y \in S : Min(S) <= y
BY SmallestExists DEF Min

\* The same for Max.
LEMMA MaxOfSet ==
    ASSUME NEW hi \in Int, NEW S \in SUBSET Int, S # {}, \A x \in S : x <= hi
    PROVE  Max(S) \in S /\ \A y \in S : Max(S) >= y
BY GreatestExists DEF Max

\* The smaller of two integers.
LEMMA MinOfTwo ==
    ASSUME NEW a \in Int, NEW b \in Int
    PROVE  Min({a, b}) = IF a <= b THEN a ELSE b
<1>1. \A x \in {a, b} : x >= IF a <= b THEN a ELSE b
  OBVIOUS
<1>2. {a, b} \in SUBSET Int /\ {a, b} # {} /\ (IF a <= b THEN a ELSE b) \in Int
  OBVIOUS
<1>3. Min({a, b}) \in {a, b} /\ \A y \in {a, b} : Min({a, b}) <= y
  BY <1>1, <1>2, MinOfSet
<1> QED BY <1>3

\* The greater of two integers.
LEMMA MaxOfTwo ==
    ASSUME NEW a \in Int, NEW b \in Int
    PROVE  Max({a, b}) = IF a >= b THEN a ELSE b
<1>1. \A x \in {a, b} : x <= IF a >= b THEN a ELSE b
  OBVIOUS
<1>2. {a, b} \in SUBSET Int /\ {a, b} # {} /\ (IF a >= b THEN a ELSE b) \in Int
  OBVIOUS
<1>3. Max({a, b}) \in {a, b} /\ \A y \in {a, b} : Max({a, b}) >= y
  BY <1>1, <1>2, MaxOfSet
<1> QED BY <1>3

-----------------------------------------------------------------------------
\* The first element of a set of ranges in the order of the set exists.
LEMMA FirstOfSet ==
    ASSUME NEW D \in SUBSET Ranges, D # {}
    PROVE  First(D) \in D /\ \A h \in D \ {First(D)} : Before(First(D), h)
<1> DEFINE S == {g.start : g \in D}
<1>1. S \in SUBSET Int /\ S # {} /\ \A x \in S : x >= 0
  BY SizeAssumption DEF Ranges
<1> HIDE DEF S
<1>2. PICK lo \in S : \A y \in S : lo <= y
  BY <1>1, SmallestExists
<1> USE DEF S
<1> DEFINE N == {g.size : g \in {h \in D : h.start = lo}}
<1>3. N \in SUBSET Int /\ N # {} /\ \A x \in N : x >= 0
  BY <1>2, SizeAssumption DEF Ranges
<1> HIDE DEF N
<1>4. PICK n \in N : \A y \in N : n <= y
  BY <1>3, SmallestExists
<1> USE DEF N
<1>5. PICK g \in D : g.start = lo /\ g.size = n
  BY <1>4
<1>6. \A h \in D \ {g} : Before(g, h)
  <2> TAKE h \in D \ {g}
  <2>1. lo <= h.start
    BY <1>2
  <2>2. CASE h.start = lo
    <3>1. n <= h.size
      BY <2>2, <1>4
    <3>2. h.size # n
      BY <2>2, <1>5 DEF Ranges
    <3> QED BY <2>2, <3>1, <3>2, <1>5, SizeAssumption DEF Before, Ranges
  <2>3. CASE h.start # lo
    BY <2>1, <2>3, <1>5, SizeAssumption DEF Before, Ranges
  <2> QED BY <2>2, <2>3
<1> QED BY <1>5, <1>6 DEF First

\* The hull of some ranges begins with one of them, ends with one of them, and
\* contains all of them.
LEMMA HullOfSet ==
    ASSUME NEW T \in SUBSET Ranges, T # {}
    PROVE  /\ Hull(T) \in Ranges
           /\ \E t \in T : Hull(T).start = t.start
           /\ \E t \in T : End(Hull(T)) = End(t)
           /\ \A t \in T : Hull(T).start <= t.start /\ End(t) <= End(Hull(T))
<1> DEFINE S == {g.start : g \in T}
           E == {End(g) : g \in T}
<1>1. S \in SUBSET Int /\ S # {} /\ (\A x \in S : x >= 0)
  BY SizeAssumption DEF Ranges
<1>2. E \in SUBSET Int /\ E # {} /\ (\A x \in E : x <= Size)
  BY SizeAssumption DEF Ranges, End
<1> HIDE DEF S, E
<1>3. Min(S) \in S /\ \A y \in S : Min(S) <= y
  BY <1>1, MinOfSet
<1>4. Max(E) \in E /\ \A y \in E : Max(E) >= y
  BY <1>2, MaxOfSet, SizeAssumption
<1> USE DEF S, E
<1> DEFINE lo == Min(S)
           hi == Max(E)
<1>5. Hull(T) = Seg(lo, hi - lo)
  BY DEF Hull
<1>6. PICK t \in T : lo = t.start
  BY <1>3
<1>7. PICK u \in T : hi = End(u)
  BY <1>4
<1>8. lo \in Int /\ hi \in Int /\ 0 <= lo /\ hi <= Size
  BY <1>1, <1>2, <1>3, <1>4
<1>9. hi >= End(t)
  BY <1>4
<1>10. End(t) >= t.start /\ t.start \in 0 .. Size
  BY SizeAssumption DEF Ranges, End
<1> HIDE DEF lo, hi
<1>11. Seg(lo, hi - lo).start = lo /\ End(Seg(lo, hi - lo)) = hi
  BY <1>8 DEF Seg, End
<1>12. Seg(lo, hi - lo) \in Ranges
  BY <1>6, <1>8, <1>9, <1>10, SizeAssumption, <1>11 DEF Ranges, Seg, End
<1>13. \A v \in T : lo <= v.start /\ End(v) <= hi
  BY <1>3, <1>4 DEF lo, hi
<1> QED BY <1>5, <1>6, <1>7, <1>11, <1>12, <1>13

\* Recording a segment keeps the finished set a set of ranges of the file ...
LEMMA AddSegmentRanges ==
    ASSUME NEW D \in SUBSET Ranges, NEW s \in Ranges
    PROVE  AddSegment(D, s) \in SUBSET Ranges
<1> DEFINE T == {d \in D : Touches(d, s)} \cup {s}
<1>1. Hull(T) \in Ranges
  BY HullOfSet
<1> QED BY <1>1 DEF AddSegment

\* ... of which no two touch each other.
LEMMA AddSegmentCanonical ==
    ASSUME NEW D \in SUBSET Ranges, NEW s \in Ranges, Canonical(D)
    PROVE  Canonical(AddSegment(D, s))
<1> DEFINE T == {d \in D : Touches(d, s)} \cup {s}
           H == Hull(T)
<1>1. /\ H \in Ranges
      /\ \E t \in T : H.start = t.start
      /\ \E t \in T : End(H) = End(t)
  BY HullOfSet
<1>2. PICK t \in T : H.start = t.start
  BY <1>1
<1>3. PICK u \in T : End(H) = End(u)
  BY <1>1
<1> HIDE DEF H
<1>4. \A g \in Ranges : g.start \in Int /\ End(g) \in Int /\ g.start <= End(g)
  BY SizeAssumption DEF Ranges, End
<1>5. ASSUME NEW g \in D \ T
      PROVE  ~Touches(g, H)
  <2>1. ~Touches(g, s)
    BY <1>5
  <2>2. \A d \in D \cap T : ~Touches(g, d)
    BY <1>5 DEF Canonical
  <2>3. t = s \/ (t \in D \cap T /\ Touches(t, s))
    OBVIOUS
  <2>4. u = s \/ (u \in D \cap T /\ Touches(u, s))
    OBVIOUS
  <2>5. g \in Ranges /\ t \in Ranges /\ u \in Ranges /\ s \in Ranges
    BY <1>5
  <2>6. CASE End(g) < s.start
    BY <1>1, <1>2, <1>4, <2>2, <2>3, <2>5, <2>6 DEF Touches
  <2>7. CASE End(s) < g.start
    BY <1>1, <1>3, <1>4, <2>2, <2>4, <2>5, <2>7 DEF Touches
  <2> QED BY <2>1, <2>5, <2>6, <2>7, <1>4 DEF Touches
<1>6. \A g \in D \ T : ~Touches(H, g)
  BY <1>5 DEF Touches
<1>7. AddSegment(D, s) = (D \ T) \cup {H}
  BY DEF AddSegment, H
<1> QED BY <1>5, <1>6, <1>7 DEF Canonical

-----------------------------------------------------------------------------
\* A block that begins in the file is a nonempty part of it.
LEMMA BlockRange ==
    ASSUME NEW s \in 0 .. Size - 1, NEW n \in Nat, n > 0
    PROVE  Block(s, n) \in Ranges /\ Block(s, n).size > 0
<1> DEFINE to == Min({Size, s + n})
<1>1. to = IF Size <= s + n THEN Size ELSE s + n
  BY MinOfTwo, SizeAssumption
<1>2. Block(s, n) = Seg(s, to - s)
  BY DEF Block
<1> HIDE DEF to
<1>3. to \in Int /\ s < to /\ to <= Size
  BY <1>1, SizeAssumption
<1> QED BY <1>2, <1>3, SizeAssumption DEF Seg, Ranges, End

\* A product grows with its first factor.
LEMMA ProductGrows ==
    ASSUME NEW m \in Nat, NEW n \in Nat, NEW b \in Nat, m <= n
    PROVE  m * b \in Nat /\ n * b \in Nat /\ m * b <= n * b
<1>1. PICK d \in Nat : n = m + d
  <2>1. n - m \in Nat /\ n = m + (n - m)
    OBVIOUS
  <2> QED BY <2>1
<1>2. (m + d) * b = m * b + d * b /\ d * b \in Nat /\ m * b \in Nat
  OBVIOUS
<1> QED BY <1>1, <1>2

\* The free length, if it is not 0, is that of a free block, and none is longer.
LEMMA FreeLengthIsFree ==
    ASSUME NEW D, NEW R, NEW b \in Nat \ {0}, NEW T \in Nat, NEW s
    PROVE  LET n == FreeLength(D, R, b, T, s)
           IN  /\ n \in Nat
               /\ n > 0 => /\ n >= b /\ Free(D, R, b, s, n)
                           /\ \E k \in 1 .. (T \div b) : n = k * b
               /\ \A k \in 1 .. (T \div b) : Free(D, R, b, s, k * b) => k * b <= n
<1> DEFINE q == T \div b
           L == {n \in {k * b : k \in 1 .. q} : Free(D, R, b, s, n)}
           M == {0} \cup L
<1>0. q \in Nat
  OBVIOUS
<1> HIDE DEF q
<1>1. \A k \in 1 .. q : k * b \in Nat /\ k * b <= q * b /\ b <= k * b
  <2> TAKE k \in 1 .. q
  <2>1. k * b \in Nat /\ k * b <= q * b
    BY <1>0, ProductGrows
  <2>2. 1 * b <= k * b
    BY <1>0, ProductGrows
  <2> QED BY <2>1, <2>2
<1>2. q * b \in Int
  BY <1>0
<1>3. \A n \in L : /\ n \in Nat /\ n <= q * b /\ b <= n /\ Free(D, R, b, s, n)
                   /\ \E k \in 1 .. q : n = k * b
  BY <1>1
<1>4. \A k \in 1 .. q : Free(D, R, b, s, k * b) => k * b \in L
  OBVIOUS
<1> HIDE DEF L
<1>5. M \in SUBSET Int /\ M # {} /\ \A x \in M : x <= q * b
  <2>1. 0 <= q * b
    BY <1>0, ProductGrows
  <2> QED BY <1>2, <1>3, <2>1
<1> HIDE DEF M
<1>6. Max(M) \in M /\ \A x \in M : Max(M) >= x
  BY <1>2, <1>5, MaxOfSet
<1>7. FreeLength(D, R, b, T, s) = Max(M)
  BY DEF FreeLength, M, L, q
<1> DEFINE m == Max(M)
<1> USE DEF M
<1>8. m = 0 \/ m \in L
  BY <1>6
<1>9. \A k \in 1 .. q : Free(D, R, b, s, k * b) => m >= k * b
  BY <1>4, <1>6
<1> HIDE DEF m, M
<1>10. /\ m \in Nat /\ (m > 0 => m >= b /\ Free(D, R, b, s, m) /\ \E k \in 1 .. q : m = k * b)
       /\ \A k \in 1 .. q : Free(D, R, b, s, k * b) => k * b <= m
  <2>1. m \in Nat
    BY <1>3, <1>8
  <2>2. \A k \in 1 .. q : Free(D, R, b, s, k * b) => k * b <= m
    BY <1>1, <1>9, <2>1
  <2> QED BY <1>3, <1>8, <2>1, <2>2
<1> QED BY <1>7, <1>10 DEF m, q

\* The scan yields nonempty parts of the file that no running download overlaps.
LEMMA FreeBlockFacts ==
    ASSUME NEW D, NEW R, NEW b \in Nat \ {0}, NEW T \in Nat,
           NEW f \in FreeBlocks(D, R, b, T)
    PROVE  f \in Ranges /\ f.size > 0 /\ \A r \in R : ~Overlaps(f, r)
<1>1. PICK s \in Visited(D, R, b, T) :
         /\ FreeLength(D, R, b, T, s) > 0
         /\ f = Block(s, FreeLength(D, R, b, T, s))
  BY DEF FreeBlocks
<1>2. s \in 0 .. Size - 1
  BY DEF Visited
<1> DEFINE n == FreeLength(D, R, b, T, s)
<1>3. n \in Nat /\ Free(D, R, b, s, n)
  BY <1>1, FreeLengthIsFree
<1> HIDE DEF n
<1>4. Block(s, n) \in Ranges /\ Block(s, n).size > 0
  BY <1>1, <1>2, <1>3, BlockRange DEF n
<1>5. \A r \in R : ~Overlaps(Block(s, n), r)
  BY <1>3 DEF Free
<1> QED BY <1>1, <1>4, <1>5 DEF n

\* The same for blocks of one unit.
LEMMA FreeUnitsFacts ==
    ASSUME NEW D, NEW R, NEW T \in Nat, NEW f \in FreeBlocks(D, R, 1, T)
    PROVE  f \in Ranges /\ f.size > 0 /\ \A r \in R : ~Overlaps(f, r)
<1>1. 1 \in Nat \ {0}
  OBVIOUS
<1> QED BY <1>1, FreeBlockFacts

\* What two overlapping ranges share is a part of both of them.
LEMMA CommonFacts ==
    ASSUME NEW f \in Ranges, NEW p \in Ranges, Overlaps(f, p), f.size > 0, p.size > 0
    PROVE  /\ Common(f, p) \in Ranges /\ Common(f, p).size > 0
           /\ Contains(f, Common(f, p)) /\ Contains(p, Common(f, p))
<1>1. /\ f.start \in Int /\ p.start \in Int /\ End(f) \in Int /\ End(p) \in Int
      /\ f.start < End(f) /\ p.start < End(p)
      /\ f.start >= 0 /\ p.start >= 0 /\ End(f) <= Size /\ End(p) <= Size
  BY SizeAssumption DEF Ranges, End
<1> DEFINE from == Max({f.start, p.start})
           to == Min({End(f), End(p)})
<1>2. from = IF f.start >= p.start THEN f.start ELSE p.start
  BY <1>1, MaxOfTwo
<1>3. to = IF End(f) <= End(p) THEN End(f) ELSE End(p)
  BY <1>1, MinOfTwo
<1>4. Common(f, p) = Seg(from, to - from)
  BY DEF Common
<1> HIDE DEF from, to
<1>5. /\ from \in Int /\ to \in Int /\ from < to /\ 0 <= from /\ to <= Size
      /\ f.start <= from /\ p.start <= from /\ to <= End(f) /\ to <= End(p)
  BY <1>1, <1>2, <1>3 DEF Overlaps
<1>6. Seg(from, to - from).start = from /\ Seg(from, to - from).size = to - from
  BY DEF Seg
<1>7. End(Seg(from, to - from)) = to
  BY <1>5, <1>6 DEF End
<1>8. Seg(from, to - from) \in Ranges
  BY <1>5, <1>7, SizeAssumption DEF Ranges, Seg
<1> QED BY <1>4, <1>5, <1>6, <1>7, <1>8 DEF Contains

\* A part of a range overlaps only what the range overlaps.
LEMMA PartOverlapsLess ==
    ASSUME NEW f \in Ranges, NEW g \in Ranges, NEW h \in [start : Int, size : Int],
           Contains(f, g), ~Overlaps(f, h)
    PROVE  ~Overlaps(g, h)
BY SizeAssumption DEF Contains, Overlaps, Ranges, End

-----------------------------------------------------------------------------
\* Up to twice the size of the file, the quotient by the size is 0 or 1.
LEMMA QuotientBySize ==
    ASSUME NEW y \in Nat, y < 2 * Size
    PROVE  y \div Size = IF y < Size THEN 0 ELSE 1
<1> DEFINE q == y \div Size
           r == y % Size
<1>1. q \in Nat /\ r \in 0 .. Size - 1 /\ y = Size * q + r
  BY SizeAssumption
<1> HIDE DEF q, r
<1>2. q < 2
  <2> SUFFICES ASSUME q >= 2 PROVE FALSE
    BY <1>1
  <2>1. Size * q >= Size * 2
    BY <1>1, SizeAssumption
  <2> QED BY <1>1, <2>1, SizeAssumption
<1>3. q = 0 \/ q = 1
  BY <1>1, <1>2
<1>4. CASE q = 0
  BY <1>1, <1>4, SizeAssumption DEF q
<1>5. CASE q = 1
  BY <1>1, <1>5, SizeAssumption DEF q
<1> QED BY <1>3, <1>4, <1>5

\* Rounding within the file, to the only block sizes there are.
LEMMA RoundingFacts ==
    ASSUME NEW x \in 0 .. Size, NEW b \in {1, Size}
    PROVE  /\ RoundDown(x, b) = IF b = 1 THEN x
                               ELSE IF x + Size \div 2 < Size THEN 0 ELSE Size
           /\ RoundUp(x, b) = IF b = 1 THEN x ELSE IF x = 0 THEN 0 ELSE Size
<1>1. Size \in Nat \ {0}
  BY SizeAssumption
<1>2. CASE b = 1
  BY <1>1, <1>2 DEF RoundDown, RoundUp
<1>3. CASE b = Size /\ b # 1
  <2> DEFINE y == x + Size \div 2
             z == x + Size - 1
  <2>1. y \in Nat /\ z \in Nat /\ y < 2 * Size /\ z < 2 * Size
    BY <1>1
  <2>2. (z < Size) <=> (x = 0)
    BY <1>1
  <2> HIDE DEF y, z
  <2>3. y \div Size = IF y < Size THEN 0 ELSE 1
    BY <2>1, QuotientBySize
  <2>4. z \div Size = IF z < Size THEN 0 ELSE 1
    BY <2>1, QuotientBySize
  <2>5. RoundDown(x, b) = (y \div Size) * Size /\ RoundUp(x, b) = (z \div Size) * Size
    BY <1>3 DEF RoundDown, RoundUp, y, z
  <2>6. 0 * Size = 0 /\ 1 * Size = Size
    BY <1>1
  <2>7. RoundDown(x, b) = IF y < Size THEN 0 ELSE Size
    BY <2>3, <2>5, <2>6
  <2>8. RoundUp(x, b) = IF x = 0 THEN 0 ELSE Size
    BY <2>2, <2>4, <2>5, <2>6
  <2> QED BY <1>3, <2>7, <2>8 DEF y
<1> QED BY <1>2, <1>3

\* A range given by its two ends.
LEMMA RangeFromTo ==
    ASSUME NEW from \in 0 .. Size, NEW to \in 0 .. Size, from <= to
    PROVE  Seg(from, to - from) \in Ranges
<1>1. Seg(from, to - from).start = from /\ Seg(from, to - from).size = to - from
  BY DEF Seg
<1>2. from + (to - from) = to /\ to - from \in 0 .. Size
  BY SizeAssumption
<1> QED BY <1>1, <1>2 DEF Ranges, Seg, End

\* Without multiple chunks, the next segment is a part of the file as well.
LEMMA SingleRangeRange ==
    ASSUME NEW D \in SUBSET Ranges, Canonical(D), NEW b \in {1, Size}
    PROVE  SingleRange(D, b) \in Ranges
<1> DEFINE g == First(D)
           rest == D \ {g}
           h == First(rest)
           from == RoundDown(End(g), b)
           to == IF rest = {} THEN Size ELSE RoundUp(h.start, b)
<1>1. Size \in Nat \ {0}
  BY SizeAssumption
<1>2. CASE D = {}
  BY <1>1, <1>2 DEF SingleRange, WholeFile, Seg, Ranges, End
<1>3. CASE D # {}
  <2>1. g \in D /\ \A x \in D \ {g} : Before(g, x)
    BY <1>3, FirstOfSet
  <2>2. g.start \in 0 .. Size /\ End(g) \in 0 .. Size /\ g.start <= End(g)
    BY <2>1, <1>1 DEF Ranges, End
  <2>3. CASE g.start > 0
    <3> DEFINE up == RoundUp(g.start, b)
    <3>1. SingleRange(D, b) = Seg(0, Min({Size, up}))
      BY <1>3, <2>3 DEF SingleRange
    <3>2. up \in 0 .. Size
      BY <2>2, <1>1, RoundingFacts
    <3> HIDE DEF up
    <3>3. Min({Size, up}) \in 0 .. Size
      BY <3>2, <1>1, MinOfTwo
    <3> QED BY <3>1, <3>3, <1>1 DEF Seg, Ranges, End
  <2>4. CASE g.start = 0
    <3>1. SingleRange(D, b) = Seg(from, Min({Size, to}) - from)
      BY <1>3, <2>4 DEF SingleRange
    <3>2. from \in 0 .. Size /\ (b = 1 => from = End(g))
      BY <2>2, <1>1, RoundingFacts
    <3>3. to \in 0 .. Size /\ from <= to
      <4>1. CASE rest = {}
        BY <4>1, <3>2, <1>1
      <4>2. CASE rest # {}
        <5>1. rest \in SUBSET Ranges
          OBVIOUS
        <5>2. h \in rest
          BY <4>2, <5>1, FirstOfSet
        <5>3. h.start \in 0 .. Size /\ ~Touches(g, h) /\ Before(g, h)
          BY <5>2, <2>1, <1>1 DEF Canonical, Ranges
        <5>4. End(h) \in 0 .. Size /\ h.start <= End(h)
          BY <5>2, <1>1 DEF Ranges, End
        <5>5. End(g) < h.start
          BY <5>3, <5>4, <2>2, <2>4 DEF Touches
        <5> HIDE DEF g, rest, h
        <5>6. h.start > 0
          BY <5>5, <5>3, <2>2
        <5>7. RoundUp(h.start, b) = IF b = 1 THEN h.start ELSE Size
          BY <5>3, <5>6, RoundingFacts
        <5> QED BY <5>3, <5>5, <5>7, <4>2, <3>2, <1>1
      <4> QED BY <4>1, <4>2
    <3> HIDE DEF from, to
    <3>4. Min({Size, to}) = to
      BY <3>3, <1>1, MinOfTwo
    <3>5. Seg(from, to - from) \in Ranges
      BY <3>2, <3>3, RangeFromTo
    <3> QED BY <3>1, <3>4, <3>5
  <2> QED BY <2>2, <2>3, <2>4
<1> QED BY <1>2, <1>3

-----------------------------------------------------------------------------
\* A range holds the positions from its start to its end.
LEMMA PositionFacts ==
    ASSUME NEW g \in Ranges, NEW x
    PROVE  /\ x \in Positions(g) <=> x \in 0 .. Size - 1 /\ g.start <= x /\ x < End(g)
           /\ g.start \in 0 .. Size /\ End(g) \in 0 .. Size /\ g.start <= End(g)
BY SizeAssumption DEF Positions, Ranges, End

\* What two ranges that do not overlap hold is different.
LEMMA DisjointPositions ==
    ASSUME NEW g \in Ranges, NEW h \in Ranges, ~Overlaps(g, h)
    PROVE  Positions(g) \cap Positions(h) = {}
<1> SUFFICES ASSUME NEW x \in Positions(g), x \in Positions(h) PROVE FALSE
  OBVIOUS
<1>1. x \in 0 .. Size - 1 /\ g.start <= x /\ x < End(g) /\ h.start <= x /\ x < End(h)
  BY PositionFacts
<1> QED BY <1>1, PositionFacts DEF Overlaps

\* A recorded segment adds to what is covered just what it holds itself:
\* merging finished segments neither loses nor invents a byte.
LEMMA AddSegmentCovers ==
    ASSUME NEW D \in SUBSET Ranges, NEW s \in Ranges
    PROVE  Covered(AddSegment(D, s)) = Covered(D) \cup Positions(s)
<1> DEFINE T == {d \in D : Touches(d, s)} \cup {s}
           H == Hull(T)
<1>1. /\ H \in Ranges
      /\ \E t \in T : H.start = t.start
      /\ \E t \in T : End(H) = End(t)
      /\ \A t \in T : H.start <= t.start /\ End(t) <= End(H)
  BY HullOfSet
<1>2. PICK t \in T : H.start = t.start
  BY <1>1
<1>3. PICK u \in T : End(H) = End(u)
  BY <1>1
<1>4. AddSegment(D, s) = (D \ T) \cup {H}
  BY DEF AddSegment, H
<1> HIDE DEF H
<1>5. T \in SUBSET Ranges
  OBVIOUS
<1>6. \A v \in T : Positions(v) \subseteq Positions(H)
  <2> TAKE v \in T
  <2> SUFFICES ASSUME NEW x \in Positions(v) PROVE x \in Positions(H)
    OBVIOUS
  <2>1. v \in Ranges
    BY <1>5
  <2> QED BY <2>1, <1>1, PositionFacts
<1>7. ASSUME NEW x \in Positions(H)
      PROVE  x \in Positions(s) \/ x \in Positions(t) \/ x \in Positions(u)
  <2>1. t = s \/ Touches(t, s)
    BY <1>2
  <2>2. u = s \/ Touches(u, s)
    BY <1>3
  <2>3. t \in Ranges /\ u \in Ranges
    BY <1>5
  <2>4. x \in 0 .. Size - 1 /\ t.start <= x /\ x < End(u)
    BY <1>1, <1>2, <1>3, <1>7, PositionFacts
  <2>5. CASE x < s.start
    <3>1. t # s /\ s.start <= End(t)
      BY <2>1, <2>3, <2>4, <2>5, PositionFacts DEF Touches
    <3> QED BY <3>1, <2>3, <2>4, <2>5, PositionFacts
  <2>6. CASE s.start <= x /\ x < End(s)
    BY <2>4, <2>6, PositionFacts
  <2>7. CASE End(s) <= x
    <3>1. u # s /\ u.start <= End(s)
      BY <2>2, <2>3, <2>4, <2>7, PositionFacts DEF Touches
    <3> QED BY <3>1, <2>3, <2>4, <2>7, PositionFacts
  <2> QED BY <2>3, <2>4, <2>5, <2>6, <2>7, PositionFacts
<1>8. \A v \in T : v = s \/ v \in D
  OBVIOUS
<1>9. ASSUME NEW x \in Covered(AddSegment(D, s)) PROVE x \in Covered(D) \cup Positions(s)
  <2>1. PICK g \in (D \ T) \cup {H} : x \in Positions(g)
    BY <1>4, <1>9 DEF Covered
  <2>2. CASE g \in D
    BY <2>1, <2>2 DEF Covered
  <2>3. CASE g = H
    BY <2>1, <2>3, <1>7, <1>8 DEF Covered
  <2> QED BY <2>2, <2>3
<1>10. ASSUME NEW x \in Covered(D) \cup Positions(s) PROVE x \in Covered(AddSegment(D, s))
  <2>1. PICK g \in D \cup {s} : x \in Positions(g)
    BY <1>10 DEF Covered
  <2>2. CASE g \in T
    BY <2>1, <2>2, <1>4, <1>6 DEF Covered
  <2>3. CASE g \notin T
    BY <2>1, <2>3, <1>4 DEF Covered
  <2> QED BY <2>2, <2>3
<1> QED BY <1>9, <1>10

\* The whole file holds every position.
LEMMA WholeFileFacts == WholeFile \in Ranges /\ Positions(WholeFile) = 0 .. Size - 1
BY SizeAssumption DEF WholeFile, Seg, Ranges, End, Positions

\* A merged set covers the file only if it is the one segment that is the file,
\* so segmentsDone() may look for that segment.
LEMMA CoveredAll ==
    ASSUME NEW D \in SUBSET Ranges, Canonical(D)
    PROVE  D = {WholeFile} <=> Covered(D) = 0 .. Size - 1
<1>1. D = {WholeFile} => Covered(D) = 0 .. Size - 1
  BY WholeFileFacts DEF Covered
<1>2. ASSUME Covered(D) = 0 .. Size - 1 PROVE D = {WholeFile}
  <2>1. Size \in Nat /\ Size > 0
    BY SizeAssumption
  <2>2. PICK g \in D : 0 \in Positions(g)
    BY <1>2, <2>1 DEF Covered
  <2>3. g.start = 0 /\ End(g) \in 1 .. Size
    BY <2>1, <2>2, PositionFacts
  <2>4. End(g) = Size
    <3> SUFFICES ASSUME End(g) # Size PROVE FALSE
      OBVIOUS
    <3>1. End(g) \in 0 .. Size - 1
      BY <2>1, <2>3
    <3>2. PICK h \in D : End(g) \in Positions(h)
      BY <1>2, <3>1 DEF Covered
    <3>3. h.start <= End(g) /\ End(g) < End(h)
      BY <3>2, PositionFacts
    <3>4. g # h /\ Touches(g, h)
      BY <2>1, <2>3, <3>3, PositionFacts DEF Touches
    <3> QED BY <3>4 DEF Canonical
  <2>5. g = WholeFile
    BY <2>1, <2>3, <2>4 DEF WholeFile, Seg, Ranges, End
  <2>6. \A h \in D : h = g
    <3> TAKE h \in D
    <3>1. Touches(g, h)
      BY <2>1, <2>3, <2>4, PositionFacts DEF Touches
    <3> QED BY <3>1 DEF Canonical
  <2> QED BY <2>2, <2>5, <2>6
<1> QED BY <1>1, <1>2

-----------------------------------------------------------------------------
\* Where the scan of getNextSegment goes on from a block that begins at r.
GoesOn(D, R, b, T, r) == r + Max({b, FreeLength(D, R, b, T, r)})

\* The scan always goes on behind where it is.
LEMMA GoesOnBehind ==
    ASSUME NEW D, NEW R, NEW b \in Nat \ {0}, NEW T \in Nat, NEW r \in Nat
    PROVE  LET n == FreeLength(D, R, b, T, r)
           IN  /\ n \in Nat
               /\ GoesOn(D, R, b, T, r) = r + (IF n > 0 THEN n ELSE b)
               /\ GoesOn(D, R, b, T, r) \in Nat /\ r < GoesOn(D, R, b, T, r)
<1> DEFINE n == FreeLength(D, R, b, T, r)
<1>1. n \in Nat
  BY FreeLengthIsFree
<1>2. GoesOn(D, R, b, T, r) = r + Max({b, n})
  BY DEF GoesOn
<1> HIDE DEF n
<1>3. Max({b, n}) = IF b >= n THEN b ELSE n
  BY <1>1, MaxOfTwo
<1>4. Max({b, n}) = IF n > 0 THEN n ELSE b
  <2>1. n > 0 => n >= b
    BY FreeLengthIsFree DEF n
  <2> QED BY <1>1, <1>3, <2>1
<1> QED BY <1>1, <1>2, <1>4 DEF n

\* The scan visits the beginning of the file and, from every block it visits,
\* the next one, and no other.  (The recursion that defines Visited has a solution: what is
\* in every set that is closed under going on.)
LEMMA VisitedFacts ==
    ASSUME NEW D, NEW R, NEW b \in Nat \ {0}, NEW T \in Nat
    PROVE  /\ 0 \in Visited(D, R, b, T)
           /\ \A r \in Visited(D, R, b, T) :
                 GoesOn(D, R, b, T, r) <= Size - 1 => GoesOn(D, R, b, T, r) \in Visited(D, R, b, T)
           /\ \A v \in Visited(D, R, b, T) \ {0} :
                 \E r \in Visited(D, R, b, T) : r < v /\ v = GoesOn(D, R, b, T, r)
<1> DEFINE P == 0 .. Size - 1
           go(r) == GoesOn(D, R, b, T, r)
           F(f) == [s \in P |-> \/ s = 0
                                \/ \E r \in 0 .. s - 1 : f[r] /\ s = go(r)]
           v == CHOOSE f : f = F(f)
<1>1. Visited(D, R, b, T) = {s \in P : v[s]}
  BY DEF Visited, GoesOn
<1>2. \A r \in P : go(r) \in Nat /\ r < go(r)
  BY GoesOnBehind, SizeAssumption
<1>3. 0 \in P
  BY SizeAssumption
<1> HIDE DEF go
<1>4. \E f : f = F(f)
  <2> DEFINE Closed(W) == 0 \in W /\ \A r \in W : go(r) \in P => go(r) \in W
             f == [s \in P |-> \A W \in SUBSET P : Closed(W) => s \in W]
             W0 == {s \in P : f[s]}
  <2>1. Closed(W0)
    <3>1. 0 \in W0
      BY <1>3
    <3>2. ASSUME NEW r \in W0, go(r) \in P PROVE go(r) \in W0
      <4>1. \A W \in SUBSET P : Closed(W) => go(r) \in W
        BY <3>2
      <4> QED BY <3>2, <4>1
    <3> QED BY <3>1, <3>2
  <2>2. ASSUME NEW s \in P
        PROVE  f[s] <=> \/ s = 0
                        \/ \E r \in 0 .. s - 1 : f[r] /\ s = go(r)
    <3>1. ASSUME s = 0 PROVE f[s]
      BY <2>1, <3>1
    <3>2. ASSUME NEW r \in 0 .. s - 1, f[r], s = go(r) PROVE f[s]
      <4>1. r \in P
        BY <3>2, SizeAssumption
      <4> QED BY <2>1, <3>2, <4>1
    <3>3. ASSUME f[s], s # 0 PROVE \E r \in 0 .. s - 1 : f[r] /\ s = go(r)
      <4> SUFFICES ASSUME \A r \in 0 .. s - 1 : ~(f[r] /\ s = go(r)) PROVE FALSE
        OBVIOUS
      <4> DEFINE W1 == W0 \ {s}
      <4>1. ASSUME NEW r \in W1, go(r) \in P PROVE go(r) \in W1
        <5>1. go(r) \in W0 /\ r \in P /\ f[r]
          BY <2>1, <4>1
        <5>2. go(r) # s
          <6> SUFFICES ASSUME go(r) = s PROVE FALSE
            OBVIOUS
          <6>1. r \in 0 .. s - 1
            BY <1>2, <5>1, SizeAssumption
          <6> QED BY <5>1, <6>1
        <5> QED BY <5>1, <5>2
      <4>2. 0 \in W1
        BY <2>1, <3>3
      <4>3. W1 \in SUBSET P
        OBVIOUS
      <4>4. Closed(W1)
        BY <4>1, <4>2
      <4>5. s \in W1
        <5> HIDE DEF W1, Closed
        <5> QED BY <3>3, <4>3, <4>4
      <4> QED BY <4>5
    <3> QED BY <3>1, <3>2, <3>3
  <2>3. f = F(f)
    BY <2>2
  <2> QED BY <2>3
<1>5. v = F(v)
  BY <1>4
<1> HIDE DEF v
<1>6. \A s \in P : v[s] <=> \/ s = 0
                            \/ \E r \in 0 .. s - 1 : v[r] /\ s = go(r)
  BY <1>5
<1>7. v[0]
  BY <1>3, <1>6
<1>8. ASSUME NEW r \in P, v[r], go(r) <= Size - 1 PROVE go(r) \in P /\ v[go(r)]
  <2>1. go(r) \in P /\ r \in 0 .. go(r) - 1
    BY <1>2, <1>8, SizeAssumption
  <2> QED BY <1>6, <1>8, <2>1
<1>9. ASSUME NEW s \in P, v[s], s # 0 PROVE \E r \in P : v[r] /\ r < s /\ s = go(r)
  <2>1. PICK r \in 0 .. s - 1 : v[r] /\ s = go(r)
    BY <1>6, <1>9
  <2>2. r \in P /\ r < s
    BY SizeAssumption
  <2> QED BY <2>1, <2>2
<1> QED BY <1>1, <1>3, <1>7, <1>8, <1>9 DEF go

\* A position that neither a finished segment nor a running download holds.
IsFree(D, R, x) ==
    /\ x \in 0 .. Size - 1
    /\ \A d \in D : x \notin Positions(d)
    /\ \A r \in R : x \notin Positions(r)

\* One block at a free position is free.
LEMMA FreePosition ==
    ASSUME NEW D \in SUBSET Ranges, NEW R \in SUBSET [start : Int, size : Int],
           NEW T \in Nat \ {0}, NEW x, IsFree(D, R, x)
    PROVE  FreeLength(D, R, 1, T, x) > 0
<1>1. x \in 0 .. Size - 1 /\ Size \in Nat
  BY SizeAssumption DEF IsFree
<1>2. Block(x, 1) = Seg(x, 1)
  <2>1. Min({Size, x + 1}) = x + 1
    BY <1>1, MinOfTwo
  <2>2. (x + 1) - x = 1
    BY <1>1
  <2> QED BY <2>1, <2>2 DEF Block
<1>3. \A r \in R : ~Overlaps(Seg(x, 1), r)
  <2> TAKE r \in R
  <2>1. x \notin r.start .. End(r) - 1
    BY DEF IsFree, Positions
  <2>2. r.start \in Int /\ End(r) \in Int
    BY DEF End
  <2> QED BY <1>1, <2>1, <2>2 DEF Overlaps, Seg, End
<1>4. \A d \in D : ~Contains(d, Seg(x, 1))
  <2> TAKE d \in D
  <2>1. x \notin Positions(d)
    BY DEF IsFree
  <2> QED BY <1>1, <2>1, PositionFacts DEF Contains, Seg, End
<1>5. Free(D, R, 1, x, 1)
  BY <1>2, <1>3, <1>4 DEF Free
<1> DEFINE L == {n \in {k * 1 : k \in 1 .. (T \div 1)} : Free(D, R, 1, x, n)}
           M == {0} \cup L
<1>6. 1 \in L /\ \A n \in L : n \in Nat /\ n <= T
  <2>1. 1 \in 1 .. (T \div 1) /\ 1 * 1 = 1
    OBVIOUS
  <2> QED BY <1>5, <2>1
<1> HIDE DEF L
<1>7. M \in SUBSET Int /\ M # {} /\ \A n \in M : n <= T
  BY <1>6
<1>8. 1 \in M
  BY <1>6
<1> HIDE DEF M
<1>9. T \in Int
  OBVIOUS
<1>10. Max(M) \in M /\ \A n \in M : Max(M) >= n
  BY <1>7, <1>9, MaxOfSet
<1>11. FreeLength(D, R, 1, T, x) = Max(M)
  BY DEF FreeLength, M, L
<1> DEFINE m == Max(M)
<1>12. m \in Int /\ m >= 1
  BY <1>7, <1>8, <1>10
<1> HIDE DEF m
<1>13. m > 0
  BY <1>12
<1> QED BY <1>11, <1>13 DEF m

\* The scan misses nothing: every free position is in one of the blocks it
\* finds, whatever size is wanted.
LEMMA ScanFindsAll ==
    ASSUME NEW D \in SUBSET Ranges, NEW R \in SUBSET [start : Int, size : Int],
           NEW T \in Nat \ {0}, NEW x, IsFree(D, R, x)
    PROVE  \E f \in FreeBlocks(D, R, 1, T) : x \in Positions(f)
<1> DEFINE V == Visited(D, R, 1, T)
           n(r) == FreeLength(D, R, 1, T, r)
           A == {r \in V : r <= x}
<1>1. x \in 0 .. Size - 1 /\ Size \in Nat
  BY SizeAssumption DEF IsFree
<1>2. V \subseteq 0 .. Size - 1
  BY DEF Visited
<1>3. 0 \in V /\ \A r \in V : GoesOn(D, R, 1, T, r) <= Size - 1 => GoesOn(D, R, 1, T, r) \in V
  BY VisitedFacts
<1> HIDE DEF V
<1>4. A \in SUBSET Int /\ A # {} /\ \A r \in A : r <= x
  <2>1. x \in Int /\ 0 <= x
    BY <1>1
  <2>2. 0 \in A
    BY <1>3, <2>1
  <2>3. \A r \in A : r \in Int
    <3> TAKE r \in A
    <3>1. r \in 0 .. Size - 1
      BY <1>2
    <3> QED BY <3>1
  <2> QED BY <2>2, <2>3
<1> HIDE DEF A
<1>5. PICK r \in A : \A y \in A : r >= y
  <2>1. x \in Int
    BY <1>1
  <2> QED BY <2>1, <1>4, GreatestExists
<1> USE DEF A
<1>6. r \in V /\ r \in 0 .. Size - 1 /\ r <= x
  BY <1>2, <1>5
<1>7. /\ n(r) \in Nat
      /\ GoesOn(D, R, 1, T, r) = r + (IF n(r) > 0 THEN n(r) ELSE 1)
  BY <1>6, GoesOnBehind
<1>8. ~(GoesOn(D, R, 1, T, r) <= x)
  <2> SUFFICES ASSUME GoesOn(D, R, 1, T, r) <= x PROVE FALSE
    OBVIOUS
  <2>1. GoesOn(D, R, 1, T, r) \in Int /\ GoesOn(D, R, 1, T, r) > r
    BY <1>6, <1>7
  <2>2. GoesOn(D, R, 1, T, r) <= Size - 1
    BY <1>1, <2>1
  <2>3. GoesOn(D, R, 1, T, r) \in A
    BY <1>3, <1>6, <2>2
  <2> QED BY <1>5, <1>6, <2>1, <2>3
<1>9. n(r) > 0
  <2> SUFFICES ASSUME ~(n(r) > 0) PROVE FALSE
    OBVIOUS
  <2>1. r = x
    BY <1>1, <1>6, <1>7, <1>8
  <2>2. n(x) > 0
    BY FreePosition
  <2> QED BY <2>1, <2>2
<1>10. Block(r, n(r)) \in FreeBlocks(D, R, 1, T)
  BY <1>6, <1>9 DEF FreeBlocks, V
<1> DEFINE to == Min({Size, r + n(r)})
<1>11. to = IF Size <= r + n(r) THEN Size ELSE r + n(r)
  BY <1>1, <1>6, <1>7, MinOfTwo
<1>12. Block(r, n(r)) = Seg(r, to - r)
  BY DEF Block
<1> HIDE DEF to, n
<1>13. x < to /\ to \in Int
  BY <1>1, <1>6, <1>7, <1>8, <1>9, <1>11
<1>14. x \in Positions(Seg(r, to - r))
  BY <1>1, <1>6, <1>13 DEF Positions, Seg, End
<1> QED BY <1>10, <1>12, <1>14

\* If anything is found, something is found first.
LEMMA FirstIsFound ==
    ASSUME NEW D, NEW R, NEW T \in Nat, FreeBlocks(D, R, 1, T) # {}
    PROVE  FirstFree(D, R, 1, T) # {}
<1> DEFINE S == FreeBlocks(D, R, 1, T)
<1>1. \A f \in S : f \in Ranges
  BY FreeBlockFacts
<1> HIDE DEF S
<1>2. First(S) \in S /\ \A h \in S \ {First(S)} : Before(First(S), h)
  BY <1>1, FirstOfSet DEF S
<1> QED BY <1>2 DEF FirstFree, S

\* A block that the scan finds holds nothing that is finished already.
LEMMA FreeBlockUnfinished ==
    ASSUME NEW D \in SUBSET Ranges, NEW R, NEW T \in Nat, NEW f \in FreeBlocks(D, R, 1, T),
           NEW d \in D
    PROVE  Positions(f) \cap Positions(d) = {}
<1>1. PICK s \in Visited(D, R, 1, T) :
         /\ FreeLength(D, R, 1, T, s) > 0
         /\ f = Block(s, FreeLength(D, R, 1, T, s))
  BY DEF FreeBlocks
<1>2. s \in 0 .. Size - 1 /\ Size \in Nat
  BY SizeAssumption DEF Visited
<1> DEFINE n == FreeLength(D, R, 1, T, s)
<1>3. n \in Nat /\ Free(D, R, 1, s, n)
  BY <1>1, FreeLengthIsFree
<1>4. f = Block(s, n) /\ n > 0
  BY <1>1
<1> HIDE DEF n
<1>5. CASE n <= 1
  <2>1. n = 1
    BY <1>3, <1>4, <1>5
  <2>2. Min({Size, s + 1}) = s + 1 /\ (s + 1) - s = 1
    BY <1>2, MinOfTwo
  <2>3. f = Seg(s, 1)
    BY <1>4, <2>1, <2>2 DEF Block
  <2>4. ~Contains(d, f)
    BY <1>3, <1>4, <1>5 DEF Free
  <2>5. \A x \in Positions(f) : x = s
    BY <1>2, <2>3 DEF Positions, Seg, End
  <2>6. s \notin Positions(d)
    BY <1>2, <2>3, <2>4, PositionFacts DEF Contains, Seg, End
  <2> QED BY <2>5, <2>6
<1>6. CASE ~(n <= 1)
  <2>1. ~Overlaps(d, f)
    BY <1>3, <1>4, <1>6 DEF Free
  <2>2. f \in Ranges
    BY FreeBlockFacts
  <2> QED BY <2>1, <2>2, DisjointPositions
<1> QED BY <1>5, <1>6

\* Without multiple chunks, what is requested of an unfinished file is
\* something, and nothing that is finished already.
LEMMA SingleRangeUnfinished ==
    ASSUME NEW D \in SUBSET Ranges, Canonical(D), D # {WholeFile}
    PROVE  LET g == SingleRange(D, 1)
           IN  g.size > 0 /\ \A d \in D : Positions(g) \cap Positions(d) = {}
<1> DEFINE g == First(D)
           rest == D \ {g}
           h == First(rest)
           to == IF rest = {} THEN Size ELSE RoundUp(h.start, 1)
<1>1. Size \in Nat /\ Size > 0
  BY SizeAssumption
<1>2. CASE D = {}
  BY <1>1, <1>2 DEF SingleRange, WholeFile, Seg
<1>3. CASE D # {}
  <2>1. g \in D /\ \A x \in D \ {g} : Before(g, x)
    BY <1>3, FirstOfSet
  <2>2. g \in Ranges /\ g.start \in 0 .. Size /\ End(g) \in 0 .. Size /\ g.start <= End(g)
    BY <2>1, PositionFacts
  <2>3. CASE g.start > 0
    <3>1. RoundUp(g.start, 1) = g.start /\ Min({Size, g.start}) = g.start
      BY <1>1, <2>2, RoundingFacts, MinOfTwo
    <3>2. SingleRange(D, 1) = Seg(0, g.start)
      BY <1>3, <2>3, <3>1 DEF SingleRange
    <3>3. \A d \in D : g.start <= d.start
      BY <2>1, <2>2, PositionFacts DEF Before
    <3> HIDE DEF g
    <3>4. ASSUME NEW d \in D PROVE Positions(Seg(0, g.start)) \cap Positions(d) = {}
      <4>1. \A x \in Positions(Seg(0, g.start)) : x \in Int /\ x < g.start
        BY <2>2 DEF Positions, Seg, End
      <4>2. \A x \in Positions(d) : x \in Int /\ g.start <= x
        BY <2>2, <3>3, PositionFacts
      <4> QED BY <2>2, <4>1, <4>2
    <3> QED BY <2>3, <3>2, <3>4 DEF Seg
  <2>4. CASE g.start = 0
    <3>1. RoundDown(End(g), 1) = End(g)
      BY <1>1, <2>2, RoundingFacts
    <3>2. /\ to \in 0 .. Size /\ End(g) < to
          /\ \A d \in rest : to <= d.start
      <4>1. CASE rest = {}
        <5>1. D = {g}
          BY <2>1, <4>1
        <5>2. End(g) # Size
          <6> SUFFICES ASSUME End(g) = Size PROVE FALSE
            OBVIOUS
          <6> HIDE DEF g
          <6>1. g = WholeFile
            BY <1>1, <2>2, <2>4 DEF WholeFile, Seg, Ranges, End
          <6> QED BY <5>1, <6>1
        <5> QED BY <4>1, <5>2, <2>2, <1>1
      <4>2. CASE rest # {}
        <5>1. rest \in SUBSET Ranges
          OBVIOUS
        <5>2. h \in rest /\ \A x \in rest \ {h} : Before(h, x)
          BY <4>2, <5>1, FirstOfSet
        <5>3. ~Touches(g, h) /\ h.start \in 0 .. Size /\ End(h) \in 0 .. Size /\ h.start <= End(h)
          BY <2>1, <5>1, <5>2, PositionFacts DEF Canonical
        <5>4. End(g) < h.start
          BY <2>2, <2>4, <5>3 DEF Touches
        <5>5. \A d \in rest : h.start <= d.start
          <6> HIDE DEF g, rest, h
          <6> TAKE d \in rest
          <6>1. d = h \/ Before(h, d)
            BY <5>2
          <6>2. d.start \in 0 .. Size
            BY <5>1, PositionFacts
          <6> QED BY <1>1, <5>3, <6>1, <6>2 DEF Before
        <5> HIDE DEF g, rest, h
        <5>6. RoundUp(h.start, 1) = h.start
          BY <1>1, <5>3, RoundingFacts
        <5> QED BY <4>2, <5>3, <5>4, <5>5, <5>6
      <4> QED BY <4>1, <4>2
    <3> HIDE DEF to
    <3>3. SingleRange(D, 1) = Seg(End(g), to - End(g))
      <4>1. SingleRange(D, 1) = Seg(End(g), Min({Size, to}) - End(g))
        BY <1>3, <2>4, <3>1 DEF SingleRange, to
      <4>2. Min({Size, to}) = to
        BY <1>1, <3>2, MinOfTwo
      <4> QED BY <4>1, <4>2
    <3> DEFINE gap == Seg(End(g), to - End(g))
    <3>4. gap.size > 0 /\ \A x \in Positions(gap) : x \in Int /\ End(g) <= x /\ x < to
      <4> HIDE DEF g
      <4> QED BY <2>2, <3>2 DEF Positions, Seg, End
    <3>5. ASSUME NEW d \in D PROVE Positions(gap) \cap Positions(d) = {}
      <4> HIDE DEF g, gap
      <4>1. CASE d = g
        BY <2>2, <3>4, <4>1, PositionFacts
      <4>2. CASE d # g
        <5>1. to <= d.start
          BY <3>2, <4>2 DEF g
        <5> QED BY <3>2, <3>4, <5>1, PositionFacts
      <4> QED BY <4>1, <4>2
    <3> QED BY <3>3, <3>4, <3>5
  <2> QED BY <2>2, <2>3, <2>4
<1> QED BY <1>2, <1>3

-----------------------------------------------------------------------------
(* How much a finished set holds.                                          *)

\* A range has as many positions as its size says.
LEMMA RangeSize ==
    ASSUME NEW g \in Ranges
    PROVE  IsFiniteSet(Positions(g)) /\ Cardinality(Positions(g)) = g.size
<1>1. g.start \in Int /\ g.size \in Nat /\ End(g) - 1 \in Int /\ End(g) = g.start + g.size
  BY SizeAssumption DEF Ranges, End
<1>2. g.start > End(g) - 1 <=> g.size = 0
  BY <1>1
<1>3. Cardinality(g.start .. (End(g) - 1)) =
        IF g.start > End(g) - 1 THEN 0 ELSE (End(g) - 1) - g.start + 1
  BY <1>1, FS_Interval
<1>4. IsFiniteSet(g.start .. (End(g) - 1))
  BY <1>1, FS_Interval
<1> QED BY <1>1, <1>2, <1>3, <1>4 DEF Positions

\* A set of ranges is finite, and so is what it covers.
LEMMA FiniteRanges ==
    ASSUME NEW D \in SUBSET Ranges
    PROVE  IsFiniteSet(D) /\ IsFiniteSet(Covered(D))
<1> DEFINE T == (0 .. Size) \X (0 .. Size)
           f == [g \in D |-> <<g.start, g.size>>]
<1>1. IsFiniteSet(0 .. Size) /\ IsFiniteSet(0 .. Size - 1)
  BY FS_Interval, SizeAssumption
<1>2. IsFiniteSet(T)
  BY <1>1, FS_Product
<1>3. f \in Injection(D, T)
  <2>1. f \in [D -> T]
    BY DEF Ranges
  <2>2. ASSUME NEW g \in D, NEW h \in D, f[g] = f[h] PROVE g = h
    BY <2>2 DEF Ranges
  <2> QED BY <2>1, <2>2 DEF Injection, IsInjective
<1>4. Covered(D) \subseteq 0 .. Size - 1
  BY PositionFacts DEF Covered
<1>5. IsFiniteSet(Covered(D))
  BY <1>1, <1>4, FS_Subset
<1> HIDE DEF T, f
<1> QED BY <1>2, <1>3, <1>5, FS_Injection

\* Segments of a merged set have no position in common.
LEMMA CanonicalDisjoint ==
    ASSUME NEW D \in SUBSET Ranges, Canonical(D), NEW g \in D, NEW h \in D, g # h
    PROVE  Positions(g) \cap Positions(h) = {}
<1>1. ~Overlaps(g, h)
  BY SizeAssumption DEF Canonical, Touches, Overlaps, Ranges, End
<1> QED BY <1>1, DisjointPositions

\* So each adds its size to what the set covers.
LEMMA CoveredLess ==
    ASSUME NEW D \in SUBSET Ranges, Canonical(D), NEW S \in SUBSET D, NEW g \in S
    PROVE  Cardinality(Covered(S)) = g.size + Cardinality(Covered(S \ {g}))
<1>1. Covered(S) = Covered(S \ {g}) \cup Positions(g)
  BY DEF Covered
<1>2. Covered(S \ {g}) \cap Positions(g) = {}
  BY CanonicalDisjoint DEF Covered
<1>3. IsFiniteSet(Covered(S \ {g})) /\ S \ {g} \in SUBSET Ranges
  BY FiniteRanges
<1>4. IsFiniteSet(Positions(g)) /\ Cardinality(Positions(g)) = g.size
  BY RangeSize
<1>5. Cardinality(Covered(S)) = Cardinality(Covered(S \ {g})) + g.size - Cardinality({})
  BY <1>1, <1>2, <1>3, <1>4, FS_Union
<1> QED BY <1>3, <1>4, <1>5, FS_EmptySet, FS_CardinalityType

\* The bytes of a merged set are the positions it covers: f, which says so for its
\* subsets, is the only function that adds up their sizes.
LEMMA BytesCovered ==
    ASSUME NEW D \in SUBSET Ranges, Canonical(D)
    PROVE  Bytes(D) = Cardinality(Covered(D))
<1> DEFINE some(S) == CHOOSE x \in S : TRUE
           Sum(f) == [S \in SUBSET D |-> IF S = {} THEN 0 ELSE some(S).size + f[S \ {some(S)}]]
           sum == CHOOSE f : f = Sum(f)
           held(S) == Cardinality(Covered(S))
           f == [S \in SUBSET D |-> held(S)]
<1>1. Bytes(D) = sum[D]
  BY DEF Bytes, MapThenSumSet, MapThenFoldSet
<1>2. \A S \in SUBSET D : S # {} => some(S) \in S
  OBVIOUS
<1>3. held({}) = 0
  BY FS_EmptySet DEF Covered
<1>4. \A S \in SUBSET D : S # {} => held(S) = some(S).size + held(S \ {some(S)})
  BY <1>2, CoveredLess
<1> HIDE DEF some, held
<1>5. f = Sum(f)
  BY <1>2, <1>3, <1>4
<1>6. sum = Sum(sum)
  BY <1>5
<1> HIDE DEF sum
<1>7. \A S \in SUBSET D : sum[S] = IF S = {} THEN 0 ELSE some(S).size + sum[S \ {some(S)}]
  BY <1>6
<1>8. \A S \in SUBSET D : IsFiniteSet(S) /\ Cardinality(S) \in Nat
  BY FiniteRanges, FS_Subset, FS_CardinalityType
<1>9. \A S \in SUBSET D : sum[S] = held(S)
  <2> SUFFICES ASSUME NEW S0 \in SUBSET D, sum[S0] # held(S0) PROVE FALSE
    OBVIOUS
  <2> DEFINE Bad == {S \in SUBSET D : sum[S] # held(S)}
             Sizes == {Cardinality(S) : S \in Bad}
  <2>1. Sizes \in SUBSET Int /\ Sizes # {} /\ \A n \in Sizes : n >= 0
    BY <1>8
  <2>2. \E n \in Sizes : \A m \in Sizes : n <= m
    <3>1. Sizes # {} /\ \A n \in Sizes : n >= 0
      BY <2>1
    <3>2. Sizes \in SUBSET Int /\ 0 \in Int
      BY <2>1
    <3> HIDE DEF Sizes, Bad
    <3> QED BY <3>1, <3>2, SmallestExists
  <2>3. PICK S \in Bad : \A R \in Bad : Cardinality(S) <= Cardinality(R)
    BY <2>2
  <2>4. S # {}
    BY <1>3, <1>7, <2>3
  <2> DEFINE R == S \ {some(S)}
  <2>5. R \in SUBSET D /\ Cardinality(R) = Cardinality(S) - 1
    BY <1>2, <1>8, <2>3, <2>4, FS_RemoveElement
  <2>6. R \notin Bad
    BY <1>8, <2>3, <2>5
  <2>7. sum[R] = held(R)
    BY <2>5, <2>6
  <2> QED BY <1>4, <1>7, <2>3, <2>4, <2>7
<1> QED BY <1>1, <1>9 DEF held

\* The hull of two segments that touch and have no position in common is as long as both.
LEMMA HullOfTwo ==
    ASSUME NEW d \in Ranges, NEW s \in Ranges, s.size > 0, Touches(d, s),
           Positions(d) \cap Positions(s) = {}
    PROVE  Hull({d, s}).size = d.size + s.size
<1> DEFINE h == Hull({d, s})
<1>1. {d, s} \in SUBSET Ranges /\ {d, s} # {}
  OBVIOUS
<1>2. /\ h \in Ranges /\ h.start \in {d.start, s.start} /\ End(h) \in {End(d), End(s)}
      /\ h.start <= d.start /\ End(d) <= End(h)
      /\ h.start <= s.start /\ End(s) <= End(h)
  <2> HIDE DEF h
  <2>1. /\ h \in Ranges
        /\ \E t \in {d, s} : h.start = t.start
        /\ \E t \in {d, s} : End(h) = End(t)
        /\ \A t \in {d, s} : h.start <= t.start /\ End(t) <= End(h)
    BY <1>1, HullOfSet DEF h
  <2> QED BY <2>1
<1> HIDE DEF h
<1>3. /\ d.start \in Int /\ d.size \in Nat /\ End(d) = d.start + d.size
      /\ s.start \in Int /\ s.size \in Nat /\ End(s) = s.start + s.size
      /\ h.start \in Int /\ h.size \in Int /\ End(h) = h.start + h.size
  BY <1>2, SizeAssumption DEF Ranges, End
<1>4. d.size = 0 \/ End(d) <= s.start \/ End(s) <= d.start
  <2> SUFFICES ASSUME d.size > 0, End(d) > s.start, End(s) > d.start PROVE FALSE
    BY <1>3
  <2> DEFINE x == IF d.start <= s.start THEN s.start ELSE d.start
  <2>1. x \in d.start .. (End(d) - 1) /\ x \in s.start .. (End(s) - 1)
    BY <1>3
  <2> QED BY <2>1 DEF Positions
<1>5. d.start <= End(s) /\ s.start <= End(d)
  BY DEF Touches
<1> QED BY <1>2, <1>3, <1>4, <1>5 DEF h

\* The credit for a segment of which nothing was finished is its size, with whatever
\* it merges: although addFinishedSegment counts the first merge only (QueueItem.cpp:595).
LEMMA CreditIsSize ==
    ASSUME NEW D \in SUBSET Ranges, Canonical(D), NEW s \in Ranges, s.size > 0,
           Positions(s) \cap Covered(D) = {}
    PROVE  NewBytes(D, s) = s.size
<1> DEFINE Prev == {d \in D : Before(d, s) /\ Touches(d, s)}
           Next == {d \in D : Before(s, d) /\ Touches(d, s)}
           MergedWith(d) == Hull({d, s}).size - d.size
           last == CHOOSE p \in Prev : \A q \in Prev \ {p} : Before(q, p)
<1>1. NewBytes(D, s) = IF s \in D \/ Prev \cup Next = {} THEN s.size
                       ELSE IF Prev # {} THEN MergedWith(last)
                       ELSE MergedWith(First(Next))
  BY DEF NewBytes
<1>2. ASSUME NEW d \in Prev \cup Next PROVE MergedWith(d) = s.size
  <2>1. d \in Ranges /\ Touches(d, s) /\ Positions(d) \cap Positions(s) = {}
    BY DEF Covered
  <2>2. Hull({d, s}).size = d.size + s.size
    BY <2>1, HullOfTwo
  <2> QED BY <2>1, <2>2, SizeAssumption DEF Ranges
<1>3. ASSUME Prev # {} PROVE last \in Prev
  <2>1. PICK p \in Prev : TRUE
    BY <1>3
  <2>2. \A q \in Prev : q = p
    BY <2>1, SizeAssumption DEF Before, Touches, Canonical, Ranges, End
  <2> QED BY <2>1, <2>2
<1>4. ASSUME Next # {} PROVE First(Next) \in Next
  <2>1. Next \in SUBSET Ranges
    OBVIOUS
  <2> HIDE DEF Next
  <2> QED BY <1>4, <2>1, FirstOfSet
<1> HIDE DEF Prev, Next, MergedWith, last
<1> QED BY <1>1, <1>2, <1>3, <1>4

\* Recording such a segment, the credit is what the set holds more.
LEMMA CreditIsExact ==
    ASSUME NEW D \in SUBSET Ranges, Canonical(D), NEW s \in Ranges, s.size > 0,
           Positions(s) \cap Covered(D) = {}
    PROVE  Bytes(D) \in Nat /\ Bytes(AddSegment(D, s)) = Bytes(D) + NewBytes(D, s)
<1>1. AddSegment(D, s) \in SUBSET Ranges /\ Canonical(AddSegment(D, s))
  BY AddSegmentRanges, AddSegmentCanonical
<1>2. Covered(AddSegment(D, s)) = Covered(D) \cup Positions(s)
  BY AddSegmentCovers
<1>3. IsFiniteSet(Covered(D)) /\ IsFiniteSet(Positions(s)) /\ Cardinality(Positions(s)) = s.size
  BY FiniteRanges, RangeSize
<1>4. Cardinality(Covered(D) \cup Positions(s)) =
        Cardinality(Covered(D)) + s.size - Cardinality(Covered(D) \cap Positions(s))
  BY <1>3, FS_Union
<1>5. Covered(D) \cap Positions(s) = {} /\ Cardinality(Covered(D)) \in Nat
  BY <1>3, FS_CardinalityType
<1>6. s.size \in Nat /\ Cardinality({}) = 0
  BY FS_EmptySet, SizeAssumption DEF Ranges
<1>7. Cardinality(Covered(D) \cup Positions(s)) = Cardinality(Covered(D)) + s.size
  BY <1>4, <1>5, <1>6
<1> QED BY <1>1, <1>2, <1>5, <1>7, BytesCovered, CreditIsSize

-----------------------------------------------------------------------------
(* The loop of addFinishedSegment.                                         *)

\* The parts of the file are ranges, with a position.
LEMMA FilePart ==
    ASSUME NEW g \in FileSegments
    PROVE  /\ g \in Ranges /\ g = Seg(g.start, g.size)
           /\ g.start \in Nat /\ g.size \in Nat /\ g.size > 0
           /\ End(g) \in Nat /\ End(g) = g.start + g.size /\ g.start < End(g) /\ End(g) <= Size
BY SizeAssumption DEF FileSegments, Ranges, End, Seg

\* A range given by its two ends.
LEMMA FilePartFromTo ==
    ASSUME NEW from \in Nat, NEW to \in Nat, from < to, to <= Size
    PROVE  Seg(from, to - from) \in FileSegments /\ End(Seg(from, to - from)) = to
BY SizeAssumption DEF FileSegments, End, Seg

\* The order of the set is one.
LEMMA BeforeIsOrder ==
    ASSUME NEW g \in FileSegments, NEW h \in FileSegments
    PROVE  /\ ~(Before(g, h) /\ Before(h, g))
           /\ g # h => Before(g, h) \/ Before(h, g)
           /\ Before(g, h) => g # h /\ g.start <= h.start
<1>1. /\ g.start \in Int /\ g.size \in Int /\ h.start \in Int /\ h.size \in Int
      /\ g = Seg(g.start, g.size) /\ h = Seg(h.start, h.size)
  BY FilePart
<1>2. g # h => g.start # h.start \/ g.size # h.size
  BY <1>1
<1> QED BY <1>1, <1>2 DEF Before

\* The last element of a set of ranges in the order of the set exists.
LEMMA LastOfSet ==
    ASSUME NEW D \in SUBSET Ranges, D # {}
    PROVE  LastOf(D) \in D /\ \A h \in D \ {LastOf(D)} : Before(h, LastOf(D))
<1> DEFINE S == {g.start : g \in D}
<1>1. S \in SUBSET Int /\ S # {} /\ \A x \in S : x <= Size
  BY SizeAssumption DEF Ranges
<1>0. Size \in Int
  BY SizeAssumption
<1> HIDE DEF S
<1>2. PICK hi \in S : \A y \in S : hi >= y
  BY <1>0, <1>1, GreatestExists
<1> USE DEF S
<1> DEFINE N == {g.size : g \in {h \in D : h.start = hi}}
<1>3. N \in SUBSET Int /\ N # {} /\ \A x \in N : x <= Size
  BY <1>2, SizeAssumption DEF Ranges
<1> HIDE DEF N
<1>4. PICK n \in N : \A y \in N : n >= y
  BY <1>0, <1>3, GreatestExists
<1> USE DEF N
<1>5. PICK g \in D : g.start = hi /\ g.size = n
  BY <1>4
<1>6. \A h \in D \ {g} : Before(h, g)
  <2> TAKE h \in D \ {g}
  <2>1. hi >= h.start
    BY <1>2
  <2>2. CASE h.start = hi
    <3>1. n >= h.size
      BY <2>2, <1>4
    <3>2. h.size # n
      BY <2>2, <1>5 DEF Ranges
    <3> QED BY <2>2, <3>1, <3>2, <1>5, SizeAssumption DEF Before, Ranges
  <2>3. CASE h.start # hi
    BY <2>1, <2>3, <1>5, SizeAssumption DEF Before, Ranges
  <2> QED BY <2>2, <2>3
<1> QED BY <1>5, <1>6 DEF LastOf

\* Merged segments of which the second begins within the first or where it ends hold
\* what both of them hold.
LEMMA MergedFacts ==
    ASSUME NEW g \in FileSegments, NEW h \in FileSegments,
           g.start <= h.start, h.start <= End(g)
    PROVE  /\ Merged(g, h) \in FileSegments
           /\ Merged(g, h).start = g.start
           /\ Merged(g, h) = Hull({g, h}) /\ Merged(g, h) = Hull({h, g})
           /\ Positions(Merged(g, h)) = Positions(g) \cup Positions(h)
<1> DEFINE to == Max({End(g), End(h)})
<1>1. /\ g.start \in Nat /\ h.start \in Nat /\ End(g) \in Nat /\ End(h) \in Nat
      /\ g.start < End(g) /\ h.start < End(h) /\ End(g) <= Size /\ End(h) <= Size
  BY FilePart
<1>2. to = IF End(g) >= End(h) THEN End(g) ELSE End(h)
  BY <1>1, MaxOfTwo
<1>3. Merged(g, h) = Seg(g.start, to - g.start)
  BY DEF Merged
<1>4. Min({g.start, h.start}) = g.start
  BY <1>1, MinOfTwo
<1>5. Hull({g, h}) = Seg(g.start, to - g.start)
  <2>1. {t.start : t \in {g, h}} = {g.start, h.start} /\ {End(t) : t \in {g, h}} = {End(g), End(h)}
    OBVIOUS
  <2> QED BY <1>4, <2>1 DEF Hull
<1>6. {g, h} = {h, g}
  OBVIOUS
<1> HIDE DEF to
<1>7. to \in Nat /\ g.start < to /\ to <= Size
  BY <1>1, <1>2
<1>8. Seg(g.start, to - g.start) \in FileSegments /\ End(Seg(g.start, to - g.start)) = to
  BY <1>1, <1>7, FilePartFromTo
<1>9. Seg(g.start, to - g.start).start = g.start
  BY DEF Seg
<1>10. g.start .. (to - 1) = (g.start .. (End(g) - 1)) \cup (h.start .. (End(h) - 1))
  BY <1>1, <1>2
<1> QED BY <1>3, <1>5, <1>6, <1>8, <1>9, <1>10 DEF Positions

\* The place before a segment of a merged set and the one behind it are not covered.
LEMMA CanonicalEdges ==
    ASSUME NEW D \in SUBSET FileSegments, Canonical(D), NEW g \in D
    PROVE  g.start - 1 \notin Covered(D) /\ End(g) \notin Covered(D)
<1>1. ASSUME NEW h \in D, NEW x \in {g.start - 1, End(g)} PROVE x \notin Positions(h)
  <2>1. /\ g.start \in Int /\ h.start \in Int /\ End(g) \in Int /\ End(h) \in Int
        /\ g.start < End(g) /\ h.start < End(h)
    BY FilePart
  <2>2. g # h => g.start > End(h) \/ h.start > End(g)
    BY <2>1 DEF Canonical, Touches
  <2> QED BY <1>1, <2>1, <2>2 DEF Positions
<1> QED BY <1>1 DEF Covered

\* What is covered determines a merged set ...
LEMMA CanonicalIncluded ==
    ASSUME NEW D \in SUBSET FileSegments, Canonical(D), NEW E \in SUBSET FileSegments,
           Canonical(E), Covered(D) = Covered(E), NEW g \in D
    PROVE  g \in E
<1>1. /\ g \in FileSegments /\ g.start \in Nat /\ End(g) \in Nat /\ g.start < End(g)
      /\ g = Seg(g.start, g.size) /\ End(g) = g.start + g.size /\ g.size \in Nat
  BY FilePart
<1>2. g.start \in Covered(E)
  <2>1. g.start \in Positions(g)
    BY <1>1 DEF Positions
  <2> QED BY <2>1 DEF Covered
<1>3. PICK h \in E : g.start \in Positions(h)
  BY <1>2 DEF Covered
<1>4. /\ h \in FileSegments /\ h.start \in Nat /\ End(h) \in Nat /\ h.start < End(h)
      /\ h = Seg(h.start, h.size) /\ End(h) = h.start + h.size /\ h.size \in Nat
  BY FilePart
<1>5. h.start <= g.start /\ g.start < End(h)
  BY <1>1, <1>3, <1>4 DEF Positions
<1>6. g.start - 1 \notin Covered(D) /\ End(g) \notin Covered(D)
  BY CanonicalEdges
<1>7. End(h) \notin Covered(E)
  BY CanonicalEdges
<1>8. g.start - 1 \notin Positions(h) /\ End(g) \notin Positions(h)
  BY <1>6 DEF Covered
<1>9. End(h) \notin Positions(g)
  BY <1>7 DEF Covered
<1>10. h.start = g.start
  BY <1>1, <1>4, <1>5, <1>8 DEF Positions
<1>11. End(h) = End(g)
  BY <1>1, <1>4, <1>5, <1>8, <1>9 DEF Positions
<1>12. h.size = g.size
  BY <1>1, <1>4, <1>10, <1>11
<1> QED BY <1>1, <1>4, <1>10, <1>12

\* ... so there is one for what is covered.
LEMMA CanonicalUnique ==
    ASSUME NEW D \in SUBSET FileSegments, Canonical(D), NEW E \in SUBSET FileSegments,
           Canonical(E), Covered(D) = Covered(E)
    PROVE  D = E
<1>1. \A g \in D : g \in E
  BY CanonicalIncluded
<1>2. \A g \in E : g \in D
  BY CanonicalIncluded
<1> QED BY <1>1, <1>2

\* The first pair that is merged is s and what touches it: the last such segment before s,
\* or the first one behind it if there is none before. So its credit is the declared one.
LEMMA FirstMergeCredit ==
    ASSUME NEW D \in SUBSET FileSegments, Canonical(D), NEW s \in FileSegments,
           NEW passed \in SUBSET FileSegments, NEW rest, passed \cup rest = D \cup {s},
           Canonical(passed), \A p \in passed, r \in rest : Before(p, r),
           NEW prev \in passed, \A p \in passed \ {prev} : Before(p, prev),
           NEW cur \in rest, \A r \in rest \ {cur} : Before(cur, r),
           End(prev) >= cur.start
    PROVE  Credit(prev, cur, s) = NewBytes(D, s)
<1> DEFINE Prev == {d \in D : Before(d, s) /\ Touches(d, s)}
           Next == {d \in D : Before(s, d) /\ Touches(d, s)}
           MergedWith(d) == Hull({d, s}).size - d.size
           last == CHOOSE p \in Prev : \A q \in Prev \ {p} : Before(q, p)
<1>1. NewBytes(D, s) = IF s \in D \/ Prev \cup Next = {} THEN s.size
                       ELSE IF Prev # {} THEN MergedWith(last)
                       ELSE MergedWith(First(Next))
  BY DEF NewBytes
<1>2. prev \in FileSegments /\ cur \in FileSegments /\ prev \in D \cup {s} /\ cur \in D \cup {s}
  OBVIOUS
<1>3. Before(prev, cur) /\ prev # cur /\ prev.start <= cur.start
  BY <1>2, BeforeIsOrder
<1>4. Touches(prev, cur) /\ Touches(cur, prev)
  BY <1>2, <1>3, FilePart DEF Touches
<1>5. ~(prev \in D /\ cur \in D)
  BY <1>3, <1>4 DEF Canonical
<1>6. s \notin D /\ ((prev = s /\ cur \in D) \/ (cur = s /\ prev \in D))
  BY <1>2, <1>3, <1>5
<1>7. /\ Merged(prev, cur) = Hull({prev, cur}) /\ Merged(prev, cur) = Hull({cur, prev})
  BY <1>2, <1>3, MergedFacts
<1>8. \A q \in D : q \in FileSegments /\ q # s /\ (q \in passed \/ q \in rest)
  BY <1>6
<1>9. CASE cur = s
  <2>1. prev \in Prev
    BY <1>3, <1>4, <1>6, <1>9
  <2>2. ASSUME NEW q \in Prev \ {prev} PROVE Before(q, prev)
    <3>1. ~Before(s, q)
      BY BeforeIsOrder
    <3>2. q \notin rest
      BY <1>8, <1>9, <3>1
    <3> QED BY <1>8, <3>2
  <2>3. ASSUME NEW p \in Prev, \A q \in Prev \ {p} : Before(q, p) PROVE p = prev
    BY <2>1, <2>2, <2>3, BeforeIsOrder
  <2>4. last = prev
    BY <2>1, <2>2, <2>3
  <2>5. NewBytes(D, s) = MergedWith(prev)
    BY <1>1, <1>6, <2>1, <2>4
  <2> QED BY <1>3, <1>7, <1>9, <2>5 DEF Credit
<1>10. CASE prev = s
  <2>1. cur \in Next
    BY <1>3, <1>4, <1>6, <1>10
  <2>2. Prev = {}
    <3> SUFFICES ASSUME NEW q \in Prev PROVE FALSE
      OBVIOUS
    <3>1. ~Before(s, q) /\ q # s /\ Touches(q, s)
      BY <1>8, BeforeIsOrder
    <3>2. q \in passed
      BY <1>8, <1>10, <3>1
    <3> QED BY <1>10, <3>1, <3>2 DEF Canonical
  <2>3. ASSUME NEW q \in Next \ {cur} PROVE Before(cur, q)
    <3>1. ~Before(q, s) /\ q # s
      BY <1>8, BeforeIsOrder
    <3>2. q \in rest
      BY <1>8, <1>10, <3>1
    <3> QED BY <3>2
  <2>4. ASSUME NEW g \in Next, \A h \in Next \ {g} : Before(g, h) PROVE g = cur
    BY <2>1, <2>3, <2>4, BeforeIsOrder
  <2>5. First(Next) = cur
    <3> HIDE DEF Next
    <3> QED BY <2>1, <2>3, <2>4 DEF First
  <2>6. NewBytes(D, s) = MergedWith(cur)
    BY <1>1, <1>6, <2>1, <2>2, <2>5
  <2> QED BY <1>7, <1>10, <2>6 DEF Credit
<1> QED BY <1>6, <1>9, <1>10

\* What holds before and after each round: the segments that have been passed are merged
\* and lie before the others, nothing is lost, and the first merge, if there was
\* one, has been credited. Until then the set is as it was.
RoundInv(l, D, s) ==
    /\ l.passed \in SUBSET FileSegments /\ l.passed # {} /\ Canonical(l.passed)
    /\ l.rest \in SUBSET (D \cup {s})
    /\ Covered(l.passed \cup l.rest) = Covered(D \cup {s})
    /\ \A p \in l.passed, r \in l.rest : p.start <= r.start
    /\ l.added => l.credit = NewBytes(D, s)
    /\ ~l.added => /\ l.passed \cup l.rest = D \cup {s}
                   /\ \A p \in l.passed, r \in l.rest : Before(p, r)

\* The first round.
LEMMA FirstRound ==
    ASSUME NEW D \in SUBSET FileSegments, NEW s \in FileSegments
    PROVE  LET all == D \cup {s}
           IN  /\ First(all) \in all
               /\ RoundInv([passed |-> {First(all)}, rest |-> all \ {First(all)},
                            added |-> FALSE, credit |-> 0], D, s)
<1> DEFINE all == D \cup {s}
           first == First(all)
           l == [passed |-> {first}, rest |-> all \ {first}, added |-> FALSE, credit |-> 0]
<1>1. all \in SUBSET Ranges /\ all \in SUBSET FileSegments /\ all # {}
  BY FilePart
<1> HIDE DEF all
<1>2. first \in all /\ \A h \in all \ {first} : Before(first, h)
  BY <1>1, FirstOfSet
<1> HIDE DEF first
<1>3. l.passed \cup l.rest = all
  BY <1>2
<1>4. Canonical(l.passed)
  BY DEF Canonical
<1>5. \A p \in l.passed, r \in l.rest : Before(p, r) /\ p.start <= r.start
  BY <1>1, <1>2, BeforeIsOrder
<1>6. RoundInv(l, D, s)
  BY <1>1, <1>2, <1>3, <1>4, <1>5 DEF RoundInv, all
<1> QED BY <1>2, <1>6 DEF first, all

\* Every other round.
LEMMA NextRound ==
    ASSUME NEW D \in SUBSET FileSegments, Canonical(D), NEW s \in FileSegments,
           NEW l, RoundInv(l, D, s), l.rest # {}
    PROVE  /\ RoundInv(Consolidated(l, s), D, s)
           /\ \E r \in l.rest : Consolidated(l, s).rest = l.rest \ {r}
<1> DEFINE prev == LastOf(l.passed)
           cur == First(l.rest)
           m == Merged(prev, cur)
           n == Consolidated(l, s)
<1>1. /\ l.passed \in SUBSET Ranges /\ l.rest \in SUBSET Ranges
      /\ l.passed \in SUBSET FileSegments /\ l.rest \in SUBSET FileSegments /\ l.passed # {}
      /\ Canonical(l.passed) /\ Covered(l.passed \cup l.rest) = Covered(D \cup {s})
      /\ \A p \in l.passed, r \in l.rest : p.start <= r.start
  BY FilePart DEF RoundInv
<1>2. prev \in l.passed /\ \A p \in l.passed \ {prev} : Before(p, prev)
  BY <1>1, LastOfSet
<1>3. cur \in l.rest /\ \A r \in l.rest \ {cur} : Before(cur, r)
  BY <1>1, FirstOfSet
<1>4. n = [passed |-> IF End(prev) >= cur.start THEN (l.passed \ {prev}) \cup {m}
                                                ELSE l.passed \cup {cur},
           rest |-> l.rest \ {cur},
           added |-> l.added \/ End(prev) >= cur.start,
           credit |-> IF End(prev) >= cur.start /\ ~l.added THEN Credit(prev, cur, s)
                                                            ELSE l.credit]
  BY DEF Consolidated
<1> HIDE DEF prev, cur, n
<1>5. /\ prev \in FileSegments /\ cur \in FileSegments /\ prev.start <= cur.start
      /\ cur \in D \cup {s}
  BY <1>1, <1>2, <1>3 DEF RoundInv
<1>6. \A p \in l.passed \ {prev} : p \in FileSegments /\ End(p) < prev.start
  <2> TAKE p \in l.passed \ {prev}
  <2>1. p \in FileSegments /\ p.start <= prev.start /\ ~Touches(p, prev)
    BY <1>1, <1>2, <1>5, BeforeIsOrder DEF Canonical
  <2> QED BY <1>5, <2>1, FilePart DEF Touches
<1>7. n.rest = l.rest \ {cur} /\ n.rest \in SUBSET (D \cup {s})
  BY <1>4 DEF RoundInv
<1>8. CASE End(prev) >= cur.start
  <2>1. /\ m \in FileSegments /\ m.start = prev.start
        /\ Positions(m) = Positions(prev) \cup Positions(cur)
    BY <1>5, <1>8, MergedFacts, FilePart
  <2> HIDE DEF m
  <2>2. n.passed = (l.passed \ {prev}) \cup {m} /\ n.added
    BY <1>4, <1>8
  <2>3. n.passed \in SUBSET FileSegments /\ n.passed # {}
    BY <1>1, <2>1, <2>2
  <2>4. Canonical(n.passed)
    <3>1. ASSUME NEW p \in l.passed \ {prev} PROVE ~Touches(p, m) /\ ~Touches(m, p)
      <4>1. End(p) < m.start /\ End(p) \in Int /\ m.start \in Int
        BY <1>6, <2>1, FilePart
      <4> QED BY <4>1 DEF Touches
    <3>2. \A p, q \in l.passed : p # q => ~Touches(p, q)
      BY <1>1 DEF Canonical
    <3> QED BY <2>2, <3>1, <3>2 DEF Canonical
  <2>5. Covered(n.passed \cup n.rest) = Covered(l.passed \cup l.rest)
    <3>1. ASSUME NEW x \in Covered(n.passed \cup n.rest) PROVE x \in Covered(l.passed \cup l.rest)
      <4>1. PICK g \in n.passed \cup n.rest : x \in Positions(g)
        BY DEF Covered
      <4>2. g = m \/ g \in l.passed \cup l.rest
        BY <1>7, <2>2
      <4>3. \E h \in l.passed \cup l.rest : x \in Positions(h)
        BY <1>2, <1>3, <2>1, <4>1, <4>2
      <4> QED BY <4>3 DEF Covered
    <3>2. ASSUME NEW x \in Covered(l.passed \cup l.rest) PROVE x \in Covered(n.passed \cup n.rest)
      <4>1. PICK g \in l.passed \cup l.rest : x \in Positions(g)
        BY DEF Covered
      <4>2. g = prev \/ g = cur \/ g \in n.passed \cup n.rest
        BY <1>7, <2>2
      <4>3. m \in n.passed \cup n.rest
        BY <2>2
      <4>4. \E h \in n.passed \cup n.rest : x \in Positions(h)
        BY <2>1, <4>1, <4>2, <4>3
      <4> QED BY <4>4 DEF Covered
    <3> QED BY <3>1, <3>2
  <2>6. \A p \in n.passed, r \in n.rest : p.start <= r.start
    BY <1>1, <1>2, <1>7, <2>1, <2>2
  <2>7. n.credit = NewBytes(D, s)
    <3>1. CASE l.added
      BY <1>4, <3>1 DEF RoundInv
    <3>2. CASE ~l.added
      <4>1. l.passed \cup l.rest = D \cup {s} /\ \A p \in l.passed, r \in l.rest : Before(p, r)
        BY <3>2 DEF RoundInv
      <4>2. Credit(prev, cur, s) = NewBytes(D, s)
        BY <1>1, <1>2, <1>3, <1>8, <4>1, FirstMergeCredit
      <4> QED BY <1>4, <1>8, <3>2, <4>2
    <3> QED BY <3>1, <3>2
  <2> QED BY <1>1, <1>3, <1>7, <2>2, <2>3, <2>4, <2>5, <2>6, <2>7 DEF RoundInv, n
<1>9. CASE ~(End(prev) >= cur.start)
  <2>1. n.passed = l.passed \cup {cur} /\ (n.added <=> l.added) /\ n.credit = l.credit
    BY <1>4, <1>9
  <2>2. n.passed \in SUBSET FileSegments /\ n.passed # {}
    BY <1>1, <1>5, <2>1
  <2>3. Canonical(n.passed)
    <3>1. ASSUME NEW p \in l.passed PROVE ~Touches(p, cur) /\ ~Touches(cur, p)
      <4>1. End(p) < cur.start /\ End(p) \in Int /\ cur.start \in Int
        BY <1>1, <1>5, <1>6, <1>9, FilePart
      <4> QED BY <4>1 DEF Touches
    <3>2. \A p, q \in l.passed : p # q => ~Touches(p, q)
      BY <1>1 DEF Canonical
    <3> QED BY <2>1, <3>1, <3>2 DEF Canonical
  <2>4. n.passed \cup n.rest = l.passed \cup l.rest
    BY <1>3, <1>7, <2>1
  <2>5. \A r \in n.rest : Before(cur, r) /\ cur.start <= r.start
    BY <1>1, <1>3, <1>5, <1>7, BeforeIsOrder
  <2>6. \A p \in n.passed, r \in n.rest : p.start <= r.start
    BY <1>1, <1>7, <2>1, <2>5
  <2>7. l.added => n.credit = NewBytes(D, s)
    BY <2>1 DEF RoundInv
  <2>8. ASSUME ~l.added
        PROVE  /\ n.passed \cup n.rest = D \cup {s}
               /\ \A p \in n.passed, r \in n.rest : Before(p, r)
    BY <1>7, <2>1, <2>4, <2>5, <2>8 DEF RoundInv
  <2> QED BY <1>1, <1>3, <1>7, <2>1, <2>2, <2>3, <2>4, <2>6, <2>7, <2>8 DEF RoundInv, n
<1> QED BY <1>8, <1>9

\* The segment merges with nothing only if it is credited in full.
LEMMA NoMergeCredit ==
    ASSUME NEW D \in SUBSET FileSegments, NEW s \in FileSegments, Canonical(D \cup {s})
    PROVE  NewBytes(D, s) = s.size
<1> DEFINE Prev == {d \in D : Before(d, s) /\ Touches(d, s)}
           Next == {d \in D : Before(s, d) /\ Touches(d, s)}
<1>1. ASSUME s \notin D PROVE Prev \cup Next = {}
  BY <1>1 DEF Canonical
<1> QED BY <1>1 DEF NewBytes

\* What the finished set becomes is made of parts of the file.
LEMMA AddSegmentParts ==
    ASSUME NEW D \in SUBSET FileSegments, NEW s \in FileSegments
    PROVE  AddSegment(D, s) \in SUBSET FileSegments
<1> DEFINE T == {d \in D : Touches(d, s)} \cup {s}
           H == Hull(T)
<1>1. T \in SUBSET Ranges /\ s \in T
  BY FilePart
<1> HIDE DEF T
<1>2. H \in Ranges /\ H.start <= s.start /\ End(s) <= End(H)
  BY <1>1, HullOfSet
<1> HIDE DEF H
<1>3. H \in FileSegments
  BY <1>2, FilePart, SizeAssumption DEF Ranges, FileSegments, End
<1> USE DEF T
<1>4. AddSegment(D, s) = (D \ T) \cup {H}
  BY DEF AddSegment, H
<1> QED BY <1>3, <1>4

\* The first n rounds of the loop, if f says what they are.
MergeRounds(f, D, s, n) ==
    [k \in 1 .. n |-> IF k = 1 THEN [passed |-> {First(D)}, rest |-> D \ {First(D)},
                                     added |-> FALSE, credit |-> 0]
                      ELSE Consolidated(f[k - 1], s)]

\* They exist: with the first so many of them there is always one more.
LEMMA MergeRoundsExist ==
    ASSUME NEW D, NEW s, NEW N \in Nat
    PROVE  \E f : f = MergeRounds(f, D, s, N)
<1> DEFINE first == [passed |-> {First(D)}, rest |-> D \ {First(D)}, added |-> FALSE, credit |-> 0]
           next(l) == Consolidated(l, s)
           F(f, n) == [k \in 1 .. n |-> IF k = 1 THEN first ELSE next(f[k - 1])]
           S == {n \in Nat : ~\E f : f = F(f, n)}
<1> HIDE DEF first, next
<1> SUFFICES ASSUME S # {} PROVE FALSE
  BY DEF first, next, MergeRounds
<1>1. S \in SUBSET Int /\ \A x \in S : x >= 0
  OBVIOUS
<1> HIDE DEF S
<1>2. PICK n \in S : \A y \in S : n <= y
  BY <1>1, SmallestExists
<1> USE DEF S
<1>3. n # 0
  <2> SUFFICES ASSUME n = 0 PROVE FALSE
    OBVIOUS
  <2> DEFINE e == [k \in 1 .. 0 |-> first]
  <2>1. e = F(e, 0)
    OBVIOUS
  <2> QED BY <2>1
<1>4. n - 1 \in Nat /\ n - 1 \notin S
  <2>1. n \in Nat
    OBVIOUS
  <2> HIDE DEF S
  <2>2. n - 1 \in Nat /\ ~(n <= n - 1)
    BY <1>3, <2>1
  <2> QED BY <1>2, <2>2
<1>5. PICK f : f = F(f, n - 1)
  BY <1>4
<1> DEFINE g == [k \in 1 .. n |-> IF k = 1 THEN first ELSE next(f[k - 1])]
<1>6. \A k \in 1 .. n - 1 : f[k] = IF k = 1 THEN first ELSE next(f[k - 1])
  BY <1>5
<1>7. \A k \in 1 .. n - 1 : g[k] = f[k]
  BY <1>2, <1>6
<1>8. \A k \in 1 .. n : k # 1 => k - 1 \in 1 .. n - 1
  BY <1>2
<1>9. g = F(g, n)
  BY <1>7, <1>8
<1> QED BY <1>2, <1>9

\* The loop computes what is declared, for any merged set and any segment.
THEOREM MergeLoop ==
    ASSUME NEW D \in SUBSET FileSegments, Canonical(D), NEW s \in FileSegments
    PROVE  LoopAddFinishedSegment(D, s) =
             [done |-> AddSegment(D, s), credit |-> NewBytes(D, s)]
<1> DEFINE all == D \cup {s}
           N == Cardinality(all)
           first == [passed |-> {First(all)}, rest |-> all \ {First(all)},
                     added |-> FALSE, credit |-> 0]
           round == CHOOSE f : f = MergeRounds(f, all, s, N)
           Bad == {k \in 1 .. N : ~(/\ RoundInv(round[k], D, s)
                                    /\ Cardinality(round[k].rest) = N - k)}
<1>1. Consolidate(all, s) = round[N]
  BY DEF Consolidate, MergeRounds
<1>2. all \in SUBSET Ranges /\ IsFiniteSet(all) /\ s \in all
  BY FilePart, FiniteRanges
<1>3. N \in Nat /\ N >= 1
  <2>1. N \in Nat
    BY <1>2, FS_CardinalityType
  <2>2. N # 0
    BY <1>2, FS_EmptySet
  <2> QED BY <2>1, <2>2
<1>4. first.rest = all \ {First(all)} /\ First(all) \in all /\ RoundInv(first, D, s)
  BY FirstRound
<1> HIDE DEF first, all
<1>5. Cardinality(first.rest) = N - 1
  BY <1>2, <1>4, FS_RemoveElement
<1> HIDE DEF N
<1>6. round = MergeRounds(round, all, s, N)
  BY <1>3, MergeRoundsExist
<1> HIDE DEF round
<1>7. \A k \in 1 .. N : round[k] = IF k = 1 THEN first ELSE Consolidated(round[k - 1], s)
  BY <1>6 DEF MergeRounds, first
<1>8. Bad = {}
  <2> SUFFICES ASSUME Bad # {} PROVE FALSE
    OBVIOUS
  <2>1. Bad \in SUBSET Int /\ \A x \in Bad : x >= 1
    BY <1>3
  <2> HIDE DEF Bad
  <2>2. PICK k \in Bad : \A y \in Bad : k <= y
    BY <2>1, SmallestExists
  <2> USE DEF Bad
  <2>3. k \in 1 .. N /\ k # 1
    BY <1>3, <1>4, <1>5, <1>7
  <2>4. k - 1 \in 1 .. N /\ k - 1 \notin Bad
    BY <1>3, <2>2, <2>3
  <2> DEFINE l == round[k - 1]
  <2>5. RoundInv(l, D, s) /\ Cardinality(l.rest) = N - (k - 1) /\ round[k] = Consolidated(l, s)
    BY <1>7, <2>3, <2>4
  <2> HIDE DEF l
  <2>6. l.rest \subseteq all
    BY <2>5 DEF RoundInv, all
  <2>7. IsFiniteSet(l.rest)
    BY <1>2, <2>6, FS_Subset
  <2>8. l.rest # {}
    <3>1. N - (k - 1) # 0
      BY <1>3, <2>3
    <3>2. Cardinality({}) = 0
      BY FS_EmptySet
    <3> QED BY <2>5, <3>1, <3>2
  <2>9. RoundInv(round[k], D, s)
    BY <2>5, <2>8, NextRound
  <2>10. PICK r \in l.rest : round[k].rest = l.rest \ {r}
    BY <2>5, <2>8, NextRound
  <2>11. Cardinality(round[k].rest) = Cardinality(l.rest) - 1
    BY <2>7, <2>10, FS_RemoveElement
  <2>12. Cardinality(round[k].rest) = N - k
    BY <1>3, <2>3, <2>5, <2>11
  <2> QED BY <2>2, <2>9, <2>12
<1> DEFINE l == round[N]
<1>9. RoundInv(l, D, s) /\ Cardinality(l.rest) = 0
  BY <1>3, <1>8
<1> HIDE DEF l
<1>10. l.rest = {}
  <2>1. IsFiniteSet(l.rest)
    BY <1>2, <1>9, FS_Subset DEF RoundInv, all
  <2> QED BY <1>9, <2>1, FS_EmptySet
<1>11. /\ l.passed \in SUBSET FileSegments /\ Canonical(l.passed)
       /\ Covered(l.passed) = Covered(all)
       /\ l.added => l.credit = NewBytes(D, s)
       /\ ~l.added => l.passed = all
  BY <1>9, <1>10 DEF RoundInv, all
<1>12. l.passed = AddSegment(D, s)
  <2>1. D \in SUBSET Ranges /\ s \in Ranges
    BY FilePart
  <2>2. Covered(AddSegment(D, s)) = Covered(D) \cup Positions(s)
    BY <2>1, AddSegmentCovers
  <2>3. Covered(all) = Covered(D) \cup Positions(s)
    BY DEF Covered, all
  <2>4. Canonical(AddSegment(D, s)) /\ AddSegment(D, s) \in SUBSET FileSegments
    BY <2>1, AddSegmentCanonical, AddSegmentParts
  <2> QED BY <1>11, <2>2, <2>3, <2>4, CanonicalUnique
<1>13. ~l.added => NewBytes(D, s) = s.size
  BY <1>11, NoMergeCredit DEF all
<1>14. LoopAddFinishedSegment(D, s) =
         [done |-> l.passed, credit |-> IF l.added THEN l.credit ELSE s.size]
  BY <1>1 DEF LoopAddFinishedSegment, l, all
<1> QED BY <1>11, <1>12, <1>13, <1>14

-----------------------------------------------------------------------------
(* The scan of getNextSegment.                                             *)

\* The starts that the scan visits follow each other: there is none between one and the
\* place where the scan goes on from it.
LEMMA VisitedChain ==
    ASSUME NEW D, NEW R, NEW b \in Nat \ {0}, NEW T \in Nat,
           NEW u \in Visited(D, R, b, T), NEW v \in Visited(D, R, b, T), u < v
    PROVE  GoesOn(D, R, b, T, u) <= v
<1> DEFINE V == Visited(D, R, b, T)
           go(r) == GoesOn(D, R, b, T, r)
           Bad == {w \in V : \E r \in V : r < w /\ ~(go(r) <= w)}
<1>1. V \subseteq 0 .. Size - 1
  BY DEF Visited
<1>2. \A r \in V : go(r) \in Nat /\ r < go(r)
  BY <1>1, GoesOnBehind, SizeAssumption
<1>3. \A w \in V \ {0} : \E r \in V : r < w /\ w = go(r)
  BY VisitedFacts
<1> HIDE DEF V, go
<1>4. Bad = {}
  <2> SUFFICES ASSUME Bad # {} PROVE FALSE
    OBVIOUS
  <2>1. Bad \in SUBSET Int /\ \A x \in Bad : x >= 0
    <3>1. \A w \in V : w \in Int /\ w >= 0
      BY <1>1, SizeAssumption
    <3>2. Bad \subseteq V
      OBVIOUS
    <3> HIDE DEF Bad
    <3> QED BY <3>1, <3>2
  <2>0. Bad # {} /\ 0 \in Int
    OBVIOUS
  <2> HIDE DEF Bad
  <2>2. PICK w \in Bad : \A y \in Bad : w <= y
    BY <2>0, <2>1, SmallestExists
  <2> USE DEF Bad
  <2>3. w \in V /\ w \in Int
    BY <1>1, SizeAssumption
  <2>4. PICK r \in V : r < w /\ ~(go(r) <= w)
    OBVIOUS
  <2>5. w # 0 /\ r \in Int
    BY <1>1, <2>4, SizeAssumption
  <2>6. PICK q \in V : q < w /\ w = go(q)
    BY <1>3, <2>3, <2>5
  <2>7. q \in Int /\ q \notin Bad
    <3>1. q \in Int
      BY <1>1, SizeAssumption
    <3> HIDE DEF Bad
    <3> QED BY <2>2, <2>3, <2>6, <3>1
  <2>8. CASE r < q
    <3>1. go(r) <= q
      BY <2>7, <2>8
    <3> QED BY <1>2, <2>3, <2>4, <2>6, <2>7, <3>1
  <2>9. CASE r = q
    BY <2>3, <2>4, <2>6, <2>9
  <2>10. CASE q < r
    <3> HIDE DEF Bad
    <3>1. r \notin Bad
      BY <2>2, <2>3, <2>4, <2>5
    <3> USE DEF Bad
    <3>2. go(q) <= r
      BY <2>10, <3>1
    <3> QED BY <2>3, <2>4, <2>5, <2>6, <3>2
  <2> QED BY <2>5, <2>7, <2>8, <2>9, <2>10
<1> QED BY <1>4 DEF V, go

\* A sequence to which an element is appended has that one more.
LEMMA ToSetAppend ==
    ASSUME NEW S, NEW q \in Seq(S), NEW x \in S
    PROVE  /\ Append(q, x) \in Seq(S) /\ Append(q, x) # <<>>
           /\ SX!ToSet(Append(q, x)) = SX!ToSet(q) \cup {x}
           /\ Head(Append(q, x)) = IF q = <<>> THEN x ELSE Head(q)
           /\ q # <<>> => Head(q) \in SX!ToSet(q)
<1> DEFINE p == Append(q, x)
<1>1. /\ p \in Seq(S) /\ Len(p) = Len(q) + 1 /\ Len(q) \in Nat
      /\ DOMAIN q = 1 .. Len(q) /\ DOMAIN p = 1 .. Len(p)
      /\ p[Len(q) + 1] = x /\ \A i \in 1 .. Len(q) : p[i] = q[i]
  OBVIOUS
<1> HIDE DEF p
<1>2. p # <<>> /\ Head(p) = p[1] /\ (q # <<>> => Head(q) = q[1] /\ Len(q) >= 1)
  BY <1>1
<1>3. q = <<>> => Len(q) = 0
  OBVIOUS
<1>4. Head(p) = IF q = <<>> THEN x ELSE Head(q)
  BY <1>1, <1>2, <1>3
<1>5. {p[i] : i \in 1 .. Len(p)} = {q[i] : i \in 1 .. Len(q)} \cup {x}
  <2>1. 1 .. Len(p) = (1 .. Len(q)) \cup {Len(q) + 1}
    BY <1>1
  <2> QED BY <1>1, <2>1
<1>6. q # <<>> => Head(q) \in {q[i] : i \in 1 .. Len(q)}
  BY <1>1, <1>2
<1> QED BY <1>1, <1>2, <1>4, <1>5, <1>6 DEF p, SX!ToSet

\* Blocks are ordered as their starts are, and parts of the file if they are not empty.
LEMMA BlockFacts ==
    ASSUME NEW s \in 0 .. Size - 1, NEW n \in Nat, n > 0
    PROVE  /\ Block(s, n) \in FileSegments /\ Block(s, n).start = s
           /\ End(Block(s, n)) = Min({Size, s + n})
           /\ End(Block(s, n)) = IF Size <= s + n THEN Size ELSE s + n
<1> DEFINE to == Min({Size, s + n})
<1>1. s \in Nat /\ s < Size /\ Size \in Nat
  BY SizeAssumption
<1>2. to = IF Size <= s + n THEN Size ELSE s + n
  BY <1>1, MinOfTwo
<1> HIDE DEF to
<1>3. to \in Nat /\ s < to /\ to <= Size
  BY <1>1, <1>2
<1>4. Seg(s, to - s) \in FileSegments /\ End(Seg(s, to - s)) = to
  BY <1>1, <1>3, FilePartFromTo
<1>5. Block(s, n) = Seg(s, to - s) /\ Seg(s, to - s).start = s
  BY DEF Block, Seg, to
<1> QED BY <1>2, <1>4, <1>5 DEF to

\* The blocks found so far: those at the starts that have been left behind.
FoundBefore(D, R, b, T, start) ==
    {Block(v, FreeLength(D, R, b, T, v)) :
        v \in {w \in Visited(D, R, b, T) : w < start /\ FreeLength(D, R, b, T, w) > 0}}

\* None of the longer blocks is free.
NoLonger(D, R, b, q, s, k) == \A j \in 1 .. q : j > k => ~Free(D, R, b, s, j * b)

\* What holds after n rounds of the loop: start is visited, no block there is free that is
\* longer than the one to be looked at, found has what is to be found before start, first
\* what comes first, and each round has been one step towards the end.
ScanInv(l, D, R, b, q, n) ==
    LET T == q * b
    IN  /\ l \in [start : 0 .. Size, cur : Nat, found : Seq(FileSegments)]
        /\ l.start < Size => l.start \in Visited(D, R, b, T)
        /\ \E k \in 1 .. q : /\ l.cur = k * b
                             /\ NoLonger(D, R, b, q, l.start, k)
        /\ SX!ToSet(l.found) = FoundBefore(D, R, b, T, l.start)
        /\ l.found # <<>> =>
             \A g \in SX!ToSet(l.found) \ {Head(l.found)} : Before(Head(l.found), g)
        /\ l.start < Size => n <= l.start * T + (T - l.cur)

\* The wanted size in blocks.
LEMMA WantedBlocks ==
    ASSUME NEW b \in Nat \ {0}, NEW q \in Nat
    PROVE  q * b \in Nat /\ (q * b) \div b = q
<1>1. q * b \in Nat
  BY ProductGrows
<1>2. (q * b) \div b = q
  BY <1>1
<1> QED BY <1>1, <1>2

\* The free length is the size of the longest free block.
LEMMA LongestFree ==
    ASSUME NEW D, NEW R, NEW b \in Nat \ {0}, NEW q \in Nat \ {0}, NEW s, NEW k \in 1 .. q,
           NoLonger(D, R, b, q, s, k)
    PROVE  /\ Free(D, R, b, s, k * b) => FreeLength(D, R, b, q * b, s) = k * b
           /\ k = 1 /\ ~Free(D, R, b, s, k * b) => FreeLength(D, R, b, q * b, s) = 0
<1> DEFINE T == q * b
           f == FreeLength(D, R, b, T, s)
<1>1. T \in Nat /\ T \div b = q
  BY WantedBlocks
<1> HIDE DEF T
<1>2. /\ f \in Nat
      /\ f > 0 => f >= b /\ Free(D, R, b, s, f) /\ \E j \in 1 .. q : f = j * b
      /\ \A j \in 1 .. q : Free(D, R, b, s, j * b) => j * b <= f
  <2>1. /\ f \in Nat
        /\ f > 0 => f >= b /\ Free(D, R, b, s, f) /\ \E j \in 1 .. (T \div b) : f = j * b
        /\ \A j \in 1 .. (T \div b) : Free(D, R, b, s, j * b) => j * b <= f
    <3>1. T \in Nat
      BY <1>1
    <3> QED BY <3>1, FreeLengthIsFree, Zenon
  <2> HIDE DEF f
  <2> QED BY <1>1, <2>1
<1> HIDE DEF f
<1>3. k * b \in Nat /\ k * b >= b
  <2>1. 1 * b <= k * b /\ k * b \in Nat
    BY ProductGrows
  <2> QED BY <2>1
<1>4. ASSUME Free(D, R, b, s, k * b) PROVE f = k * b
  <2>1. k * b <= f /\ f > 0
    BY <1>2, <1>3, <1>4
  <2>2. PICK j \in 1 .. q : f = j * b /\ Free(D, R, b, s, j * b)
    BY <1>2, <2>1
  <2>3. j <= k
    BY <2>2 DEF NoLonger
  <2>4. j * b <= k * b
    BY <2>3, ProductGrows
  <2> QED BY <1>2, <1>3, <2>1, <2>2, <2>4
<1>5. ASSUME k = 1, ~Free(D, R, b, s, k * b) PROVE f = 0
  <2> SUFFICES ASSUME f # 0 PROVE FALSE
    OBVIOUS
  <2>0. f > 0
    BY <1>2
  <2>1. PICK j \in 1 .. q : f = j * b /\ Free(D, R, b, s, j * b)
    BY <1>2, <2>0
  <2>2. j > k \/ j = k
    BY <1>5
  <2> QED BY <1>5, <2>1, <2>2 DEF NoLonger
<1> QED BY <1>4, <1>5 DEF f, T

\* What is found at a start, if anything, is all that lies between it and the place where
\* the scan goes on.
LEMMA FoundNext ==
    ASSUME NEW D, NEW R, NEW b \in Nat \ {0}, NEW T \in Nat, NEW u \in Visited(D, R, b, T),
           NEW to \in Int, u < to, to <= GoesOn(D, R, b, T, u)
    PROVE  FoundBefore(D, R, b, T, to) =
             FoundBefore(D, R, b, T, u) \cup
               IF FreeLength(D, R, b, T, u) > 0 THEN {Block(u, FreeLength(D, R, b, T, u))} ELSE {}
<1> DEFINE V == Visited(D, R, b, T)
           n(v) == FreeLength(D, R, b, T, v)
           block(v) == Block(v, n(v))
           go == GoesOn(D, R, b, T, u)
<1>1. V \subseteq Int /\ u \in V
  BY SizeAssumption DEF Visited
<1>2. go \in Int
  <2>1. u \in Nat
    BY SizeAssumption DEF Visited
  <2> QED BY <2>1, GoesOnBehind
<1>3. \A v \in V : u < v => go <= v
  BY VisitedChain
<1>4. FoundBefore(D, R, b, T, to) = {block(v) : v \in {w \in V : w < to /\ n(w) > 0}}
  BY DEF FoundBefore
<1>5. FoundBefore(D, R, b, T, u) = {block(v) : v \in {w \in V : w < u /\ n(w) > 0}}
  BY DEF FoundBefore
<1>6. to <= go
  OBVIOUS
<1> HIDE DEF V, n, block, go
<1>7. {w \in V : w < to /\ n(w) > 0} =
        {w \in V : w < u /\ n(w) > 0} \cup (IF n(u) > 0 THEN {u} ELSE {})
  <2>1. \A w \in V : w < to <=> w < u \/ w = u
    <3> TAKE w \in V
    <3>1. w \in Int /\ u \in Int
      BY <1>1
    <3>2. u < w => go <= w
      BY <1>3
    <3> QED BY <1>2, <1>6, <3>1, <3>2
  <2> QED BY <1>1, <2>1
<1>8. {block(v) : v \in {w \in V : w < to /\ n(w) > 0}} =
        {block(v) : v \in {w \in V : w < u /\ n(w) > 0}} \cup IF n(u) > 0 THEN {block(u)} ELSE {}
  BY <1>7
<1> QED BY <1>4, <1>5, <1>8 DEF n, block

\* A round of the loop keeps to that.
LEMMA ScanRound ==
    ASSUME NEW D, NEW R, NEW b \in Nat \ {0}, NEW q \in Nat \ {0}, NEW n \in Nat, NEW l,
           ScanInv(l, D, R, b, q, n)
    PROVE  ScanInv(Examined(l, D, R, b, q * b), D, R, b, q, n + 1)
<1> DEFINE T == q * b
           V == Visited(D, R, b, T)
           end == Min({Size, l.start + l.cur})
           block == Seg(l.start, end - l.start)
           overlaps == \/ \E d \in D : IF l.cur <= b THEN d.start <= l.start /\ End(d) >= end
                                                   ELSE Overlaps(block, d)
                       \/ \E r \in R : Overlaps(block, r)
           m == Examined(l, D, R, b, T)
<1>1. /\ l \in [start : 0 .. Size, cur : Nat, found : Seq(FileSegments)]
      /\ l.start < Size => l.start \in V
      /\ SX!ToSet(l.found) = FoundBefore(D, R, b, T, l.start)
      /\ l.found # <<>> =>
             \A g \in SX!ToSet(l.found) \ {Head(l.found)} : Before(Head(l.found), g)
      /\ l.start < Size => n <= l.start * T + (T - l.cur)
  BY DEF ScanInv
<1>2. PICK k \in 1 .. q : l.cur = k * b /\ NoLonger(D, R, b, q, l.start, k)
  BY DEF ScanInv
<1>3. m = IF l.start >= Size THEN l
          ELSE IF overlaps /\ l.cur > b THEN [l EXCEPT !.cur = @ - b]
          ELSE [start |-> end, cur |-> T,
                found |-> IF overlaps THEN l.found ELSE Append(l.found, block)]
  BY DEF Examined
<1>4. T \in Nat /\ Size \in Nat /\ T >= b /\ l.start \in Nat /\ l.cur \in Nat
  <2>1. 1 * b <= T /\ T \in Nat
    BY ProductGrows
  <2> QED BY <1>1, <2>1, SizeAssumption
<1>5. CASE l.start >= Size
  <2>1. m = l
    BY <1>3, <1>5
  <2>2. ~(l.start < Size)
    BY <1>4, <1>5
  <2>3. ScanInv(l, D, R, b, q, n + 1)
    BY <2>2 DEF ScanInv
  <2> HIDE DEF m
  <2> QED BY <2>1, <2>3 DEF m
<1>6. CASE l.start < Size
  <2>1. l.start \in 0 .. Size - 1 /\ l.start \in V /\ n <= l.start * T + (T - l.cur)
    BY <1>1, <1>4, <1>6
  <2>2. l.cur >= b /\ l.cur > 0 /\ (k # 1 => l.cur > b /\ l.cur - b = (k - 1) * b) /\ l.cur <= T
    <3>1. 1 * b <= k * b /\ k * b <= q * b
      BY ProductGrows
    <3>2. (k - 1) * b = k * b - b
      OBVIOUS
    <3>3. k # 1 => (k - 1) * b >= 1 * b
      BY ProductGrows
    <3> QED BY <1>2, <1>4, <3>1, <3>2, <3>3
  <2>3. /\ block = Block(l.start, l.cur) /\ block \in FileSegments /\ block.start = l.start
        /\ End(block) = end /\ end = IF Size <= l.start + l.cur THEN Size ELSE l.start + l.cur
    BY <2>1, <2>2, <1>4, BlockFacts DEF Block
  <2>4. overlaps <=> ~Free(D, R, b, l.start, l.cur)
    BY <2>3 DEF Free, Contains, Overlaps
  <2> HIDE DEF overlaps, block, end, m, T, V
  <2>5. CASE overlaps /\ l.cur > b
    <3>1. m = [l EXCEPT !.cur = l.cur - b]
      BY <1>3, <1>4, <1>6, <2>5
    <3>2. m.start = l.start /\ m.cur = l.cur - b /\ m.found = l.found
          /\ m \in [start : 0 .. Size, cur : Nat, found : Seq(FileSegments)]
      BY <1>1, <2>2, <3>1
    <3>3. k # 1
      BY <1>2, <2>5
    <3>4. k - 1 \in 1 .. q /\ m.cur = (k - 1) * b
      BY <2>2, <3>2, <3>3
    <3>5. NoLonger(D, R, b, q, l.start, k - 1)
      <4> SUFFICES ASSUME NEW j \in 1 .. q, j > k - 1 PROVE ~Free(D, R, b, l.start, j * b)
        BY DEF NoLonger
      <4>1. j > k \/ j = k
        OBVIOUS
      <4> QED BY <1>2, <2>4, <2>5, <4>1 DEF NoLonger
    <3>6. n + 1 <= m.start * T + (T - m.cur)
      <4> DEFINE x == l.start * T
      <4>1. x \in Nat /\ n <= x + (T - l.cur) /\ m.start * T = x
        BY <1>4, <2>1, <3>2
      <4> HIDE DEF x
      <4>2. n + 1 <= x + (T - (l.cur - b))
        BY <1>4, <4>1
      <4> QED BY <3>2, <4>1, <4>2
    <3> QED BY <1>1, <3>2, <3>4, <3>5, <3>6 DEF ScanInv, T, V, m
  <2>6. CASE ~(overlaps /\ l.cur > b)
    <3>1. /\ m.start = end /\ m.cur = T
          /\ m.found = IF overlaps THEN l.found ELSE Append(l.found, block)
          /\ m = [start |-> end, cur |-> T, found |-> m.found]
      <4>1. ~(l.start >= Size)
        BY <1>4, <1>6
      <4>2. m = [start |-> end, cur |-> T,
                 found |-> IF overlaps THEN l.found ELSE Append(l.found, block)]
        BY <1>3, <2>6, <4>1
      <4> QED BY <4>2
    <3>2. overlaps => k = 1
      BY <2>2, <2>6
    <3>3. FreeLength(D, R, b, T, l.start) = IF overlaps THEN 0 ELSE l.cur
      <4>1. /\ Free(D, R, b, l.start, k * b) => FreeLength(D, R, b, q * b, l.start) = k * b
            /\ k = 1 /\ ~Free(D, R, b, l.start, k * b) =>
                 FreeLength(D, R, b, q * b, l.start) = 0
        <5> DEFINE at == l.start
        <5>1. NoLonger(D, R, b, q, at, k)
          BY <1>2
        <5> HIDE DEF at
        <5>2. /\ Free(D, R, b, at, k * b) => FreeLength(D, R, b, q * b, at) = k * b
              /\ k = 1 /\ ~Free(D, R, b, at, k * b) => FreeLength(D, R, b, q * b, at) = 0
          BY <5>1, LongestFree
        <5> QED BY <5>2 DEF at
      <4> QED BY <1>2, <2>4, <3>2, <4>1 DEF T
    <3>4. GoesOn(D, R, b, T, l.start) = l.start + l.cur
      <4>1. GoesOn(D, R, b, T, l.start) =
              l.start + (IF FreeLength(D, R, b, T, l.start) > 0
                         THEN FreeLength(D, R, b, T, l.start) ELSE b)
        BY <1>4, GoesOnBehind
      <4>2. overlaps => l.cur = b
        BY <1>2, <3>2
      <4> QED BY <1>4, <2>2, <3>3, <4>1, <4>2
    <3>5. end \in 0 .. Size /\ l.start < end /\ end <= l.start + l.cur
          /\ (end < Size => end = l.start + l.cur)
      BY <1>4, <2>1, <2>2, <2>3
    <3>6. end < Size => end \in V
      <4>1. \A r \in V : GoesOn(D, R, b, T, r) <= Size - 1 => GoesOn(D, R, b, T, r) \in V
        BY <1>4, VisitedFacts DEF V
      <4> QED BY <1>4, <2>1, <3>4, <3>5, <4>1
    <3>7. FoundBefore(D, R, b, T, end) =
            FoundBefore(D, R, b, T, l.start) \cup IF overlaps THEN {} ELSE {block}
      <4>1. FoundBefore(D, R, b, T, end) =
              FoundBefore(D, R, b, T, l.start) \cup
                IF FreeLength(D, R, b, T, l.start) > 0
                THEN {Block(l.start, FreeLength(D, R, b, T, l.start))} ELSE {}
        <5>1. end \in Int /\ l.start < end /\ end <= GoesOn(D, R, b, T, l.start)
          BY <1>4, <3>4, <3>5
        <5>2. T \in Nat /\ l.start \in Visited(D, R, b, T)
          BY <1>4, <2>1 DEF V
        <5> QED BY <5>1, <5>2, FoundNext
      <4> QED BY <2>2, <2>3, <3>3, <4>1
    <3>8. /\ m.found \in Seq(FileSegments)
          /\ SX!ToSet(m.found) = FoundBefore(D, R, b, T, end)
      <4>1. l.found \in Seq(FileSegments)
        BY <1>1
      <4>2. ~overlaps => /\ m.found \in Seq(FileSegments)
                         /\ SX!ToSet(m.found) = SX!ToSet(l.found) \cup {block}
        BY <2>3, <3>1, <4>1, ToSetAppend
      <4> QED BY <1>1, <3>1, <3>7, <4>1, <4>2
    <3>9. m.found # <<>> =>
            \A g \in SX!ToSet(m.found) \ {Head(m.found)} : Before(Head(m.found), g)
      <4>1. CASE overlaps
        BY <1>1, <3>1, <4>1
      <4>2. CASE ~overlaps
        <5>1. /\ l.found \in Seq(FileSegments) /\ m.found = Append(l.found, block)
          BY <1>1, <3>1, <4>2
        <5>2. /\ SX!ToSet(m.found) = SX!ToSet(l.found) \cup {block}
              /\ Head(m.found) = IF l.found = <<>> THEN block ELSE Head(l.found)
              /\ l.found # <<>> => Head(l.found) \in SX!ToSet(l.found)
          BY <2>3, <5>1, ToSetAppend
        <5>3. \A g \in SX!ToSet(l.found) : g.start < l.start
          <6> TAKE g \in SX!ToSet(l.found)
          <6>1. PICK v \in Visited(D, R, b, T) :
                  /\ v < l.start /\ FreeLength(D, R, b, T, v) > 0
                  /\ g = Block(v, FreeLength(D, R, b, T, v))
            BY <1>1 DEF FoundBefore
          <6>2. FreeLength(D, R, b, T, v) \in Nat /\ v \in 0 .. Size - 1
            BY <1>4, FreeLengthIsFree DEF Visited
          <6> QED BY <6>1, <6>2, BlockFacts
        <5>4. l.found = <<>> => SX!ToSet(l.found) = {}
          BY DEF SX!ToSet
        <5>5. CASE l.found = <<>>
          BY <5>2, <5>4, <5>5
        <5>6. CASE l.found # <<>>
          <6>1. Before(Head(l.found), block)
            BY <2>3, <5>2, <5>3, <5>6 DEF Before
          <6> QED BY <1>1, <5>2, <5>6, <6>1
        <5> QED BY <5>5, <5>6
      <4> QED BY <4>1, <4>2
    <3>10. end < Size => n + 1 <= end * T + (T - T)
      <4>1. (l.start + 1) * T = l.start * T + T
        BY <1>4
      <4>2. l.start * T \in Nat /\ end * T \in Nat /\ (l.start + 1) * T <= end * T
        BY <1>4, <3>5, ProductGrows
      <4> QED BY <1>4, <2>1, <2>2, <4>1, <4>2
    <3>11. q \in 1 .. q /\ T = q * b /\ NoLonger(D, R, b, q, end, q)
      BY DEF T, NoLonger
    <3>12. m \in [start : 0 .. Size, cur : Nat, found : Seq(FileSegments)]
      BY <1>4, <3>1, <3>5, <3>8
    <3> QED BY <3>1, <3>6, <3>8, <3>9, <3>10, <3>11, <3>12 DEF ScanInv, T, V, m
  <2> QED BY <2>5, <2>6
<1> QED BY <1>4, <1>5, <1>6

\* The first rounds of the loop up to the n-th, if f says what they are.
ScanRounds(f, D, R, b, T, n) ==
    [k \in 0 .. n |-> IF k = 0 THEN [start |-> 0, cur |-> T, found |-> <<>>]
                      ELSE Examined(f[k - 1], D, R, b, T)]

\* They exist, as those of the merge do.
LEMMA ScanRoundsExist ==
    ASSUME NEW D, NEW R, NEW b, NEW T, NEW N \in Nat
    PROVE  \E f : f = ScanRounds(f, D, R, b, T, N)
<1> DEFINE first == [start |-> 0, cur |-> T, found |-> <<>>]
           next(l) == Examined(l, D, R, b, T)
           F(f, n) == [k \in 0 .. n |-> IF k = 0 THEN first ELSE next(f[k - 1])]
           S == {n \in Nat : ~\E f : f = F(f, n)}
<1> HIDE DEF first, next
<1> SUFFICES ASSUME S # {} PROVE FALSE
  BY DEF first, next, ScanRounds
<1>1. S \in SUBSET Int /\ \A x \in S : x >= 0
  OBVIOUS
<1> HIDE DEF S
<1>2. PICK n \in S : \A y \in S : n <= y
  BY <1>1, SmallestExists
<1> USE DEF S
<1>3. n # 0
  <2> SUFFICES ASSUME n = 0 PROVE FALSE
    OBVIOUS
  <2> DEFINE e == [k \in 0 .. 0 |-> first]
  <2>1. e = F(e, 0)
    OBVIOUS
  <2> QED BY <2>1
<1>4. n - 1 \in Nat /\ n - 1 \notin S
  <2>1. n \in Nat
    OBVIOUS
  <2> HIDE DEF S
  <2>2. n - 1 \in Nat /\ ~(n <= n - 1)
    BY <1>3, <2>1
  <2> QED BY <1>2, <2>2
<1>5. PICK f : f = F(f, n - 1)
  BY <1>4
<1> DEFINE g == [k \in 0 .. n |-> IF k = 0 THEN first ELSE next(f[k - 1])]
<1>6. \A k \in 0 .. n - 1 : f[k] = IF k = 0 THEN first ELSE next(f[k - 1])
  BY <1>5
<1>7. \A k \in 0 .. n - 1 : g[k] = f[k]
  BY <1>2, <1>6
<1>8. \A k \in 0 .. n : k # 0 => k - 1 \in 0 .. n - 1
  BY <1>2
<1>9. g = F(g, n)
  BY <1>7, <1>8
<1> QED BY <1>2, <1>9

\* Before the first round nothing is found.
LEMMA BeforeScan ==
    ASSUME NEW D, NEW R, NEW b \in Nat \ {0}, NEW q \in Nat \ {0}
    PROVE  ScanInv([start |-> 0, cur |-> q * b, found |-> <<>>], D, R, b, q, 0)
<1> DEFINE l == [start |-> 0, cur |-> q * b, found |-> <<>>]
<1>1. q * b \in Nat
  BY WantedBlocks
<1>2. 0 \in Visited(D, R, b, q * b)
  BY <1>1, VisitedFacts
<1>3. FoundBefore(D, R, b, q * b, 0) = {}
  <2>1. \A v \in Visited(D, R, b, q * b) : ~(v < 0)
    BY SizeAssumption DEF Visited
  <2> QED BY <2>1 DEF FoundBefore
<1>4. SX!ToSet(<<>>) = {}
  BY DEF SX!ToSet
<1>5. l.start = 0 /\ l.cur = q * b /\ l.found = <<>>
  OBVIOUS
<1>6. l \in [start : 0 .. Size, cur : Nat, found : Seq(FileSegments)]
  BY <1>1, SizeAssumption
<1>7. q \in 1 .. q /\ NoLonger(D, R, b, q, 0, q)
  BY DEF NoLonger
<1>8. 0 <= 0 * (q * b) + (q * b - q * b)
  BY <1>1
<1> HIDE DEF l
<1> QED BY <1>2, <1>3, <1>4, <1>5, <1>6, <1>7, <1>8 DEF ScanInv, l

\* The loop finds what is declared, and the first that it finds is the first in the order
\* of the set.
FindsFreeBlocks(D, R, b, T) ==
    LET found == ScanBlocks(D, R, b, T)
    IN  /\ SX!ToSet(found) = FreeBlocks(D, R, b, T)
        /\ found # <<>> => FirstFree(D, R, b, T) = {Head(found)}

\* It does for any finished and running segments and any wanted number of blocks.
THEOREM ScanLoop ==
    ASSUME NEW D, NEW R, NEW b \in Nat \ {0}, NEW q \in Nat \ {0}
    PROVE  FindsFreeBlocks(D, R, b, q * b)
<1> DEFINE T == q * b
           N == Size * T
           first == [start |-> 0, cur |-> T, found |-> <<>>]
           round == CHOOSE f : f = ScanRounds(f, D, R, b, T, N)
           Bad == {k \in 0 .. N : ~ScanInv(round[k], D, R, b, q, k)}
<1>1. ScanBlocks(D, R, b, T) = round[N].found
  BY DEF ScanBlocks, ScanRounds
<1>2. T \in Nat /\ T >= b /\ N \in Nat
  <2>1. 1 * b <= T /\ T \in Nat
    BY ProductGrows
  <2> HIDE DEF T
  <2> QED BY <2>1, SizeAssumption
<1>3. ScanInv(first, D, R, b, q, 0)
  BY BeforeScan
<1> HIDE DEF first
<1>4. round = ScanRounds(round, D, R, b, T, N)
  <2> HIDE DEF N, T
  <2> QED BY <1>2, ScanRoundsExist
<1> HIDE DEF round
<1>5. \A k \in 0 .. N : round[k] = IF k = 0 THEN first ELSE Examined(round[k - 1], D, R, b, T)
  <2> HIDE DEF N, T
  <2> QED BY <1>4 DEF ScanRounds, first
<1>6. Bad = {}
  <2> SUFFICES ASSUME Bad # {} PROVE FALSE
    OBVIOUS
  <2> HIDE DEF N
  <2>1. Bad \in SUBSET Int /\ \A x \in Bad : x >= 0
    BY <1>2
  <2> HIDE DEF Bad
  <2>2. PICK k \in Bad : \A y \in Bad : k <= y
    BY <2>1, SmallestExists
  <2> USE DEF Bad
  <2>3. k \in 0 .. N /\ k # 0
    BY <1>2, <1>3, <1>5
  <2>4. k - 1 \in 0 .. N /\ k - 1 \in Nat /\ k - 1 \notin Bad
    BY <1>2, <2>2, <2>3
  <2> DEFINE l == round[k - 1]
  <2>5. ScanInv(l, D, R, b, q, k - 1) /\ round[k] = Examined(l, D, R, b, T)
    BY <1>5, <2>3, <2>4
  <2> HIDE DEF l
  <2>6. ScanInv(round[k], D, R, b, q, (k - 1) + 1)
    BY <2>4, <2>5, ScanRound
  <2>7. (k - 1) + 1 = k
    BY <2>3, <1>2
  <2> QED BY <2>6, <2>7
<1> DEFINE l == round[N]
<1>7. ScanInv(l, D, R, b, q, N)
  BY <1>2, <1>6
<1> HIDE DEF l
<1>8. /\ l.start \in 0 .. Size
      /\ l.start < Size => N <= l.start * T + (T - l.cur)
      /\ \E k \in 1 .. q : l.cur = k * b
      /\ SX!ToSet(l.found) = FoundBefore(D, R, b, T, l.start)
      /\ l.found \in Seq(FileSegments)
      /\ l.found # <<>> =>
             \A g \in SX!ToSet(l.found) \ {Head(l.found)} : Before(Head(l.found), g)
  <2> HIDE DEF N
  <2> QED BY <1>7 DEF ScanInv
<1>9. l.start = Size
  <2> SUFFICES ASSUME l.start # Size PROVE FALSE
    OBVIOUS
  <2>1. l.start \in Nat /\ l.start + 1 <= Size /\ Size \in Nat
    BY <1>8, SizeAssumption
  <2>2. (l.start + 1) * T <= N
    BY <1>2, <2>1, ProductGrows
  <2>3. (l.start + 1) * T = l.start * T + T /\ l.start * T \in Nat
    BY <1>2, <2>1
  <2>4. l.cur \in Nat /\ l.cur >= b
    <3>1. PICK k \in 1 .. q : l.cur = k * b
      BY <1>8
    <3>2. 1 * b <= k * b /\ k * b \in Nat
      BY ProductGrows
    <3> QED BY <3>1, <3>2
  <2>5. N <= l.start * T + (T - l.cur)
    BY <1>8, <2>1
  <2> HIDE DEF N, T
  <2> QED BY <1>2, <2>2, <2>3, <2>4, <2>5
<1>10. SX!ToSet(l.found) = FreeBlocks(D, R, b, T)
  <2>1. \A v \in Visited(D, R, b, T) : v < Size
    BY SizeAssumption DEF Visited
  <2> HIDE DEF T, N
  <2> QED BY <1>8, <1>9, <2>1 DEF FoundBefore, FreeBlocks
<1>11. ASSUME l.found # <<>> PROVE FirstFree(D, R, b, T) = {Head(l.found)}
  <2> DEFINE h == Head(l.found)
             all == SX!ToSet(l.found)
  <2>1. h \in all
    <3>1. Len(l.found) >= 1 /\ h = l.found[1] /\ DOMAIN l.found = 1 .. Len(l.found)
      BY <1>8, <1>11
    <3>2. 1 \in 1 .. Len(l.found)
      BY <1>8, <3>1
    <3> QED BY <3>1, <3>2 DEF SX!ToSet
  <2>2. \A g \in all \ {h} : Before(h, g)
    BY <1>8, <1>11
  <2>3. \A g \in all : g \in FileSegments
    BY <1>8 DEF SX!ToSet
  <2> HIDE DEF h, all
  <2>4. \A f \in all : (\A g \in all \ {f} : Before(f, g)) => f = h
    <3> SUFFICES ASSUME NEW f \in all, \A g \in all \ {f} : Before(f, g), f # h PROVE FALSE
      OBVIOUS
    <3>1. Before(f, h) /\ Before(h, f)
      BY <2>1, <2>2
    <3> QED BY <2>1, <2>3, <3>1, FilePart DEF Before
  <2>5. {f \in all : \A g \in all \ {f} : Before(f, g)} = {h}
    BY <2>1, <2>2, <2>4
  <2>6. FreeBlocks(D, R, b, T) = all
    BY <1>10 DEF all
  <2> HIDE DEF T
  <2>7. FirstFree(D, R, b, T) = {f \in all : \A g \in all \ {f} : Before(f, g)}
    BY <2>6 DEF FirstFree
  <2> QED BY <2>5, <2>7 DEF h
<1>12. ScanBlocks(D, R, b, T) = l.found
  BY <1>1 DEF l
<1> HIDE DEF N
<1> QED BY <1>10, <1>11, <1>12 DEF FindsFreeBlocks

-----------------------------------------------------------------------------
(* The runs of SegmentLoops: what is finished and what runs is made of     *)
(* whole leaves.                                                           *)

\* A multiple of b and something less than b has that many b's in it.
LEMMA QuotientOfMultiple ==
    ASSUME NEW m \in Nat, NEW b \in Nat \ {0}, NEW c \in 0 .. b - 1
    PROVE  m * b \in Nat /\ (m * b + c) \div b = m
<1> DEFINE y == m * b + c
           q == y \div b
<1>1. m * b \in Nat
  BY ProductGrows
<1>2. y \in Nat
  BY <1>1
<1> HIDE DEF y
<1>3. q \in Nat /\ q * b <= y /\ y < q * b + b
  BY <1>2
<1> HIDE DEF q
<1>4. (q + 1) * b = q * b + b /\ (m + 1) * b = m * b + b
  BY <1>3
<1>5. q * b \in Nat
  BY <1>3, ProductGrows
<1>6. q <= m
  <2> SUFFICES ASSUME m + 1 <= q PROVE FALSE
    BY <1>3
  <2>1. (m + 1) * b <= q * b
    BY <1>3, ProductGrows
  <2> QED BY <1>1, <1>3, <1>4, <1>5, <2>1 DEF y
<1>7. m <= q
  <2> SUFFICES ASSUME q + 1 <= m PROVE FALSE
    BY <1>3
  <2>1. (q + 1) * b <= m * b
    BY <1>3, ProductGrows
  <2> QED BY <1>1, <1>3, <1>4, <1>5, <2>1 DEF y
<1>8. q = m
  BY <1>3, <1>6, <1>7
<1> QED BY <1>1, <1>8 DEF q, y

\* Rounding leaves a multiple alone, upwards and to the nearest one.
LEMMA RoundMultiple ==
    ASSUME NEW m \in Nat, NEW b \in Nat \ {0}
    PROVE  RoundUp(m * b, b) = m * b /\ RoundDown(m * b, b) = m * b
<1>1. b - 1 \in 0 .. b - 1 /\ b \div 2 \in 0 .. b - 1 /\ m * b \in Nat
  <2>1. b \div 2 \in 0 .. b - 1
    OBVIOUS
  <2>2. m * b \in Nat
    BY ProductGrows
  <2> QED BY <2>1, <2>2
<1>2. (m * b + (b - 1)) \div b = m /\ (m * b + b \div 2) \div b = m
  BY <1>1, QuotientOfMultiple
<1>3. m * b + b - 1 = m * b + (b - 1)
  BY <1>1
<1> QED BY <1>2, <1>3 DEF RoundUp, RoundDown

\* A leaf segment begins with a leaf, and ends with one or with the file.
LEMMA LeafEdges ==
    ASSUME NEW g \in LeafSegments
    PROVE  /\ Leaf \in Nat \ {0} /\ Leaf <= Size /\ g \in FileSegments
           /\ \E i \in Nat : g.start = i * Leaf
           /\ End(g) = Size \/ \E j \in Nat : End(g) = j * Leaf
<1>1. Leaf \in Nat \ {0} /\ Leaf <= Size
  BY LeafAssumption, SizeAssumption
<1>2. g \in FileSegments /\ Aligned(g.start) /\ Aligned(End(g))
  BY DEF LeafSegments
<1>3. g.start \in Nat /\ End(g) \in Nat /\ g.start # Size
  BY <1>2, FilePart, SizeAssumption
<1>4. \A x \in Nat : x % Leaf = 0 => \E i \in Nat : x = i * Leaf
  <2> SUFFICES ASSUME NEW x \in Nat, x % Leaf = 0 PROVE \E i \in Nat : x = i * Leaf
    OBVIOUS
  <2> DEFINE i == x \div Leaf
  <2>1. i \in Nat /\ x = i * Leaf
    BY <1>1
  <2> HIDE DEF i
  <2> QED BY <2>1
<1> QED BY <1>1, <1>2, <1>3, <1>4 DEF Aligned

\* A segment that is recorded keeps the finished set one of leaf segments.
LEMMA AddSegmentLeaves ==
    ASSUME NEW D \in SUBSET LeafSegments, NEW s \in LeafSegments
    PROVE  AddSegment(D, s) \in SUBSET LeafSegments
<1> DEFINE T == {d \in D : Touches(d, s)} \cup {s}
           H == Hull(T)
<1>1. D \in SUBSET FileSegments /\ s \in FileSegments /\ T \in SUBSET Ranges /\ T # {}
  BY FilePart DEF LeafSegments
<1>2. T \in SUBSET LeafSegments
  OBVIOUS
<1>3. AddSegment(D, s) = (D \ T) \cup {H}
  BY DEF AddSegment
<1> HIDE DEF T
<1>4. (\E t \in T : H.start = t.start) /\ (\E t \in T : End(H) = End(t))
  BY <1>1, HullOfSet
<1> HIDE DEF H
<1>5. H \in FileSegments
  BY <1>1, <1>3, AddSegmentParts
<1>6. Aligned(H.start) /\ Aligned(End(H))
  BY <1>2, <1>4 DEF LeafSegments
<1>7. H \in LeafSegments
  BY <1>5, <1>6 DEF LeafSegments
<1> QED BY <1>3, <1>7

\* The leaf around a position that is neither finished nor being downloaded is free.
LEMMA LeafFree ==
    ASSUME NEW D \in SUBSET FileSegments, NEW R \in SUBSET LeafSegments,
           NEW x \in 0 .. Size - 1, x \notin Covered(D), x \notin Covered(R),
           NEW m \in Nat, m * Leaf <= x, x < m * Leaf + Leaf
    PROVE  Free(D, R, Leaf, m * Leaf, Leaf)
<1> DEFINE v == m * Leaf
           B == Block(v, Leaf)
<1>1. Leaf \in Nat \ {0} /\ v \in Nat /\ x \in Nat /\ x < Size /\ Size \in Nat
  <2>1. Leaf \in Nat \ {0}
    BY LeafAssumption, SizeAssumption
  <2> HIDE DEF B
  <2> QED BY <2>1, ProductGrows, SizeAssumption
<1>2. v <= x /\ x < v + Leaf /\ (m + 1) * Leaf = v + Leaf
  BY <1>1
<1>3. B.start = v /\ End(B) \in Nat /\ x < End(B) /\ End(B) <= v + Leaf
  <2> HIDE DEF v
  <2>1. v \in 0 .. Size - 1
    BY <1>1, <1>2
  <2> HIDE DEF B
  <2>2. B.start = v /\ End(B) = IF Size <= v + Leaf THEN Size ELSE v + Leaf
    <3>1. Leaf \in Nat /\ Leaf > 0
      BY <1>1
    <3>2. /\ Block(v, Leaf).start = v
          /\ End(Block(v, Leaf)) = IF Size <= v + Leaf THEN Size ELSE v + Leaf
      BY <2>1, <3>1, BlockFacts
    <3> QED BY <3>2 DEF B
  <2> QED BY <1>1, <1>2, <2>2
<1> HIDE DEF B
<1>4. ASSUME NEW r \in R PROVE ~Overlaps(B, r)
  <2> SUFFICES ASSUME v < End(r), r.start < End(B) PROVE FALSE
    BY <1>3 DEF Overlaps
  <2>1. r \in LeafSegments /\ r \in FileSegments
    BY DEF LeafSegments
  <2>2. r \in Ranges /\ r.start \in Nat /\ End(r) \in Nat
    BY <2>1, FilePart
  <2>3. PICK i \in Nat : r.start = i * Leaf
    BY <2>1, LeafEdges
  <2>4. r.start <= v
    <3>1. i <= m
      <4> SUFFICES ASSUME m + 1 <= i PROVE FALSE
        OBVIOUS
      <4>1. (m + 1) * Leaf <= i * Leaf
        BY <1>1, ProductGrows
      <4> HIDE DEF v
      <4> QED BY <1>1, <1>2, <1>3, <2>2, <2>3, <4>1
    <3> QED BY <1>1, <2>3, <3>1, ProductGrows
  <2>5. End(r) = Size \/ End(r) >= v + Leaf
    <3> SUFFICES ASSUME NEW j \in Nat, End(r) = j * Leaf PROVE End(r) >= v + Leaf
      BY <2>1, LeafEdges
    <3>1. m + 1 <= j
      <4> SUFFICES ASSUME j <= m PROVE FALSE
        OBVIOUS
      <4>1. j * Leaf <= m * Leaf
        BY <1>1, ProductGrows
      <4>2. End(r) <= v
        BY <4>1
      <4> HIDE DEF v
      <4> QED BY <1>1, <2>2, <4>2
    <3>2. (m + 1) * Leaf <= j * Leaf
      BY <1>1, <3>1, ProductGrows
    <3> HIDE DEF v
    <3> QED BY <1>1, <1>2, <2>2, <3>2
  <2> HIDE DEF v
  <2>6. r.start <= x /\ x < End(r)
    BY <1>1, <1>2, <2>2, <2>4, <2>5
  <2>7. x \in Positions(r)
    BY <2>2, <2>6, PositionFacts
  <2> QED BY <2>7 DEF Covered
<1>5. ASSUME NEW d \in D PROVE ~Contains(d, B)
  <2> SUFFICES ASSUME d.start <= v, End(d) >= End(B) PROVE FALSE
    BY <1>3 DEF Contains
  <2>1. d \in Ranges /\ d.start \in Nat /\ End(d) \in Nat
    BY FilePart
  <2> HIDE DEF v
  <2>2. d.start <= x /\ x < End(d)
    BY <1>1, <1>2, <1>3, <2>1
  <2>3. x \in Positions(d)
    BY <2>1, <2>2, PositionFacts
  <2> QED BY <2>3 DEF Covered
<1> HIDE DEF v
<1>6. Free(D, R, Leaf, v, Leaf)
  BY <1>1, <1>4, <1>5 DEF Free, B
<1> QED BY <1>6 DEF v

\* If the scan finds nothing, it has stepped over every leaf of the file.
LEMMA AllLeavesVisited ==
    ASSUME NEW D, NEW R, NEW b \in Nat \ {0}, NEW T \in Nat, FreeBlocks(D, R, b, T) = {},
           NEW m \in Nat, m * b < Size
    PROVE  m * b \in Visited(D, R, b, T)
<1> DEFINE V == Visited(D, R, b, T)
           Bad == {k \in Nat : k * b < Size /\ k * b \notin V}
<1> SUFFICES ASSUME Bad # {} PROVE FALSE
  BY DEF V
<1>1. Bad # {} /\ 0 \in Int /\ Bad \in SUBSET Int /\ \A k \in Bad : k >= 0
  OBVIOUS
<1> HIDE DEF Bad
<1>2. PICK k \in Bad : \A j \in Bad : k <= j
  BY <1>1, SmallestExists
<1> USE DEF Bad
<1>3. 0 \in V /\ \A r \in V : GoesOn(D, R, b, T, r) <= Size - 1 => GoesOn(D, R, b, T, r) \in V
  BY VisitedFacts
<1>4. \A r \in V : FreeLength(D, R, b, T, r) > 0 => FALSE
  BY DEF FreeBlocks, V
<1> HIDE DEF V
<1>5. k \in Nat /\ k * b < Size /\ k * b \notin V
  OBVIOUS
<1>6. k # 0
  <2> SUFFICES ASSUME k = 0 PROVE FALSE
    OBVIOUS
  <2>1. k * b = 0
    BY <1>5
  <2> QED BY <1>3, <1>5, <2>1
<1> DEFINE j == k - 1
<1>7. j \in Nat /\ ~(k <= j) /\ k = j + 1
  BY <1>5, <1>6
<1> HIDE DEF j
<1>8. k * b = j * b + b /\ j * b \in Nat /\ k * b \in Nat
  <2>1. (j + 1) * b = j * b + b
    BY <1>7
  <2>2. j * b \in Nat /\ k * b \in Nat
    BY <1>5, <1>7, ProductGrows
  <2> QED BY <1>7, <2>1, <2>2
<1>9. j * b \in V
  <2>1. j \notin Bad
    <3> HIDE DEF Bad
    <3> QED BY <1>2, <1>7
  <2> QED BY <1>5, <1>7, <1>8, <2>1, SizeAssumption
<1>10. GoesOn(D, R, b, T, j * b) = k * b
  <2>1. GoesOn(D, R, b, T, j * b) = j * b + (IF FreeLength(D, R, b, T, j * b) > 0
                                              THEN FreeLength(D, R, b, T, j * b) ELSE b)
    BY <1>8, GoesOnBehind
  <2> QED BY <1>4, <1>8, <1>9, <2>1
<1>11. k * b <= Size - 1
  BY <1>5, <1>8, SizeAssumption
<1> QED BY <1>3, <1>5, <1>9, <1>10, <1>11

\* The scan finds a block if there is anything to find.
LEMMA ScanFindsLeaf ==
    ASSUME NEW D \in SUBSET FileSegments, NEW R \in SUBSET LeafSegments,
           NEW q \in Nat \ {0}, FreeBlocks(D, R, Leaf, q * Leaf) = {},
           NEW x \in 0 .. Size - 1, x \notin Covered(D)
    PROVE  x \in Covered(R)
<1> SUFFICES ASSUME x \notin Covered(R) PROVE FALSE
  OBVIOUS
<1>1. Leaf \in Nat \ {0} /\ x \in Nat /\ x < Size
  BY LeafAssumption, SizeAssumption
<1> DEFINE m == x \div Leaf
           v == m * Leaf
           n == FreeLength(D, R, Leaf, q * Leaf, v)
<1>2. m \in Nat /\ v <= x /\ x < v + Leaf
  BY <1>1
<1> HIDE DEF m
<1>3. v \in Nat /\ v < Size
  <2>1. v \in Nat
    BY <1>1, <1>2, ProductGrows
  <2> HIDE DEF v
  <2> QED BY <1>1, <1>2, <2>1, SizeAssumption
<1>4. q * Leaf \in Nat /\ (q * Leaf) \div Leaf = q
  BY <1>1, WantedBlocks
<1>5. v \in Visited(D, R, Leaf, q * Leaf)
  <2> HIDE DEF n
  <2> QED BY <1>1, <1>2, <1>3, <1>4, AllLeavesVisited
<1>6. Free(D, R, Leaf, v, Leaf)
  <2> HIDE DEF n
  <2> QED BY <1>2, LeafFree
<1>7. n > 0
  <2> HIDE DEF v
  <2>1. /\ n \in Nat
        /\ \A k \in 1 .. ((q * Leaf) \div Leaf) :
              Free(D, R, Leaf, v, k * Leaf) => k * Leaf <= n
    BY <1>1, <1>4, FreeLengthIsFree
  <2> HIDE DEF n
  <2>2. 1 \in 1 .. ((q * Leaf) \div Leaf) /\ 1 * Leaf = Leaf
    BY <1>1, <1>4
  <2>3. 1 * Leaf <= n
    BY <1>6, <2>1, <2>2
  <2> QED BY <1>1, <2>1, <2>2, <2>3
<1>8. Block(v, n) \in FreeBlocks(D, R, Leaf, q * Leaf)
  <2> HIDE DEF v
  <2> QED BY <1>5, <1>7 DEF FreeBlocks
<1> QED BY <1>8

\* A free block has something that is not finished: where it begins, or where the
\* finished segment ends that it begins in.
LEMMA FreeBlockMissing ==
    ASSUME NEW D \in SUBSET FileSegments, Canonical(D), NEW R, NEW b \in Nat \ {0},
           NEW T \in Nat, NEW f \in FreeBlocks(D, R, b, T)
    PROVE  \E x \in Positions(f) : x \in 0 .. Size - 1 /\ x \notin Covered(D)
<1>1. PICK s \in Visited(D, R, b, T) : /\ FreeLength(D, R, b, T, s) > 0
                                      /\ f = Block(s, FreeLength(D, R, b, T, s))
  BY DEF FreeBlocks
<1> DEFINE n == FreeLength(D, R, b, T, s)
<1>2. s \in 0 .. Size - 1
  BY DEF Visited
<1>3. n \in Nat /\ n > 0 /\ Free(D, R, b, s, n)
  BY <1>1, FreeLengthIsFree
<1>4. f = Block(s, n)
  BY <1>1
<1> HIDE DEF n
<1>5. f \in FileSegments /\ f.start = s
  BY <1>2, <1>3, <1>4, BlockFacts
<1>6. f \in Ranges /\ s < End(f) /\ End(f) \in Nat /\ s \in Nat /\ End(f) <= Size
  BY <1>5, FilePart
<1>7. CASE s \notin Covered(D)
  <2>1. s \in Positions(f)
    BY <1>2, <1>5, <1>6, PositionFacts
  <2> QED BY <1>2, <1>7, <2>1
<1>8. CASE s \in Covered(D)
  <2>1. PICK d \in D : s \in Positions(d)
    BY <1>8 DEF Covered
  <2>2. d \in Ranges /\ d.start <= s /\ s < End(d) /\ End(d) \in Nat
    BY <2>1, FilePart, PositionFacts
  <2>3. Overlaps(d, f)
    BY <1>5, <1>6, <2>2, FilePart DEF Overlaps
  <2>4. ~Contains(d, f)
    BY <1>3, <1>4, <2>3 DEF Free
  <2>5. End(d) < End(f)
    BY <1>5, <1>6, <2>2, <2>4 DEF Contains
  <2>6. End(d) \in Positions(f) /\ End(d) \in 0 .. Size - 1
    BY <1>5, <1>6, <2>2, <2>5, PositionFacts, SizeAssumption
  <2>7. End(d) \notin Covered(D)
    BY CanonicalEdges
  <2> QED BY <2>6, <2>7
<1> QED BY <1>7, <1>8

\* Without multiple chunks, an unfinished file always has a next segment, which begins
\* where something is missing.
LEMMA SingleRangeMissing ==
    ASSUME NEW D \in SUBSET LeafSegments, Canonical(D), D # {WholeFile}
    PROVE  LET g == SingleRange(D, Leaf)
           IN  g.size > 0 /\ \E x \in Positions(g) : x \in 0 .. Size - 1 /\ x \notin Covered(D)
<1> DEFINE f == First(D)
           rest == D \ {f}
           h == First(rest)
           from == RoundDown(End(f), Leaf)
           to == IF rest = {} THEN Size ELSE RoundUp(h.start, Leaf)
           g == SingleRange(D, Leaf)
<1> SUFFICES g.size > 0 /\ \E x \in Positions(g) : x \in 0 .. Size - 1 /\ x \notin Covered(D)
  OBVIOUS
<1>0. Leaf \in Nat \ {0} /\ Size \in Nat \ {0} /\ D \in SUBSET FileSegments
      /\ D \in SUBSET Ranges
  BY LeafAssumption, SizeAssumption, FilePart DEF LeafSegments
<1>1. ASSUME NEW lo \in Nat, NEW hi \in Nat, lo < hi, hi <= Size, lo \notin Covered(D),
             g = Seg(lo, hi - lo)
      PROVE  g.size > 0 /\ \E x \in Positions(g) : x \in 0 .. Size - 1 /\ x \notin Covered(D)
  <2>1. g.size = hi - lo /\ Positions(g) = lo .. (lo + (hi - lo)) - 1
    BY <1>1 DEF Seg, Positions, End
  <2> HIDE DEF g
  <2>2. lo \in Positions(g) /\ lo \in 0 .. Size - 1 /\ g.size > 0
    BY <1>0, <1>1, <2>1
  <2> QED BY <1>1, <2>2
<1>2. CASE D = {}
  <2>1. g = Seg(0, Size - 0) /\ 0 \notin Covered(D)
    BY <1>0, <1>2 DEF SingleRange, WholeFile, Covered
  <2> HIDE DEF g
  <2> QED BY <1>0, <1>1, <2>1
<1>3. CASE D # {}
  <2>1. f \in D /\ \A d \in rest : Before(f, d)
    BY <1>0, <1>3, FirstOfSet
  <2>2. g = IF f.start > 0 THEN Seg(0, Min({Size, RoundUp(f.start, Leaf)}))
                           ELSE Seg(from, Min({Size, to}) - from)
    BY <1>3 DEF SingleRange
  <2> HIDE DEF f, g
  <2>3. f \in FileSegments /\ f \in LeafSegments /\ f \in Ranges
        /\ f.start \in Nat /\ f.start < Size
        /\ End(f) \in Nat /\ End(f) <= Size /\ f.start < End(f)
    <3>1. f \in FileSegments /\ f \in LeafSegments
      BY <1>0, <2>1
    <3> QED BY <1>0, <3>1, FilePart
  <2>4. CASE f.start > 0
    <3>1. PICK i \in Nat : f.start = i * Leaf
      BY <2>3, LeafEdges
    <3>2. RoundUp(f.start, Leaf) = f.start
      BY <1>0, <3>1, RoundMultiple
    <3>3. Min({Size, f.start}) = f.start
      BY <1>0, <2>3, MinOfTwo
    <3>4. g = Seg(0, f.start - 0)
      BY <2>2, <2>3, <2>4, <3>2, <3>3
    <3>5. 0 \notin Covered(D)
      <4> SUFFICES ASSUME NEW d \in D, 0 \in Positions(d) PROVE FALSE
        BY DEF Covered
      <4>1. d \in FileSegments /\ d.start \in Nat /\ d.start <= 0
        BY <1>0, FilePart, PositionFacts
      <4>2. d = f \/ f.start <= d.start
        BY <1>0, <2>1, <2>3, <4>1, BeforeIsOrder
      <4> QED BY <2>3, <2>4, <4>1, <4>2
    <3> QED BY <1>0, <1>1, <2>3, <2>4, <3>4, <3>5
  <2>5. CASE ~(f.start > 0)
    <3>1. f.start = 0
      BY <2>3, <2>5
    <3>2. End(f) # Size
      <4> SUFFICES ASSUME End(f) = Size PROVE FALSE
        OBVIOUS
      <4>1. f = WholeFile
        BY <2>3, <3>1, FilePart DEF WholeFile
      <4>2. \A d \in D : d = f
        <5> TAKE d \in D
        <5>1. d \in FileSegments /\ d.start \in Nat /\ End(d) \in Nat /\ d.start < End(d)
              /\ End(d) <= Size
          BY <1>0, FilePart
        <5>2. Touches(d, f)
          BY <1>0, <2>3, <3>1, <5>1 DEF Touches
        <5> QED BY <2>1, <5>2 DEF Canonical
      <4> QED BY <2>1, <4>1, <4>2
    <3>3. PICK j \in Nat : End(f) = j * Leaf
      BY <2>3, <3>2, LeafEdges
    <3>4. from = End(f)
      BY <1>0, <3>3, RoundMultiple
    <3> HIDE DEF from
    <3>5. End(f) \notin Covered(D)
      BY <1>0, <2>1, CanonicalEdges
    <3>6. to \in Nat /\ End(f) < to /\ to <= Size
      <4>1. CASE rest = {}
        BY <1>0, <2>3, <3>2, <4>1
      <4>2. CASE rest # {}
        <5>1. h \in rest
          BY <1>0, <4>2, FirstOfSet
        <5>2. to = RoundUp(h.start, Leaf)
          BY <4>2
        <5> HIDE DEF h, to
        <5>3. h \in D /\ h # f /\ h \in LeafSegments /\ h \in FileSegments
          BY <1>0, <5>1
        <5>4. h.start \in Nat /\ h.start < End(h) /\ End(h) \in Nat /\ End(h) <= Size
          BY <5>3, FilePart
        <5>5. ~Touches(h, f)
          BY <2>1, <5>3 DEF Canonical
        <5>6. End(f) < h.start
          BY <2>3, <3>1, <5>4, <5>5 DEF Touches
        <5>7. PICK i \in Nat : h.start = i * Leaf
          BY <5>3, LeafEdges
        <5>8. to = h.start
          BY <1>0, <5>2, <5>7, RoundMultiple
        <5> QED BY <1>0, <5>4, <5>6, <5>8
      <4> QED BY <4>1, <4>2
    <3> HIDE DEF to
    <3>7. Min({Size, to}) = to
      BY <1>0, <3>6, MinOfTwo
    <3>8. g = Seg(End(f), to - End(f))
      BY <2>2, <2>5, <3>4, <3>7
    <3> QED BY <1>1, <2>3, <3>5, <3>6, <3>8
  <2> QED BY <2>4, <2>5
<1> QED BY <1>2, <1>3

\* The invariant of the runs: the finished set is merged, and it and what runs is made of
\* whole leaves.
LoopInv ==
    /\ finished \in SUBSET LeafSegments /\ Canonical(finished)
    /\ running \in SUBSET LeafSegments

\* Every step keeps it: what a download delivers ends with a leaf or with the file.
THEOREM LoopInvariant == LoopSpec => []LoopInv
<1>1. LoopInit => LoopInv
  BY DEF LoopInit, LoopInv, Canonical
<1>2. LoopInv /\ [LoopNext]_loopVars => LoopInv'
  <2> SUFFICES ASSUME LoopInv, [LoopNext]_loopVars PROVE LoopInv'
    OBVIOUS
  <2>1. ASSUME NEW g \in LeafSegments, Begin(g) PROVE LoopInv'
    BY <2>1 DEF LoopInv, Begin
  <2>2. ASSUME NEW g \in running, NEW n \in 0 .. g.size, Finish(g, n) PROVE LoopInv'
    <3>1. /\ finished \in SUBSET LeafSegments /\ Canonical(finished)
          /\ running \in SUBSET LeafSegments /\ running' = running \ {g}
          /\ g \in FileSegments /\ g \in LeafSegments /\ Aligned(g.start + n)
      BY <2>2 DEF LoopInv, Finish, LeafSegments
    <3>2. CASE n = 0
      <4>1. finished' = finished
        BY <2>2, <3>2 DEF Finish
      <4> QED BY <3>1, <4>1 DEF LoopInv
    <3>3. CASE n # 0
      <4> DEFINE s == Seg(g.start, n)
      <4>1. s \in FileSegments /\ s.start = g.start /\ End(s) = g.start + n
        <5>1. g.start \in 0 .. Size - 1 /\ g.size \in 1 .. Size /\ g.start + g.size <= Size
          BY <3>1 DEF FileSegments, End
        <5> QED BY <3>3, <5>1, SizeAssumption DEF FileSegments, End, Seg
      <4>2. finished' = LoopAddFinishedSegment(finished, s).done
        BY <2>2, <3>3 DEF Finish
      <4> HIDE DEF s
      <4>3. s \in LeafSegments
        BY <3>1, <4>1 DEF LeafSegments
      <4>4. finished \in SUBSET FileSegments /\ finished \in SUBSET Ranges /\ s \in Ranges
        BY <3>1, <4>1, FilePart DEF LeafSegments
      <4>5. finished' = AddSegment(finished, s)
        BY <3>1, <4>1, <4>2, <4>4, MergeLoop
      <4>6. AddSegment(finished, s) \in SUBSET LeafSegments
        BY <3>1, <4>3, AddSegmentLeaves
      <4>7. Canonical(AddSegment(finished, s))
        BY <3>1, <4>4, AddSegmentCanonical
      <4>8. Canonical(finished')
        BY <4>5, <4>7
      <4>9. running' \in SUBSET LeafSegments
        BY <3>1
      <4> QED BY <4>5, <4>6, <4>8, <4>9 DEF LoopInv, Canonical
    <3> QED BY <3>2, <3>3
  <2>3. ASSUME Reset PROVE LoopInv'
    BY <2>3 DEF LoopInv, Reset, Canonical
  <2>4. CASE UNCHANGED loopVars
    BY <2>4 DEF LoopInv, loopVars, Canonical
  <2> QED BY <2>1, <2>2, <2>3, <2>4 DEF LoopNext
<1> QED BY <1>1, <1>2, PTL DEF LoopSpec

\* Recording (QueueItem::addFinishedSegment): whatever is finished, the loop over the sorted
\* set merges the next segment and credits the bundle as AddSegment and NewBytes say.
THEOREM LoopMerges == LoopSpec => []MergeAgrees
<1>1. LoopInv => MergeAgrees
  <2> SUFFICES ASSUME LoopInv, NEW s \in Inserted
               PROVE  LoopAddFinishedSegment(finished, s) =
                        [done |-> AddSegment(finished, s), credit |-> NewBytes(finished, s)]
    BY DEF MergeAgrees
  <2>1. finished \in SUBSET FileSegments /\ Canonical(finished) /\ s \in FileSegments
    BY LeafAssumption DEF LoopInv, LeafSegments
  <2> QED BY <2>1, MergeLoop
<1> QED BY <1>1, LoopInvariant, PTL

\* A wanted size is a number of leaves.
LEMMA WantedSizeFacts ==
    ASSUME NEW T \in WantedSizes(Leaf)
    PROVE  Leaf \in Nat \ {0} /\ Leaf <= Size /\ \E q \in Nat \ {0} : T = q * Leaf
BY LeafAssumption, SizeAssumption DEF WantedSizes

\* So the scan for it finds what it should.
LEMMA WantedScan ==
    ASSUME NEW D, NEW R, NEW T \in WantedSizes(Leaf)
    PROVE  FindsFreeBlocks(D, R, Leaf, T)
<1>1. Leaf \in Nat \ {0}
  BY WantedSizeFacts
<1>2. PICK q \in Nat \ {0} : T = q * Leaf
  BY WantedSizeFacts
<1>3. FindsFreeBlocks(D, R, Leaf, q * Leaf)
  BY <1>1, ScanLoop
<1> QED BY <1>2, <1>3

\* Choosing (QueueItem::getNextSegment): whatever is finished and running, the scan with the
\* shrinking block finds what FreeBlocks holds, for every wanted size, and first what
\* FirstFree holds.
THEOREM LoopScans == LoopSpec => []ScanAgrees
<1>1. ScanAgrees
  <2> SUFFICES ASSUME NEW T \in WantedSizes(Leaf)
               PROVE  LET found == ScanBlocks(finished, running, Leaf, T)
                      IN  /\ SX!ToSet(found) = FreeBlocks(finished, running, Leaf, T)
                          /\ found # <<>> =>
                               FirstFree(finished, running, Leaf, T) = {Head(found)}
    BY DEF ScanAgrees
  <2> QED BY WantedScan DEF FindsFreeBlocks
<1> QED BY <1>1, PTL

\* The choice: it disturbs no running download and brings something that is missing, and a
\* source is turned away only if everything missing is on its way.
THEOREM LoopIsUseful == LoopSpec => []NextIsUseful
<1>1. LoopInv => NextIsUseful
  <2> SUFFICES ASSUME LoopInv, finished # {WholeFile},
                      NEW multiChunk \in BOOLEAN, NEW T \in WantedSizes(Leaf)
               PROVE  LET g == LoopNextSegment(finished, running, multiChunk, Leaf, T)
                          missing == (0 .. Size - 1) \ Covered(finished)
                          busy    == Covered(running)
                      IN  IF g.size > 0
                          THEN Positions(g) \cap busy = {} /\ Positions(g) \cap missing # {}
                          ELSE IF multiChunk THEN missing \subseteq busy ELSE running # {}
    BY DEF NextIsUseful
  <2> DEFINE g == LoopNextSegment(finished, running, multiChunk, Leaf, T)
             missing == (0 .. Size - 1) \ Covered(finished)
             busy    == Covered(running)
             found   == ScanBlocks(finished, running, Leaf, T)
  <2>1. /\ finished \in SUBSET LeafSegments /\ Canonical(finished)
        /\ running \in SUBSET LeafSegments
        /\ finished \in SUBSET FileSegments /\ running \in SUBSET FileSegments
    BY DEF LoopInv, LeafSegments
  <2>2. Leaf \in Nat \ {0} /\ Leaf <= Size
    BY WantedSizeFacts
  <2>3. PICK q \in Nat \ {0} : T = q * Leaf
    BY WantedSizeFacts
  <2>4. NoSegment.size = 0
    BY DEF NoSegment, Seg
  <2>5. CASE ~multiChunk \/ Leaf >= Size
    <3>1. g = IF running # {} THEN NoSegment ELSE SingleRange(finished, Leaf)
      BY <2>5 DEF LoopNextSegment
    <3>2. CASE running = {}
      <4>1. g.size > 0 /\ \E x \in Positions(g) : x \in 0 .. Size - 1 /\ x \notin Covered(finished)
        BY <2>1, <3>1, <3>2, SingleRangeMissing
      <4>2. busy = {}
        BY <3>2 DEF Covered
      <4> HIDE DEF g, busy
      <4>3. Positions(g) \cap missing # {}
        BY <4>1
      <4> QED BY <4>1, <4>2, <4>3 DEF g, busy
    <3>3. CASE running # {}
      <4>1. ~(g.size > 0)
        BY <2>4, <3>1, <3>3
      <4>2. ASSUME multiChunk PROVE missing \subseteq busy
        <5>1. Leaf = Size /\ Size \in Nat \ {0}
          BY <2>2, <2>5, <4>2, SizeAssumption
        <5>2. PICK r \in running : TRUE
          BY <3>3
        <5>3. r \in FileSegments /\ Aligned(r.start) /\ Aligned(End(r))
          BY <2>1, <5>2 DEF LeafSegments
        <5>4. r \in Ranges /\ r.start \in Nat /\ End(r) \in Nat /\ r.start < End(r) /\ End(r) <= Size
          BY <5>3, FilePart
        <5>5. r.start = 0 /\ End(r) = Size
          <6>1. r.start % Size = 0 /\ (End(r) % Size = 0 \/ End(r) = Size)
            BY <5>1, <5>3, <5>4 DEF Aligned
          <6>2. \A x \in 0 .. Size - 1 : x % Size = x
            BY <5>1
          <6> QED BY <5>1, <5>4, <6>1, <6>2
        <5>6. \A x \in 0 .. Size - 1 : x \in Positions(r)
          BY <5>1, <5>4, <5>5, PositionFacts
        <5> QED BY <5>2, <5>6 DEF Covered
      <4> QED BY <3>3, <4>1, <4>2
    <3> QED BY <3>2, <3>3
  <2>6. CASE ~(~multiChunk \/ Leaf >= Size)
    <3>1. g = IF found = <<>> THEN NoSegment ELSE Head(found)
      BY <2>6 DEF LoopNextSegment
    <3>2. /\ SX!ToSet(found) = FreeBlocks(finished, running, Leaf, T)
          /\ found # <<>> => FirstFree(finished, running, Leaf, T) = {Head(found)}
      BY WantedScan DEF FindsFreeBlocks
    <3>3. T \in Nat
      BY <2>2, <2>3, WantedBlocks
    <3> HIDE DEF found
    <3>4. CASE found = <<>>
      <4>1. ~(g.size > 0)
        BY <2>4, <3>1, <3>4
      <4>2. FreeBlocks(finished, running, Leaf, q * Leaf) = {}
        BY <2>3, <3>2, <3>4 DEF SX!ToSet
      <4>3. missing \subseteq busy
        BY <2>1, <4>2, ScanFindsLeaf
      <4> QED BY <2>6, <4>1, <4>3
    <3>5. CASE found # <<>>
      <4>1. g = Head(found)
        BY <3>1, <3>5
      <4> HIDE DEF g
      <4>2. g \in FreeBlocks(finished, running, Leaf, T)
        BY <3>2, <3>5, <4>1 DEF FirstFree
      <4>3. g \in Ranges /\ g.size > 0 /\ \A r \in running : ~Overlaps(g, r)
        BY <2>2, <3>3, <4>2, FreeBlockFacts
      <4>4. Positions(g) \cap busy = {}
        <5>1. \A r \in running : r \in Ranges
          BY <2>1, FilePart
        <5>2. \A r \in running : Positions(g) \cap Positions(r) = {}
          BY <4>3, <5>1, DisjointPositions
        <5> QED BY <5>2 DEF Covered
      <4>5. \E x \in Positions(g) : x \in 0 .. Size - 1 /\ x \notin Covered(finished)
        BY <2>1, <2>2, <3>3, <4>2, FreeBlockMissing
      <4>6. Positions(g) \cap missing # {}
        BY <4>5
      <4> QED BY <4>3, <4>4, <4>6 DEF g
    <3> QED BY <3>4, <3>5
  <2> QED BY <2>5, <2>6
<1> QED BY <1>1, LoopInvariant, PTL

=============================================================================
