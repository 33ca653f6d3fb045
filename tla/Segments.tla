------------------------------ MODULE Segments ------------------------------
(***************************************************************************)
(* Segments of a file and the two algorithms the download queue runs on    *)
(* them: QueueItem::addFinishedSegment, which merges a finished segment    *)
(* into the set of finished segments, and QueueItem::getNextSegment, which *)
(* chooses what the next connection requests.  Both are stated here        *)
(* declaratively; module SegmentLoops holds the loops as the code writes   *)
(* them and checks that they compute the same results.                     *)
(***************************************************************************)
EXTENDS Integers, FiniteSets, FiniteSetsExt

CONSTANT Size               \* length of the file, in the unit of the segments

ASSUME SizeAssumption == Size \in Nat \ {0}

Seg(s, n) == [start |-> s, size |-> n]

End(g) == g.start + g.size

\* "Segment(0, 0)": there is nothing this source could be asked for
NoSegment == Seg(0, 0)

\* "Segment(-1, 0)": the item is paused or has its maximum of segments
Blocked == Seg(-1, 0)

WholeFile == Seg(0, Size)

\* The nonempty parts of the file.
FileSegments ==
    {g \in [start : 0 .. Size - 1, size : 1 .. Size] : End(g) <= Size}

\* All parts of the file, the empty ones included.
Ranges == {g \in [start : 0 .. Size, size : 0 .. Size] : End(g) <= Size}

Overlaps(g, h) == g.start < End(h) /\ h.start < End(g)

Contains(g, h) == g.start <= h.start /\ End(g) >= End(h)

\* operator<, the order of the finished set
Before(g, h) == g.start < h.start \/ (g.start = h.start /\ g.size < h.size)

\* The first and the second finished segment in that order.
First(D) == CHOOSE g \in D : \A h \in D \ {g} : Before(g, h)

\* The part that two overlapping segments share.
Common(g, h) ==
    LET from == Max({g.start, h.start}) IN Seg(from, Min({End(g), End(h)}) - from)

Positions(g) == g.start .. (End(g) - 1)

Covered(D) == UNION {Positions(g) : g \in D}

Bytes(D) == MapThenSumSet(LAMBDA g : g.size, D)

-----------------------------------------------------------------------------
(* Recording a finished segment.                                           *)

\* Wrong variant: adjacent segments are not merged.
TouchesOverlapping(g, h) == g.start < End(h) /\ h.start < End(g)

\* Overlapping or adjacent segments are merged (prev->getEnd() >= i->getStart()).
Touches(g, h) == g.start <= End(h) /\ h.start <= End(g)

\* No two finished segments could be merged any more.
Canonical(D) == \A g, h \in D : g # h => ~Touches(g, h)

Hull(T) ==
    LET lo == Min({g.start : g \in T})
        hi == Max({End(g) : g \in T})
    IN  Seg(lo, hi - lo)

\* The finished set after addFinishedSegment(s).
AddSegment(D, s) ==
    LET T == {d \in D : Touches(d, s)} \cup {s}
    IN  (D \ T) \cup {Hull(T)}

\* What the bundle is credited for s: of several merges only the first one
\* counts, in the order of the set, and a segment that merges with nothing
\* counts in full.
NewBytes(D, s) ==
    LET Prev == {d \in D : Before(d, s) /\ Touches(d, s)}
        Next == {d \in D : Before(s, d) /\ Touches(d, s)}
        MergedWith(d) == Hull({d, s}).size - d.size
    IN  IF s \in D \/ Prev \cup Next = {} THEN s.size
        ELSE IF Prev # {} THEN MergedWith(CHOOSE p \in Prev : \A q \in Prev \ {p} : Before(q, p))
        ELSE MergedWith(First(Next))

-----------------------------------------------------------------------------
(* Choosing the next segment: D is the finished set, R the segments of the *)
(* running downloads, b the block size and T the wanted size, a multiple   *)
(* of b.                                                                   *)

\* Util::roundDown, which rounds to the nearest multiple
RoundDown(x, b) == ((x + b \div 2) \div b) * b

RoundUp(x, b) == ((x + b - 1) \div b) * b

\* Wrong variant: not cut.
UncutBlock(s, n) == Seg(s, n)

\* n bytes from s, cut at the end of the file
Block(s, n) == Seg(s, Min({Size, s + n}) - s)

\* Wrong variants: running or finished segments are ignored.
FreeOfFinished(D, R, b, s, n) == \A d \in D : ~Overlaps(d, Block(s, n))
FreeOfRunning(D, R, b, s, n) == \A r \in R : ~Overlaps(Block(s, n), r)

\* Partial overlaps with finished data are accepted for single blocks only.
Free(D, R, b, s, n) ==
    /\ \A r \in R : ~Overlaps(Block(s, n), r)
    /\ \A d \in D : IF n <= b THEN ~Contains(d, Block(s, n))
                              ELSE ~Overlaps(d, Block(s, n))

\* The longest free block at s of at most the wanted size; 0 if there is none.
FreeLength(D, R, b, T, s) ==
    Max({0} \cup {n \in {k * b : k \in 1 .. (T \div b)} : Free(D, R, b, s, n)})

\* The starts the scan visits: it goes on behind a free block and steps over a
\* single block that is taken.
Visited(D, R, b, T) ==
    LET visited[s \in 0 .. Size - 1] ==
            \/ s = 0
            \/ \E r \in 0 .. s - 1 :
                  /\ visited[r]
                  /\ s = r + Max({b, FreeLength(D, R, b, T, r)})
    IN  {s \in 0 .. Size - 1 : visited[s]}

FreeBlocks(D, R, b, T) ==
    {Block(s, FreeLength(D, R, b, T, s)) :
        s \in {v \in Visited(D, R, b, T) : FreeLength(D, R, b, T, v) > 0}}

\* Full sources get the first free block.
FirstFree(D, R, b, T) ==
    {f \in FreeBlocks(D, R, b, T) : \A g \in FreeBlocks(D, R, b, T) \ {f} : Before(f, g)}

\* Partial sources get any part of a free block that they have.
NeededParts(D, R, b, T, parts) ==
    UNION {{Common(f, p) : p \in {q \in parts : Overlaps(f, q)}} : f \in FreeBlocks(D, R, b, T)}

\* Wrong variant: everything behind the first finished segment.
RestOfFile(D, b) ==
    IF D = {} THEN WholeFile
    ELSE LET from == RoundDown(End(First(D)), b) IN Seg(from, Size - from)

\* Without multiple chunks: everything up to the second finished segment (or
\* up to the first one, if the file does not begin with it).
SingleRange(D, b) ==
    IF D = {} THEN WholeFile
    ELSE IF First(D).start > 0
         THEN Seg(0, Min({Size, RoundUp(First(D).start, b)}))
         ELSE LET from == RoundDown(End(First(D)), b)
                  rest == D \ {First(D)}
                  to   == IF rest = {} THEN Size ELSE RoundUp(First(rest).start, b)
              IN  Seg(from, Min({Size, to}) - from)
=============================================================================
