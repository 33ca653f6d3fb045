---------------------------- MODULE SegmentLoops ----------------------------
(***************************************************************************)
(* The loops of QueueItem::addFinishedSegment and QueueItem::getNextSegment *)
(* as the code runs them, over the finished set in its sorted order, and   *)
(* the properties of the two algorithms that the declarative operators of  *)
(* module Segments have to share.                                          *)
(*                                                                         *)
(* The state is what the loops read: the finished segments and the segments *)
(* of the running downloads, both made of whole leaf blocks of Leaf units. *)
(***************************************************************************)
EXTENDS Segments, Sequences

CONSTANTS
    Leaf,           \* the leaf size of the hash tree the downloads use
    MaxRunning,     \* bound on the number of running downloads
    Inserted        \* the segments addFinishedSegment is tried with

ASSUME LeafAssumption ==
    Leaf \in 1 .. Size /\ MaxRunning \in Nat /\ Inserted \subseteq FileSegments

VARIABLES finished, running

loopVars == <<finished, running>>

SX == INSTANCE SequencesExt

Aligned(x) == x % Leaf = 0 \/ x = Size

LeafSegments == {g \in FileSegments : Aligned(g.start) /\ Aligned(End(g))}

-----------------------------------------------------------------------------
(* addFinishedSegment: one pass over the sorted set.                       *)

\* (Wrong variant: the credit of a merge is always counted from the first segment.)
CreditFromFirst(prev, cur, s) == End(cur) - prev.start - prev.size

Merged(prev, cur) == Seg(prev.start, Max({End(prev), End(cur)}) - prev.start)

\* The merged segment, less the part of it that was recorded before s.
Credit(prev, cur, s) ==
    Merged(prev, cur).size - (IF prev = s THEN cur.size ELSE prev.size)

\* The last segment in the order of the set.
LastOf(D) == CHOOSE g \in D : \A h \in D \ {g} : Before(h, g)

\* One round: cur is the first segment that the loop has not come to, prev the last
\* one that it has passed.
Consolidated(l, s) ==
    LET prev == LastOf(l.passed)
        cur == First(l.rest)
        merge == End(prev) >= cur.start
    IN  [passed |-> IF merge THEN (l.passed \ {prev}) \cup {Merged(prev, cur)}
                             ELSE l.passed \cup {cur},
         rest |-> l.rest \ {cur},
         added |-> l.added \/ merge,
         credit |-> IF merge /\ ~l.added THEN Credit(prev, cur, s) ELSE l.credit]

\* All rounds, from the second segment to the last.
Consolidate(D, s) ==
    LET round[k \in 1 .. Cardinality(D)] ==
            IF k = 1 THEN [passed |-> {First(D)}, rest |-> D \ {First(D)},
                           added |-> FALSE, credit |-> 0]
                     ELSE Consolidated(round[k - 1], s)
    IN  round[Cardinality(D)]

LoopAddFinishedSegment(D, s) ==
    LET l == Consolidate(D \cup {s}, s)
    IN  [done |-> l.passed, credit |-> IF l.added THEN l.credit ELSE s.size]

-----------------------------------------------------------------------------
(* getNextSegment: the scan with a shrinking block, all candidates in the  *)
(* order they are found (a full source takes the first one).               *)

\* One round: the block at start is found, or made smaller, or left behind.
Examined(l, D, R, b, T) ==
    LET end == Min({Size, l.start + l.cur})
        block == Seg(l.start, end - l.start)
        overlaps == \/ \E d \in D : IF l.cur <= b THEN d.start <= l.start /\ End(d) >= end
                                                 ELSE Overlaps(block, d)
                    \/ \E r \in R : Overlaps(block, r)
    IN  IF l.start >= Size THEN l
        ELSE IF overlaps /\ l.cur > b THEN [l EXCEPT !.cur = @ - b]
        ELSE [start |-> end, cur |-> T,
              found |-> IF overlaps THEN l.found ELSE Append(l.found, block)]

\* Enough rounds for the loop to end: each moves start on or makes the block smaller.
ScanBlocks(D, R, b, T) ==
    LET round[k \in 0 .. Size * T] ==
            IF k = 0 THEN [start |-> 0, cur |-> T, found |-> <<>>]
                     ELSE Examined(round[k - 1], D, R, b, T)
    IN  round[Size * T].found

\* getNextSegment for a full source, without overlapping slow downloads.
LoopNextSegment(D, R, multiChunk, b, T) ==
    IF ~multiChunk \/ b >= Size
    THEN IF R # {} THEN NoSegment ELSE SingleRange(D, b)
    ELSE LET found == ScanBlocks(D, R, b, T)
         IN  IF found = <<>> THEN NoSegment ELSE Head(found)

-----------------------------------------------------------------------------
LoopInit == finished = {} /\ running = {}

\* A connection is assigned a part of the file.
Begin(g) ==
    /\ Cardinality(running) < MaxRunning
    /\ g \notin running
    /\ running' = running \cup {g}
    /\ UNCHANGED finished

\* A download delivers its segment, or a leaf-aligned beginning of it.
Finish(g, n) ==
    /\ n <= g.size /\ Aligned(g.start + n)
    /\ running' = running \ {g}
    /\ finished' = IF n = 0 THEN finished ELSE LoopAddFinishedSegment(finished, Seg(g.start, n)).done

\* resetDownloaded: the temporary file is gone.
Reset == finished' = {} /\ finished # {} /\ UNCHANGED running

LoopNext ==
    \/ \E g \in LeafSegments : Begin(g)
    \/ \E g \in running : \E n \in 0 .. g.size : Finish(g, n)
    \/ Reset

LoopSpec == LoopInit /\ [][LoopNext]_loopVars

-----------------------------------------------------------------------------
WantedSizes(b) == {k * b : k \in 1 .. (Size \div b)}

\* Merging: the loop yields the finished set and the credit of the
\* declarative operators, whatever segment is recorded next.
MergeAgrees ==
    \A s \in Inserted :
        LoopAddFinishedSegment(finished, s) =
            [done |-> AddSegment(finished, s), credit |-> NewBytes(finished, s)]

\* Choosing: the scan visits the blocks of the declarative operators, for
\* every wanted size.
ScanAgrees ==
    \A T \in WantedSizes(Leaf) :
        LET found == ScanBlocks(finished, running, Leaf, T)
        IN  /\ SX!ToSet(found) = FreeBlocks(finished, running, Leaf, T)
            /\ found # <<>> => FirstFree(finished, running, Leaf, T) = {Head(found)}

\* As long as the tree is known and the file is unfinished (only then is anything
\* asked for), the chosen segment disturbs no running download and contributes at
\* least one unfinished byte, and a source is turned away only if every unfinished
\* leaf is being downloaded (or if multiple chunks are off and something runs).
NextIsUseful ==
    finished # {WholeFile} =>
        \A multiChunk \in BOOLEAN : \A T \in WantedSizes(Leaf) :
            LET g == LoopNextSegment(finished, running, multiChunk, Leaf, T)
                missing == (0 .. Size - 1) \ Covered(finished)
                busy    == Covered(running)
            IN  IF g.size > 0
                THEN /\ Positions(g) \cap busy = {}
                     /\ Positions(g) \cap missing # {}
                ELSE IF multiChunk THEN missing \subseteq busy ELSE running # {}
=============================================================================
