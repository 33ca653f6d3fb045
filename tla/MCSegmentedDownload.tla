------------------------ MODULE MCSegmentedDownload ------------------------
(* Instances of SegmentedDownload for TLC: files of two or three leaves and  *)
(* two or three sources.                                                     *)
EXTENDS SegmentedDownload

CONSTANTS c1, c2, c3

\* Every source has the whole file.
FullSources == [c \in Conns |-> {}]

\* c2 has the last two leaves only.
TailSource == [c \in Conns |-> IF c = c2 THEN {Seg(1, Size - 1)} ELSE {}]

\* A new item, with and without its tree.
NewFile == {[done |-> {}, treeKnown |-> TRUE]}
NewTreelessFile == {[done |-> {}, treeKnown |-> FALSE]}
AnyNewFile == NewFile \cup NewTreelessFile

\* ... or one that was loaded with finished segments: in the middle, or at both
\* ends.
AnyFile ==
    AnyNewFile \cup
    {[done |-> D, treeKnown |-> TRUE] : D \in {{Seg(1, 1)}, {Seg(0, 1), Seg(2, Size - 2)}}}

\* Bound: overlapped downloads may be credited and completed again and again.
FewRepetitions == credited <= 2 * Size /\ completions <= 2
=============================================================================
