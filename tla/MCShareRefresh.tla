---------------------------- MODULE MCShareRefresh ----------------------------
(* Instances of ShareRefresh for TLC. *)
EXTENDS ShareRefresh

CONSTANTS t1, t2, d1, d2, a, b, c

\* a and b are on one disk, c on another.
TwoDisks == [f \in Files |-> IF f = c THEN d2 ELSE d1]

Setup(disk, stored, ops, n) == [disk |-> disk, stored |-> stored, ops |-> ops, budget |-> n]

SomeSetups ==
    { \* two files of one disk, or of two disks
      Setup({a, b}, {}, {"refresh"}, 2),
      Setup({a, c}, {}, {"refresh"}, 2),
      \* the hash of one is known
      Setup({b, c}, {c}, {"refresh", "fail"}, 3),
      \* the user pauses and resumes what the refresh has paused, too
      Setup({b}, {}, {"refresh", "pause", "resume"}, 3),
      Setup({a, c}, {c}, {"refresh", "abort", "remove", "add"}, 4),
      Setup({a, c}, {c}, {"refresh", "stop", "shutdown"}, 3),
      \* two hashers end
      Setup({a, c}, {}, {"refresh", "shutdown"}, 2)}

\* For hashers that get the same number: three files of one disk, two refreshes, and of the
\* hashers only the second finishes its file.
OneDisk == [f \in Files |-> d1]
TwiceSetup == {Setup(Files, {}, {"refresh"}, 2)}
OnlySecondFinishes ==
    /\ Len(tasks) <= 1 /\ asked \subseteq {"root"}
    /\ \A t \in Listed :
         /\ hasher[t].id # 1 => hasher[t].at \notin {"store", "finish"}
         /\ Cardinality(hasher[t].work) <= 1
===============================================================================
