---------------------------- MODULE MCConnections ----------------------------
(* Instances of Connections for TLC. *)
EXTENDS Connections

CONSTANTS t1, t2, c1, c2, f1, f2, f3

User(m, files, queue, cs, n) ==
    [mcn |-> m, files |-> files, queued |-> queue, conns |-> cs, mishaps |-> n]

\* A user without support for several connections; one with it and one file; both
\* fail twice, the latter on two connections. One with a small and a normal file
\* that fails once on one connection, and not at all on two; one with two normal
\* files.
SomeUsers ==
    {User(FALSE, {f1, f2}, {f2}, {c1}, 2), User(TRUE, {f2}, {}, {c1, c2}, 2),
     User(TRUE, {f1, f2}, {}, {c1}, 1), User(TRUE, {f1, f2}, {f1, f2}, {c1, c2}, 0),
     User(TRUE, {f2, f3}, {f2, f3}, {c1, c2}, 0)}

\* One that is refused after its connection was lost.
RefusedUser == {User(TRUE, {f2, f3}, {f2}, {c1}, 2)}

\* One that a small and a normal file are queued for, without a failure.
MixedUser == {User(TRUE, {f1, f2}, {f1, f2}, {c1, c2}, 0)}
=============================================================================
