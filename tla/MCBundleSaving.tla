--------------------------- MODULE MCBundleSaving ---------------------------
(* Instances of BundleSaving for TLC. *)
EXTENDS BundleSaving

CONSTANTS f1, f2

SomeLeaves == [f \in Files |-> IF f = f1 THEN 2 ELSE 1]

Setup(crash, stop, remove, lose, fail, toggle, move) ==
    [crash |-> crash, stop |-> stop, remove |-> remove, lose |-> lose, fail |-> fail,
     toggle |-> toggle, move |-> move]

SomeSetups ==
    {Setup(2, 0, 0, 0, 0, 0, 0),   \* a crash, and one after the restart
     Setup(1, 1, 0, 0, 0, 0, 0),   \* an orderly end and a crash
     Setup(1, 0, 1, 0, 0, 0, 0),   \* the user removes something and the program crashes
     Setup(0, 1, 0, 0, 0, 1, 0),   \* he changes the priority and ends the program
     Setup(1, 0, 0, 0, 0, 0, 1),   \* a file cannot be moved
     Setup(0, 0, 0, 1, 1, 0, 0)}   \* a temporary file is lost, a connection breaks

\* A temporary file is lost, and the program ends or crashes.
LostSetup == {Setup(0, 1, 0, 1, 0, 0, 0)}
LostCrashSetup == {Setup(1, 0, 0, 1, 0, 0, 0)}
\* The user removes a file, and the program crashes twice.
RemovedSetup == {Setup(2, 0, 1, 0, 0, 0, 0)}
\* For the savers that overlap, and for a priority that is changed during a save.
OverlapSetup == {Setup(0, 1, 0, 0, 0, 0, 0)}
ToggleSetup == {Setup(0, 0, 0, 0, 0, 1, 0)}
=============================================================================
