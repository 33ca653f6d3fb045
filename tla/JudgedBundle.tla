---------------------------- MODULE JudgedBundle ----------------------------
(***************************************************************************)
(* What becomes of a bundle the user leaves alone, without the threads,    *)
(* tasks and lists that bring it about: each of its files is judged once;  *)
(* when one is rejected the bundle fails, and when all are accepted it is  *)
(* judged itself, and shared, at most once, if it is accepted.  One that   *)
(* has been completed before is judged again, but shown as completed       *)
(* until then, so that a refresh may find it in the share.                 *)
(***************************************************************************)
EXTENDS Naturals

CONSTANT Files

VARIABLES
    touched,  \* the user has done something: nothing is promised any more
    files, judged, rejected,
    phase,    \* the bundle waits for its verdict, is about to be shared, or neither
    shown,    \* its status: "open", "failed" or "completed"
    seen,     \* a refresh has found it completed
    shared    \* how often it has been shared

vars == <<touched, files, judged, rejected, phase, shown, seen, shared>>

Init ==
    /\ touched = FALSE /\ files \in SUBSET Files /\ judged \in SUBSET files /\ rejected = {}
    /\ phase = "waiting" /\ shown = IF judged = files THEN "completed" ELSE "open"
    /\ seen = FALSE /\ shared = 0

Accepted == judged = files /\ rejected = {}

JudgeFile(f) ==
    /\ phase = "waiting" /\ shown # "completed" /\ f \in files \ judged
    /\ judged' = judged \cup {f} /\ rejected' \in {rejected, rejected \cup {f}}
    /\ UNCHANGED <<files, phase, shown, seen, shared>>

\* A file has been rejected.
Fail ==
    /\ phase = "waiting" /\ rejected # {} /\ shown' = "failed"
    /\ UNCHANGED <<files, judged, rejected, phase, seen, shared>>

\* The bundle of a former run is validated again.
Reopen ==
    /\ phase = "waiting" /\ Accepted /\ shown = "completed" /\ shown' = "open"
    /\ UNCHANGED <<files, judged, rejected, phase, seen, shared>>

JudgeBundle ==
    /\ phase = "waiting" /\ Accepted
    /\ \/ phase' = "sharing" /\ shown' = "completed"
       \/ phase' = "over" /\ shown' = "failed"
    /\ UNCHANGED <<files, judged, rejected, seen, shared>>

\* The share may refuse it.
Share ==
    /\ phase = "sharing" /\ shown = "completed" /\ phase' = "over"
    /\ shared' \in {shared, shared + 1}
    /\ UNCHANGED <<files, judged, rejected, shown, seen>>

\* A refresh that has found the bundle completed says so later, whatever the verdict is.
See ==
    /\ ~seen /\ shown = "completed" /\ seen' = TRUE
    /\ UNCHANGED <<files, judged, rejected, phase, shown, shared>>
Mark ==
    /\ seen /\ seen' = FALSE /\ Accepted /\ shown' = "completed"
    /\ UNCHANGED <<files, judged, rejected, phase, shared>>

LeftAlone ==
    /\ ~touched /\ ~touched'
    /\ \/ \E f \in files : JudgeFile(f)
       \/ Fail \/ Reopen \/ JudgeBundle \/ Share \/ See \/ Mark

\* The user does something, or has done.
Touch == touched' = TRUE

Next == LeftAlone \/ Touch

Spec == Init /\ [][Next]_vars
=============================================================================
