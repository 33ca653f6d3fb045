-------------------------------- MODULE Pipe --------------------------------
(***************************************************************************)
(* What a connection promises to the other side, without its thread and    *)
(* its buffers: what is written arrives in the order in which it was       *)
(* written, without a gap and nothing twice, until the connection is       *)
(* closed; what is left then is lost.  Who closes it without more ado      *)
(* waits for the write that has been begun, and for no other.              *)
(***************************************************************************)
EXTENDS Naturals, Sequences

VARIABLES
    written,    \* how many pieces have been written; they are numbered
    received,   \* those that have been sent to the other side
    line        \* "open", "closing" or "cut"

vars == <<written, received, line>>

Init == written = 0 /\ received = <<>> /\ line = "open"

\* Whoever does not know yet that the line has been cut may write to it.
Write ==
    /\ written' \in Nat /\ written' > written
    /\ UNCHANGED <<received, line>>

NextPiece == Len(received) + 1

Send ==
    /\ line # "cut" /\ NextPiece <= written
    /\ received' = Append(received, NextPiece)
    /\ line' = (IF line = "closing" THEN "cut" ELSE line)
    /\ UNCHANGED written

\* There may be a write that has been begun.
Close ==
    /\ \/ line = "open" /\ line' \in {"closing", "cut"}
       \/ line = "closing" /\ line' = "cut"
    /\ UNCHANGED <<written, received>>

Next == Write \/ Send \/ Close

Spec == Init /\ [][Next]_vars
=============================================================================
