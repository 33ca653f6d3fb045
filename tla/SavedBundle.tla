---------------------------- MODULE SavedBundle ----------------------------
(***************************************************************************)
(* What a restart may bring back of a bundle of the queue, without the     *)
(* threads that change and save it: the bundle in memory, the last state   *)
(* of it that has been kept, and the files of it that are in their place.  *)
(* What is kept is the bundle as it was at one moment.  A crash goes back  *)
(* to it, or finds nothing in the moment in which the new one takes the    *)
(* place of the old; an orderly end forgets nothing but what a program     *)
(* cannot take over.                                                       *)
(***************************************************************************)
EXTENDS Naturals

CONSTANTS
    Files,
    FileLeaves  \* how many leaves each of them has

VARIABLES
    running,
    memory,    \* the files of the bundle, and what is finished of them
    kept,
    exposed,   \* the old one has been deleted, the new one is not in its place
    placed,    \* files that are in their place
    givenUp    \* files of which what was finished has been given up since

vars == <<running, memory, kept, exposed, placed, givenUp>>

Leaves(f) == 1 .. FileLeaves[f]
NothingDone == [f \in Files |-> {}]
Empty == [files |-> {}, done |-> NothingDone]
Complete(b, f) == b.done[f] = Leaves(f)

\* Only these files of a bundle.
Of(b, files) ==
    [files |-> files, done |-> [f \in Files |-> IF f \in files THEN b.done[f] ELSE {}]]

Init ==
    /\ running = TRUE /\ memory = [files |-> Files, done |-> NothingDone] /\ kept = Empty
    /\ exposed = FALSE /\ placed = {} /\ givenUp = {}

-----------------------------------------------------------------------------
(* The bundle is downloaded *)

Changes == running /\ ~exposed

Finish(f) ==
    /\ Changes /\ f \in memory.files
    /\ \E leaf \in Leaves(f) : memory' = [memory EXCEPT !.done[f] = @ \cup {leaf}]
    /\ UNCHANGED <<running, kept, exposed, placed, givenUp>>

GiveUp(f) ==
    /\ Changes /\ f \in memory.files /\ ~Complete(memory, f)
    /\ memory' = [memory EXCEPT !.done[f] = {}] /\ givenUp' = givenUp \cup {f}
    /\ UNCHANGED <<running, kept, exposed, placed>>

\* A complete file comes to its place.
Place(f) ==
    /\ running /\ f \in memory.files /\ Complete(memory, f)
    /\ placed' = placed \cup {f}
    /\ UNCHANGED <<running, memory, kept, exposed, givenUp>>

Remove ==
    /\ Changes
    /\ \E files \in SUBSET memory.files : memory' = Of(memory, files)
    /\ UNCHANGED <<running, kept, exposed, placed, givenUp>>

\* The bundle is removed.
Drop ==
    /\ Changes /\ memory' = Empty /\ kept' = Empty
    /\ UNCHANGED <<running, exposed, placed, givenUp>>

-----------------------------------------------------------------------------
(* ... and kept *)

Keep ==
    /\ Changes /\ kept' = memory /\ exposed' = TRUE
    /\ UNCHANGED <<running, memory, placed, givenUp>>

Replace ==
    /\ exposed /\ exposed' = FALSE /\ givenUp' = {}
    /\ UNCHANGED <<running, memory, kept, placed>>

\* A complete file has to be in its place, one that is not must not be.
Fits(b, f) == f \in b.files /\ (Complete(b, f) <=> f \in placed)
ComesBack == {f \in Files : Fits(kept, f)}

NothingLost ==
    /\ ComesBack = {f \in Files : Fits(memory, f)}
    /\ \A f \in ComesBack \ givenUp : kept.done[f] = memory.done[f]

Crash ==
    /\ running /\ running' = FALSE /\ memory' = Empty
    /\ kept' = (IF exposed THEN Empty ELSE kept) /\ exposed' = FALSE
    /\ UNCHANGED <<placed, givenUp>>

End ==
    /\ Changes /\ NothingLost
    /\ running' = FALSE /\ memory' = Empty
    /\ UNCHANGED <<kept, exposed, placed, givenUp>>

Start ==
    /\ ~running /\ running' = TRUE /\ memory' = Of(kept, ComesBack)
    /\ kept' = (IF ComesBack = {} THEN Empty ELSE kept)
    /\ UNCHANGED <<exposed, placed, givenUp>>

Next ==
    \/ \E f \in Files : Finish(f) \/ GiveUp(f) \/ Place(f)
    \/ Remove \/ Drop \/ Keep \/ Replace \/ Crash \/ End \/ Start

Spec == Init /\ [][Next]_vars
=============================================================================
