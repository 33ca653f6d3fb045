---------------------------- MODULE FileAssembly ----------------------------
(***************************************************************************)
(* What segmented downloading promises, without its mechanics: a file is   *)
(* put together from blocks by workers that claim missing blocks nobody    *)
(* else has claimed and deliver some of what they claimed.  No block is    *)
(* fetched by two workers at once or fetched again after it was delivered, *)
(* and the file is complete as soon as the last block is there.            *)
(***************************************************************************)
CONSTANTS Workers, Blocks

VARIABLES
    have,       \* delivered blocks
    claim,      \* what each worker is fetching
    complete

vars == <<have, claim, complete>>

Claimed == UNION {claim[w] : w \in Workers}

Init ==
    /\ have \in SUBSET Blocks /\ have # Blocks
    /\ claim = [w \in Workers |-> {}]
    /\ complete = FALSE

\* A worker without a claim gets some missing blocks.
Claim(w) ==
    /\ ~complete /\ claim[w] = {}
    /\ \E S \in SUBSET (Blocks \ (have \cup Claimed)) :
          claim' = [claim EXCEPT ![w] = S]
    /\ UNCHANGED <<have, complete>>

\* A worker delivers some of its blocks, perhaps none, and gives up the others.
Deliver(w) ==
    /\ ~complete
    /\ \E S \in SUBSET claim[w] : have' = have \cup S
    /\ claim' = [claim EXCEPT ![w] = {}]
    /\ have' # Blocks
    /\ UNCHANGED complete

\* The last blocks are delivered; the claims of the others are void.
Complete(w) ==
    /\ ~complete
    /\ have \cup claim[w] = Blocks
    /\ have' = Blocks
    /\ claim' = [v \in Workers |-> {}]
    /\ complete' = TRUE

\* The delivered blocks are lost, which is noticed when a worker makes a claim.
StartOver(w) ==
    /\ ~complete /\ claim[w] = {}
    /\ have' = {}
    /\ \E S \in SUBSET (Blocks \ Claimed) : claim' = [claim EXCEPT ![w] = S]
    /\ UNCHANGED complete

Next == \E w \in Workers : Claim(w) \/ Deliver(w) \/ Complete(w) \/ StartOver(w)

Spec == Init /\ [][Next]_vars
=============================================================================
