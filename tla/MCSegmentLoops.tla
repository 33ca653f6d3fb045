--------------------------- MODULE MCSegmentLoops ---------------------------
(* The loops on a file of a few units: every finished set of whole leaves,  *)
(* with every way up to MaxRunning downloads can lie over the file.         *)
EXTENDS SegmentLoops

MCInserted == FileSegments
=============================================================================
