------------------------- MODULE MCBundleLifecycle -------------------------
(* Instances of BundleLifecycle for TLC: a bundle of one or two files.       *)
EXTENDS BundleLifecycle

CONSTANTS f1, f2
=============================================================================
