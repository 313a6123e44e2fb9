----------------------------- MODULE MCUvcStream ----------------------------
(* TLC instance of UvcStream.  One transfer is like another.               *)
EXTENDS UvcStream, TLC
Symmetry == Permutations(Transfers)
=============================================================================
