---------------------------- MODULE MCUVCPreview ----------------------------
(* TLC instance of UVCPreview.  Buffers are interchangeable: nothing in the *)
(* specification tells one from another.                                   *)
EXTENDS UVCPreview, TLC
Symmetry == Permutations(Frames)
=============================================================================
