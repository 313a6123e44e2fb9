--------------------------- MODULE MCMediaRecording ---------------------------
(***************************************************************************)
(* A recording with the two encoders of handleStartRecording.              *)
(***************************************************************************)
EXTENDS MediaRecording
=============================================================================
