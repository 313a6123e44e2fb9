--------------------------- MODULE MCCameraHandler ----------------------------
(* TLC instance of CameraHandler: the UI thread and one worker thread.      *)
EXTENDS CameraHandler
=============================================================================
