----------------------------- MODULE MCCameraView -----------------------------
(* TLC instance of CameraView: enough calls on the UI thread for a surface   *)
(* to come, the activity to stop and one more, and an encoder that comes and *)
(* goes.                                                                     *)
EXTENDS CameraView

CONSTANTS UICalls, AsyncCalls, CameraCalls

MCMaxCalls ==
    [t \in Threads |-> CASE t = UI -> UICalls [] t = Async -> AsyncCalls [] OTHER -> CameraCalls]

\* removeMessages is SelectSeq, on every queue of up to four messages.
ASSUME
    LET kinds == {"RENDER", "CREATE", "TERMINATE"}
    IN  \A n \in 0..4 : \A q \in [1..n -> kinds] : \A gone \in SUBSET kinds :
            removeMessages(q, gone) = SelectSeq(q, LAMBDA m : m \notin gone)
=============================================================================
