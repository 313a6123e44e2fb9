----------------------------- MODULE MCUvcDevice ------------------------------
(***************************************************************************)
(* UvcDevice for TLC: there is a descriptor for each camera and for all    *)
(* that the rest of the process holds, so that dup never fails.            *)
(***************************************************************************)
EXTENDS UvcDevice, TLC

CONSTANT Twice   \* the camera that is opened twice; the others are opened once

MCMaxOpens == [c \in Cameras |-> IF c = Twice THEN 2 ELSE 1]

ASSUME MaxFd >= Cardinality(Cameras) + MaxOther - 1
=============================================================================
