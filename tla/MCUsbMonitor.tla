----------------------------- MODULE MCUsbMonitor -----------------------------
(***************************************************************************)
(* UsbMonitor for TLC.  Blocks is as large as the requests can need (each  *)
(* makes at most one block and one clone), so that New never waits.        *)
(***************************************************************************)
EXTENDS UsbMonitor, TLC

ASSUME Cardinality(Blocks) >= 2 * MaxRequests
=============================================================================
