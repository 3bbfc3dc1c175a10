--------------------------- MODULE MCCameraWorker ---------------------------
(***************************************************************************)
(* CameraWorker for TLC.  Every number of the specification is a constant; *)
(* the receiver, the counters and the delay are bounded by the code itself,*)
(* so no state constraint is needed.                                       *)
(***************************************************************************)
EXTENDS CameraWorker
=============================================================================
