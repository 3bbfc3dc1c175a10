--------------------------- MODULE MCCameraManager ---------------------------
(* Two cameras: one that every file enables, one that comes and goes.      *)
EXTENDS CameraManager

CONSTANTS yard, hall, on, edited, off

MCCameras  == {yard, hall}
MCSettings == {on, edited, off}
MCEnabled  == {on, edited}

\* yard is enabled in all files, hall may be enabled, disabled or deleted.
MCFiles ==
  {f \in [MCCameras -> MCSettings \union {Absent}] :
     /\ f[yard] = on
     /\ f[hall] \in {on, off, Absent}}

\* Files in which the settings of yard are edited, and one without cameras.
MCFilesEdited ==
  {f \in [MCCameras -> MCSettings \union {Absent}] :
     \/ f[yard] \in {on, edited} /\ f[hall] \in {on, off, Absent}
     \/ f[yard] = Absent /\ f[hall] = Absent}

=============================================================================
