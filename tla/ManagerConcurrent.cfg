SPECIFICATION Spec
CONSTANTS
  yard = yard  hall = hall  on = on  edited = edited  off = off
  Absent = Absent  None = None
  Cameras <- MCCameras  Settings <- MCSettings  Enabled <- MCEnabled
  Files <- MCFiles
  Tasks = {t1, t2, t3, t4, t5, t6}
  Reloads = {r1, r2}  Viewers = {}  Threads = 3
INVARIANTS TypeOK WorkersLive
PROPERTY KeptRunning
CHECK_DEADLOCK FALSE
