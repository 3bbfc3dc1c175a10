SPECIFICATION FairSpec
CONSTANTS
  yard = yard  hall = hall  on = on  edited = edited  off = off
  Absent = Absent  None = None
  Cameras <- MCCameras  Settings <- MCSettings  Enabled <- MCEnabled
  Files <- MCFilesEdited
  Tasks = {t1, t2, t3, t4, t5, t6}
  Reloads = {r1}  Viewers = {v1}  Threads = 3
INVARIANT NoOrphans
PROPERTIES ReloadApplies ShutdownLeavesNone ShutdownCompletes ReloadReturns
CHECK_DEADLOCK FALSE
