CONSTANTS
  Cameras = {cam1, cam2}
  Configs <- TwoConfigs
  Results <- TwoResults
  MaxAge = 1
  MaxTime = 3
  MaxFrames = 2
SPECIFICATION Spec
PROPERTY ImplementsPolicy
CHECK_DEADLOCK FALSE
