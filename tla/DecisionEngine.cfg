CONSTANTS
  Cameras = {cam1}
  Configs <- MCConfigs
  Results <- MCResults
  MaxAge = 1
  MaxTime = 3
  MaxFrames = 4
SPECIFICATION Spec
INVARIANTS
  TypeOK
  CooldownSpacing
  CooldownMapExact
PROPERTY ImplementsPolicy
CHECK_DEADLOCK FALSE
