SPECIFICATION Spec
CONSTANTS
  Tabs = {t1}
  MaxBuild = 3
  MaxLoads = 3
  MaxOutages = 1
  MaxQuits = 1
  NONE = NONE
INVARIANTS
  
  OldPageKeepsItsBundle
PROPERTIES
  InstallationEnds
CHECK_DEADLOCK FALSE
