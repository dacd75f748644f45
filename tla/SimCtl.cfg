CONSTANTS
  Process = {launcher, stress, monitor}
  Launcher = launcher
  Stress = {stress}
  Monitor = {monitor}
  MaxObjects = 2
  MaxLaunches = 2
  Iterations = 2
SPECIFICATION Spec
INVARIANTS TypeOK NameWhileOnline
PROPERTIES FreshChip OfflineByOthers ToolsEnd
CHECK_DEADLOCK FALSE
