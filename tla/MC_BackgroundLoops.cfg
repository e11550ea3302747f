CONSTANTS
  Loops = {"autogc", "oom", "lua"}
  AutoGCs = {0, 2}
  MaxMemories = {0, 1}
  MaxHeap = 2
  MaxElapsed = 2

SPECIFICATION Spec
PROPERTY LoopsExitOnStop
CHECK_DEADLOCK FALSE
