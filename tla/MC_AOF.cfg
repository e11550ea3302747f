CONSTANTS
  Keys <- MCKeys
  Ids <- MCIds
  HookNames <- MCHookNames
  HookDefs <- MCHookDefs
  Shrinkers <- MCShrinkers
  ClientInputs <- MCClientInputsMix
  InitialAOFs <- MCInitialAOFsFull
  NONE = NONE
  NOFILE = NOFILE
  s1 = s1
  s2 = s2
  d1 = d1
  d2 = d2
  MaxKeys = 1
  MaxIds = 1
  MaxChunk = 1
  MaxWrites = 2
  MaxShrinks = 2
  MaxCrashes = 1
  CrashDuringSwap = FALSE

SPECIFICATION Spec
INVARIANT TypeOK
PROPERTY ShrinkEventuallyEnds
INVARIANT AOFReplaysToStore
CHECK_DEADLOCK FALSE
