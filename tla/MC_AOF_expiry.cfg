CONSTANTS
  Keys <- MCKeys
  Ids <- MCIds
  HookNames <- MCHookNames
  HookDefs <- MCHookDefs
  Shrinkers <- MCOneShrinker
  ClientInputs <- MCClientInputsTTL
  InitialAOFs <- MCInitialAOFs
  NONE = NONE
  NOFILE = NOFILE
  s1 = s1
  s2 = s2
  d1 = d1
  d2 = d2
  MaxKeys = 1
  MaxIds = 1
  MaxChunk = 1
  MaxWrites = 2
  MaxShrinks = 2
  MaxCrashes = 1
  CrashDuringSwap = FALSE

SPECIFICATION Spec
PROPERTY DeadlinesKept
CHECK_DEADLOCK FALSE
