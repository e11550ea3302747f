CONSTANTS
  Keys <- MCKeys
  Ids <- MCIds
  HookNames <- MCHookNames
  HookDefs <- MCHookDefs
  Shrinkers <- MCOneShrinker
  ClientInputs <- MCClientInputsJdel
  InitialAOFs <- MCInitialAOFs
  NONE = NONE
  NOFILE = NOFILE
  s1 = s1
  s2 = s2
  d1 = d1
  d2 = d2
  MaxKeys = 1
  MaxIds = 1
  MaxChunk = 1
  MaxWrites = 2
  MaxShrinks = 2
  MaxCrashes = 1
  CrashDuringSwap = TRUE

SPECIFICATION Spec
PROPERTY ReadOnlyFreezesStore
CHECK_DEADLOCK FALSE
