CONSTANTS
  HookNames <- MCOneHook
  HookDefs <- MCHookDefs
  NONE = NONE
  d1 = d1
  d2 = d2
  TTL = 2
  MaxMsgs = 3
  MaxGen = 3
  MaxTicks = 2
  MaxCrashes = 1

SPECIFICATION Spec
INVARIANT EveryPayloadAccountedFor
CHECK_DEADLOCK FALSE
