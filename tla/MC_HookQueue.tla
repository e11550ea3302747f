---------------------------- MODULE MC_HookQueue ----------------------------
(* Model values and bounds for checking HookQueue.                         *)
EXTENDS HookQueue, TLC

CONSTANTS d1, d2

MCOneHook == {1}
MCTwoHooks == {1, 2}
MCHookDefs == {d1, d2}

=============================================================================
