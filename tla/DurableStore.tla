---------------------------- MODULE DurableStore ----------------------------
(***************************************************************************)
(* What the controller promises of its store: it changes only by one      *)
(* client command at a time, and a crash followed by a restart gives back *)
(* exactly the state the clients had been answered for (spec I2, P1).      *)
(***************************************************************************)
EXTENDS ControllerStore

CONSTANTS
  Inputs,        \* the commands clients may send
  InitialStores  \* the stores the server may start with

VARIABLES store, up

Execute(w) == /\ up /\ store' = Command(store, w) /\ UNCHANGED up
GoDown     == /\ up /\ up' = FALSE /\ UNCHANGED store
ComeUp     == /\ ~up /\ up' = TRUE /\ UNCHANGED store

Init == store \in InitialStores /\ up = TRUE
Next == (\E w \in Inputs : Execute(w)) \/ GoDown \/ ComeUp
Spec == Init /\ [][Next]_<<store, up>>

=============================================================================
