------------------------------- MODULE MC_AOF -------------------------------
(* Model values and bounds for checking AOF, and the refinement of         *)
(* DurableStore it is checked against.                                     *)
EXTENDS AOF, TLC

CONSTANTS s1, s2, d1, d2

MCKeys == {1, 2}
MCIds == {1, 2}
MCHookNames == {1}
MCHookDefs == {d1, d2}
MCShrinkers == {s1, s2}
MCOneShrinker == {s1}

\* A store with two collections, one of them in two id batches, and a hook:
\* what the server may find in its AOF when it starts.
MCInitialAOFs ==
  { <<>>,
    << <<"set", 1, 1, "plain">>, <<"set", 1, 2, "plain">>,
       <<"set", 2, 1, "withpath">>, <<"sethook", 1, d1>> >> }

\* Only the populated AOF.
MCInitialAOFsFull == MCInitialAOFs \ {<<>>}

\* Writes that land before, inside and after the shrinker's position, and
\* the read-only switch.
MCClientInputs ==
  { <<"set", 1, 1, "withpath">>, <<"set", 2, 2, "plain">>, <<"del", 1, 2>>,
    <<"pdel", 1, {1, 2}>>, <<"drop", 2>>, <<"flushdb">>, <<"jset", 2, 1>>,
    <<"sethook", 1, d2>>, <<"delhook", 1>>, <<"pdelhook", {1}>>,
    <<"readonly", "yes">>, <<"readonly", "no">> }

\* Only a SET with EX and a PERSIST: the expiring object, the clock and the
\* shrinker.
MCClientInputsTTL == { <<"set", 1, 2, "plain", "ex">>, <<"persist", 1, 2>> }

\* Writes inside and around the shrinker's first key, the read-only switch,
\* a MASSINSERT 2 1 (the server runs with --dev), and a SET with EX and a
\* PERSIST of an id of the two-batch key.  EXPIRE is left out: whether
\* writeAOF journals an EXPIRE of a missing id is not in the sources (see
\* README).
MCClientInputsMix ==
  { <<"set", 1, 1, "withpath">>, <<"del", 1, 2>>, <<"drop", 2>>,
    <<"readonly", "yes">>, <<"massinsert", 2, 1>>,
    <<"set", 1, 2, "plain", "ex">>, <<"persist", 1, 2>> }

\* The same writes and a JDEL of the object the initial AOF gives a path.
MCClientInputsJdel == MCClientInputs \cup { <<"jdel", 2, 1>> }

\* The clients' view: the store changes by whole commands (the clients'
\* and the expirer's DELs) and survives restarts.
Abstract == INSTANCE DurableStore
              WITH store <- db, up <- alive,
                   Inputs <- ClientInputs \cup {<<"del", k, i>> : k \in Keys, i \in Ids},
                   InitialStores <- {Replay(l) : l \in InitialAOFs}

\* The store the clients are answered from implements DurableStore: no step
\* changes it except one whole client command, and a restart reloads exactly
\* what it held when the process died.
DurableRefinement == Abstract!Spec

=============================================================================
