--------------------------- MODULE ControllerStore ---------------------------
(***************************************************************************)
(* The in-memory state the controller's write commands change, and the     *)
(* effect of each command on it, as pure operators.                        *)
(*                                                                         *)
(* A store is a record [cols, hooks]:                                      *)
(*   cols  : the collection registry c.cols, abstracted to a function      *)
(*           key -> id -> object (NONE where the id is absent); a          *)
(*           collection exists while one of its ids is present.            *)
(*   hooks : the hook registry c.hooks, name -> hook definition or NONE.   *)
(*                                                                         *)
(* A command is its token array (msg.Values, or one AOF record), a tuple   *)
(* whose first element is the lower-case verb.  Objects are abstracted to  *)
(* whether the stored STRING object carries the JSON path that JSET adds   *)
(* and JDEL removes; geometry, fields and the wire form are left out.      *)
(*                                                                         *)
(* Replay is loadAOF: every record of the log run through the same         *)
(* command dispatch, starting from an empty store.                         *)
(***************************************************************************)
EXTENDS Naturals, Sequences, SequencesExt

CONSTANTS
  Keys,       \* collection keys (naturals: the shrinker scans them in order)
  Ids,        \* object ids (naturals: the shrinker scans them in order)
  HookNames,  \* hook names (naturals: the shrinker sorts them)
  HookDefs,   \* hook definitions (endpoints + fence command), model values
  NONE        \* absent id / absent hook

Objects == {"plain", "withpath"}

StoreType ==
  [cols : [Keys -> [Ids -> Objects \cup {NONE}]],
   hooks : [HookNames -> HookDefs \cup {NONE}]]

EmptyStore ==
  [cols |-> [k \in Keys |-> [i \in Ids |-> NONE]],
   hooks |-> [n \in HookNames |-> NONE]]

\* getCol(key) # nil
ColExists(st, k) == \E i \in Ids : st.cols[k][i] # NONE

-----------------------------------------------------------------------------
(* Command handlers: c.cmdSet, c.cmdDel, ...  Each returns the new store.   *)

\* SET key id <object>: the collection receives the object (created if needed).
CmdSet(st, k, i, o) == [st EXCEPT !.cols[k][i] = o]

\* DEL key id: removes one id (a no-op when absent).
CmdDel(st, k, i) == [st EXCEPT !.cols[k][i] = NONE]

\* PDEL key pattern: deletes every id the glob matches; pat is the set of ids
\* the pattern matches.
CmdPdel(st, k, pat) ==
  [st EXCEPT !.cols[k] = [i \in Ids |-> IF i \in pat THEN NONE ELSE @[i]]]

\* DROP key: removes the whole collection.
CmdDrop(st, k) == [st EXCEPT !.cols[k] = [i \in Ids |-> NONE]]

\* FLUSHDB: removes all collections and all hooks.
CmdFlushDB(st) == EmptyStore

\* SETHOOK name endpoints cmd...: an equal hook is kept (and only signalled),
\* any other hook of that name is closed and replaced.
CmdSetHook(st, n, d) ==
  IF st.hooks[n] = d THEN st ELSE [st EXCEPT !.hooks[n] = d]

\* DELHOOK name: closes and removes the hook if there is one.
CmdDelHook(st, n) == [st EXCEPT !.hooks[n] = NONE]

\* PDELHOOK pattern: closes and removes every hook whose name the glob
\* matches; pat is the set of names the pattern matches.
CmdPDelHook(st, pat) ==
  [st EXCEPT !.hooks = [n \in HookNames |-> IF n \in pat THEN NONE ELSE @[n]]]

\* JSET key id path value: sets the path in the stored JSON, creating the
\* object when the id is absent.
CmdJset(st, k, i) == [st EXCEPT !.cols[k][i] = "withpath"]

\* JDEL key id path: removes the path from a stored object; no-op when absent.
CmdJdel(st, k, i) ==
  IF st.cols[k][i] = NONE THEN st ELSE [st EXCEPT !.cols[k][i] = "plain"]

\* MASSINSERT num_keys num_points (dev mode): for every key "mi:i" in turn,
\* a SET of every id j, i < num_keys, j < num_points, each run through
\* c.command and written to the AOF by itself.  Keys and ids are the
\* first num_keys / num_points of Keys and Ids; every object is a point or
\* a string, never one with a JSON path.
MassInsertSets(nk, np) ==
  FlattenSeq([k \in 1..nk |-> [j \in 1..np |-> <<"set", k, j, "plain">>]])

CmdMassInsert(st, nk, np) ==
  FoldLeft(LAMBDA s, r : CmdSet(s, r[2], r[3], r[4]), st, MassInsertSets(nk, np))

\* c.command: dispatch on the verb.  Commands that do not touch the store
\* (READONLY, AOFSHRINK, reads) leave it as it is.
Command(st, w) ==
  CASE w[1] = "set"      -> CmdSet(st, w[2], w[3], w[4])
    [] w[1] = "del"      -> CmdDel(st, w[2], w[3])
    [] w[1] = "pdel"     -> CmdPdel(st, w[2], w[3])
    [] w[1] = "drop"     -> CmdDrop(st, w[2])
    [] w[1] = "flushdb"  -> CmdFlushDB(st)
    [] w[1] = "sethook"  -> CmdSetHook(st, w[2], w[3])
    [] w[1] = "delhook"  -> CmdDelHook(st, w[2])
    [] w[1] = "pdelhook" -> CmdPDelHook(st, w[2])
    [] w[1] = "jset"     -> CmdJset(st, w[2], w[3])
    [] w[1] = "jdel"     -> CmdJdel(st, w[2], w[3])
    [] w[1] = "massinsert" -> CmdMassInsert(st, w[2], w[3])
    [] OTHER             -> st

\* loadAOF: replay every record of the log, in order, from an empty store.
Replay(log) == FoldLeft(Command, EmptyStore, log)

=============================================================================
