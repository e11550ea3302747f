-------------------------------- MODULE AOF ---------------------------------
(***************************************************************************)
(* The controller's write path, its append-only file and the live AOF      *)
(* shrink (controller.go handleInputCommand, aofshrink.go aofshrink), with *)
(* process crashes and restarts.                                           *)
(*                                                                         *)
(* Every client command and every shrinker step that the code runs under   *)
(* c.mu.Lock() is one atomic action; the only stretch of code that holds   *)
(* the lock across several actions is the swap at the end of a shrink     *)
(* (the pcs in SwapPcs), during which no other locked step is enabled.     *)
(*                                                                         *)
(* The disk holds three files: the live AOF, the "-shrink" rewrite and the *)
(* "-bak" backup, each a sequence of command records or NOFILE.  A crash   *)
(* kills the process; what was written to a file stays there.             *)
(***************************************************************************)
EXTENDS ControllerStore, Integers, FiniteSets

CONSTANTS
  Shrinkers,       \* goroutines started by AOFSHRINK
  ClientInputs,    \* the commands clients send (token arrays)
  InitialAOFs,     \* live AOFs the server may find on disk when it starts
  MaxKeys,         \* maxkeys: keys loaded per outer batch (code: 8)
  MaxIds,          \* maxids: ids copied per inner batch (code: 32)
  MaxChunk,        \* maxchunk: records buffered before a write (code: 4 MiB)
  MaxWrites,       \* bound: client commands executed
  MaxShrinks,      \* bound: AOFSHRINK commands executed
  MaxCrashes,      \* bound: process crashes
  CrashDuringSwap, \* whether the process may die while the files are swapped
  NOFILE           \* a file that does not exist

ASSUME MaxKeys \in Nat \ {0} /\ MaxIds \in Nat \ {0} /\ MaxChunk \in Nat
ASSUME Keys \subseteq Nat \ {0} /\ Ids \subseteq Nat \ {0}

VARIABLES
  db,         \* c.cols and c.hooks (see ControllerStore)
  exps,       \* c.expires: per id "none", "live" or "passed" (its deadline is due)
  readOnly,   \* config read-only flag, persisted with the config file
  disk,       \* [Files -> Seq(record) \cup {NOFILE}]
  alive,      \* the process is running
  shrinking,  \* c.shrinking
  shrinklog,  \* c.shrinklog
  spc,        \* shrinker program counter
  keys,       \* shrinker local: batch of keys still to copy
  nextkey,    \* shrinker local: first key of the next batch
  keysdone,   \* shrinker local: no keys beyond the current batch
  nextid,     \* shrinker local: first id of the next batch of the current key
  idsdone,    \* shrinker local: current key fully copied
  aofbuf,     \* shrinker local: records not yet written to the shrink file
  hnames,     \* shrinker local: hook names still to copy
  nwrites, nshrinks, ncrashes  \* bound counters

vars == <<db, exps, readOnly, disk, alive, shrinking, shrinklog, spc, keys, nextkey,
          keysdone, nextid, idsdone, aofbuf, hnames, nwrites, nshrinks, ncrashes>>
shrinkLocals == <<keys, nextkey, keysdone, nextid, idsdone, aofbuf, hnames>>
counters == <<nwrites, nshrinks, ncrashes>>

Files == {"live", "shrink", "bak"}

\* Shrinker pcs between taking the lock to drain the shrink log and the
\* unlock after the files are swapped.
SwapPcs == {"backup", "rename", "reopen"}

\* c.mu is free for a locked step of anyone but the shrinker s.
LockFreeFor(s) == \A t \in Shrinkers \ {s} : spc[t] \notin SwapPcs
LockFree == \A t \in Shrinkers : spc[t] \notin SwapPcs

-----------------------------------------------------------------------------
(* The router's write path (controller.go handleInputCommand).             *)

\* The commands that take the exclusive lock, pass the leader and read-only
\* gates and are written to the AOF afterwards.
WriteCommands ==
  {"set", "del", "drop", "fset", "flushdb", "sethook", "pdelhook", "delhook",
   "expire", "persist", "jset", "pdel"}

\* The expiration index when no id has a deadline.
NoDeadlines == [k \in Keys |-> [i \in Ids |-> "none"]]

\* What a command does to c.expires, given the store st it runs on (crud.go,
\* expire.go): SET clears the id's deadline and sets a fresh one with EX;
\* EXPIRE sets one on an existing id and PERSIST clears it; DEL, PDEL, DROP
\* and FLUSHDB clear the deadlines of what they remove; MASSINSERT's SETs
\* carry no EX.  A deadline set now is "live": it lies in the future.
DeadlinesAfter(st, ex, w) ==
  CASE w[1] = "set"      -> [ex EXCEPT ![w[2]][w[3]] =
                               IF Len(w) = 5 THEN "live" ELSE "none"]
    [] w[1] = "expire"   -> IF st.cols[w[2]][w[3]] = NONE THEN ex
                            ELSE [ex EXCEPT ![w[2]][w[3]] = "live"]
    [] w[1] \in {"persist", "del"} -> [ex EXCEPT ![w[2]][w[3]] = "none"]
    [] w[1] = "pdel"     -> [ex EXCEPT ![w[2]] =
                               [i \in Ids |-> IF i \in w[3] THEN "none" ELSE @[i]]]
    [] w[1] = "drop"     -> [ex EXCEPT ![w[2]] = [i \in Ids |-> "none"]]
    [] w[1] = "flushdb"  -> NoDeadlines
    [] w[1] = "massinsert" ->
         [k \in Keys |-> [i \in Ids |->
            IF k <= w[2] /\ i <= w[3] THEN "none" ELSE ex[k][i]]]
    [] OTHER             -> ex

\* loadAOF with the expiration index: every record replayed in order; an
\* "ex" or EXPIRE counts from the moment it is loaded.
ReplayDeadlines(log) ==
  FoldLeft(LAMBDA p, w : <<Command(p[1], w), DeadlinesAfter(p[1], p[2], w)>>,
           <<EmptyStore, NoDeadlines>>, log)[2]

\* Mutant: a writeAOF that forgets the shrink log.
WriteAOFNoShrinkLog(ws) ==
  /\ disk' = [disk EXCEPT !["live"] = @ \o ws]
  /\ UNCHANGED shrinklog

\* writeAOF, once for each record of ws in turn: append it to the live AOF,
\* and to the shrink log while a shrink runs.
WriteAOF(ws) ==
  /\ disk' = [disk EXCEPT !["live"] = @ \o ws]
  /\ shrinklog' = IF shrinking THEN shrinklog \o ws ELSE shrinklog

\* cmdReadOnly: READONLY yes|no sets the persisted flag.
ReadOnlyAfter(w) ==
  IF w[1] = "readonly" THEN w[2] = "yes" ELSE readOnly

\* The read-only gate: a write command while the server is read-only is
\* answered "read only".
ReadOnlyRejects(w) == w[1] \in WriteCommands /\ readOnly

\* One client command, from the lock choice to the AOF write.
HandleInputCommand(w) ==
  /\ alive /\ LockFree
  /\ nwrites < MaxWrites
  /\ nwrites' = nwrites + 1
  /\ exps' = IF ReadOnlyRejects(w) THEN exps ELSE DeadlinesAfter(db, exps, w)
  /\ \/ /\ ReadOnlyRejects(w)
        /\ UNCHANGED <<db, disk, shrinklog>>
     \/ /\ w[1] \in WriteCommands
        /\ ~ReadOnlyRejects(w)
        /\ db' = Command(db, w)
        /\ WriteAOF(<<w>>)
     \/ /\ w[1] = "massinsert"                    \* exclusive lock, no gate
        /\ db' = Command(db, w)
        /\ WriteAOF(MassInsertSets(w[2], w[3]))
     \/ /\ w[1] \notin WriteCommands \cup {"massinsert"}  \* never written to the AOF
        /\ db' = Command(db, w)
        /\ UNCHANGED <<disk, shrinklog>>
  /\ readOnly' = ReadOnlyAfter(w)
  /\ UNCHANGED <<alive, shrinking, spc, nshrinks, ncrashes>>
  /\ UNCHANGED shrinkLocals

-----------------------------------------------------------------------------
(* The shrinker (aofshrink.go aofshrink).                                  *)

\* AOFSHRINK: runs under the read lock and starts the goroutine.
AofShrinkCommand(s) ==
  /\ alive /\ LockFree
  /\ spc[s] = "idle"
  /\ nshrinks < MaxShrinks
  /\ spc' = [spc EXCEPT ![s] = "start"]
  /\ nshrinks' = nshrinks + 1
  /\ UNCHANGED <<db, exps, readOnly, disk, alive, shrinking, shrinklog, nwrites, ncrashes>>
  /\ UNCHANGED shrinkLocals

\* Under the lock: leave if a shrink is running (without the deferred
\* reset), else raise the flag and empty the shrink log.
ShrinkBegin(s) ==
  /\ spc[s] = "start" /\ LockFreeFor(s)
  /\ \/ /\ shrinking
        /\ spc' = [spc EXCEPT ![s] = "idle"]
        /\ UNCHANGED <<shrinking, shrinklog>>
     \/ /\ ~shrinking
        /\ shrinking' = TRUE
        /\ shrinklog' = <<>>
        /\ spc' = [spc EXCEPT ![s] = "create"]
  /\ UNCHANGED <<db, exps, readOnly, disk, alive, counters>>
  /\ UNCHANGED shrinkLocals

\* os.Create(AppendFileName + "-shrink") truncates the rewrite file.
ShrinkCreate(s) ==
  /\ spc[s] = "create"
  /\ disk' = [disk EXCEPT !["shrink"] = <<>>]
  /\ keys' = [keys EXCEPT ![s] = <<>>]
  /\ nextkey' = [nextkey EXCEPT ![s] = 0]
  /\ keysdone' = [keysdone EXCEPT ![s] = FALSE]
  /\ aofbuf' = [aofbuf EXCEPT ![s] = <<>>]
  /\ spc' = [spc EXCEPT ![s] = "keys"]
  /\ UNCHANGED <<db, exps, readOnly, alive, shrinking, shrinklog, nextid, idsdone,
                 hnames, counters>>

\* The keys of existing collections from k on, in order.
KeysFrom(k) == SetToSortSeq({x \in Keys : x >= k /\ ColExists(db, x)}, <)

\* Mutant: an id scan that also visits slots of deleted objects.
IdsFromAll(k, i) == SetToSortSeq({x \in Ids : x >= i}, <)

\* The ids of collection k from i on, in order.
IdsFrom(k, i) == SetToSortSeq({x \in Ids : x >= i /\ db.cols[k][x] # NONE}, <)

\* Outer loop: when the batch is used up, either stop or load the next
\* MaxKeys keys under the lock; otherwise start copying the first key.
ShrinkLoadKeys(s) ==
  /\ spc[s] = "keys"
  /\ \/ /\ keys[s] = <<>> /\ keysdone[s]
        /\ spc' = [spc EXCEPT ![s] = "hooknames"]
        /\ UNCHANGED <<keys, nextkey, keysdone, nextid, idsdone>>
     \/ /\ keys[s] = <<>> /\ ~keysdone[s]
        /\ LockFreeFor(s)
        /\ LET ks == KeysFrom(nextkey[s]) IN
             /\ keys' = [keys EXCEPT ![s] = SubSeq(ks, 1, IF Len(ks) < MaxKeys THEN Len(ks) ELSE MaxKeys)]
             /\ keysdone' = [keysdone EXCEPT ![s] = Len(ks) <= MaxKeys]
             /\ nextkey' = [nextkey EXCEPT ![s] =
                              IF Len(ks) > MaxKeys THEN ks[MaxKeys + 1] ELSE @]
        /\ UNCHANGED <<spc, nextid, idsdone>>
     \/ /\ keys[s] # <<>>
        /\ nextid' = [nextid EXCEPT ![s] = 0]
        /\ idsdone' = [idsdone EXCEPT ![s] = FALSE]
        /\ spc' = [spc EXCEPT ![s] = "ids"]
        /\ UNCHANGED <<keys, nextkey, keysdone>>
  /\ UNCHANGED <<db, exps, readOnly, disk, alive, shrinking, shrinklog, aofbuf, hnames,
                 counters>>

\* Mutant: a rewrite that never carries the TTL.
SetRecordNoEx(k, i) == <<"set", k, i, db.cols[k][i]>>

\* The SET record the shrinker writes for one object: with "ex" when its
\* deadline, read against a time.Now() taken per batch, is still ahead.
SetRecord(k, i) ==
  IF exps[k][i] = "live" THEN <<"set", k, i, db.cols[k][i], "ex">>
  ELSE <<"set", k, i, db.cols[k][i]>>

\* Inner loop: when the key is done drop it from the batch; otherwise copy
\* the next MaxIds objects of the key under the lock.
ShrinkLoadIds(s) ==
  /\ spc[s] = "ids"
  /\ \/ /\ idsdone[s]
        /\ keys' = [keys EXCEPT ![s] = Tail(@)]
        /\ spc' = [spc EXCEPT ![s] = "keys"]
        /\ UNCHANGED <<nextid, idsdone, aofbuf>>
     \/ /\ ~idsdone[s]
        /\ LockFreeFor(s)
        /\ LET k  == Head(keys[s])
               is == IdsFrom(k, nextid[s])
               n  == IF Len(is) < MaxIds THEN Len(is) ELSE MaxIds
           IN /\ aofbuf' = [aofbuf EXCEPT ![s] =
                              @ \o [j \in 1..n |-> SetRecord(k, is[j])]]
              /\ idsdone' = [idsdone EXCEPT ![s] = Len(is) <= MaxIds]
              /\ nextid' = [nextid EXCEPT ![s] =
                              IF Len(is) > MaxIds THEN is[MaxIds + 1] ELSE @]
        /\ spc' = [spc EXCEPT ![s] = "flush"]
        /\ UNCHANGED keys
  /\ UNCHANGED <<db, exps, readOnly, disk, alive, shrinking, shrinklog, nextkey,
                 keysdone, hnames, counters>>

\* After each batch, outside the lock: write the buffer once it is large.
ShrinkFlush(s) ==
  /\ spc[s] = "flush"
  /\ IF Len(aofbuf[s]) > MaxChunk
       THEN /\ disk' = [disk EXCEPT !["shrink"] = @ \o aofbuf[s]]
            /\ aofbuf' = [aofbuf EXCEPT ![s] = <<>>]
       ELSE UNCHANGED <<disk, aofbuf>>
  /\ spc' = [spc EXCEPT ![s] = "ids"]
  /\ UNCHANGED <<db, exps, readOnly, alive, shrinking, shrinklog, keys, nextkey,
                 keysdone, nextid, idsdone, hnames, counters>>

\* Under the lock: the names of the hooks, sorted.
ShrinkHookNames(s) ==
  /\ spc[s] = "hooknames" /\ LockFreeFor(s)
  /\ hnames' = [hnames EXCEPT ![s] =
                  SetToSortSeq({n \in HookNames : db.hooks[n] # NONE}, <)]
  /\ spc' = [spc EXCEPT ![s] = "hooks"]
  /\ UNCHANGED <<db, exps, readOnly, disk, alive, shrinking, shrinklog, keys, nextkey,
                 keysdone, nextid, idsdone, aofbuf, counters>>

\* One hook per lock: a SETHOOK record, unless it was deleted meanwhile.
ShrinkHook(s) ==
  /\ spc[s] = "hooks"
  /\ \/ /\ hnames[s] # <<>> /\ LockFreeFor(s)
        /\ LET n == Head(hnames[s]) IN
             aofbuf' = [aofbuf EXCEPT ![s] =
                          IF db.hooks[n] = NONE THEN @
                          ELSE Append(@, <<"sethook", n, db.hooks[n]>>)]
        /\ hnames' = [hnames EXCEPT ![s] = Tail(@)]
        /\ UNCHANGED spc
     \/ /\ hnames[s] = <<>>
        /\ spc' = [spc EXCEPT ![s] = "writebuf"]
        /\ UNCHANGED <<aofbuf, hnames>>
  /\ UNCHANGED <<db, exps, readOnly, disk, alive, shrinking, shrinklog, keys, nextkey,
                 keysdone, nextid, idsdone, counters>>

\* Write what is left of the buffer and fsync.
ShrinkWriteBuf(s) ==
  /\ spc[s] = "writebuf"
  /\ disk' = [disk EXCEPT !["shrink"] = @ \o aofbuf[s]]
  /\ aofbuf' = [aofbuf EXCEPT ![s] = <<>>]
  /\ spc' = [spc EXCEPT ![s] = "drain"]
  /\ UNCHANGED <<db, exps, readOnly, alive, shrinking, shrinklog, keys, nextkey,
                 keysdone, nextid, idsdone, hnames, counters>>

\* Take the lock (held until the swap is done) and append the shrink log.
ShrinkDrain(s) ==
  /\ spc[s] = "drain" /\ LockFreeFor(s)
  /\ disk' = [disk EXCEPT !["shrink"] = @ \o shrinklog]
  /\ spc' = [spc EXCEPT ![s] = "backup"]
  /\ UNCHANGED <<db, exps, readOnly, alive, shrinking, shrinklog, counters>>
  /\ UNCHANGED shrinkLocals

\* Close the live AOF and the rewrite; rename live to "-bak".
ShrinkBackup(s) ==
  /\ spc[s] = "backup"
  /\ disk' = [disk EXCEPT !["bak"] = disk["live"], !["live"] = NOFILE]
  /\ spc' = [spc EXCEPT ![s] = "rename"]
  /\ UNCHANGED <<db, exps, readOnly, alive, shrinking, shrinklog, counters>>
  /\ UNCHANGED shrinkLocals

\* Rename "-shrink" to the live name.
ShrinkRename(s) ==
  /\ spc[s] = "rename"
  /\ disk' = [disk EXCEPT !["live"] = disk["shrink"], !["shrink"] = NOFILE]
  /\ spc' = [spc EXCEPT ![s] = "reopen"]
  /\ UNCHANGED <<db, exps, readOnly, alive, shrinking, shrinklog, counters>>
  /\ UNCHANGED shrinkLocals

\* Reopen the live AOF, seek to its end, remove the backup, close the
\* followers' connections, and release the lock.
ShrinkReopen(s) ==
  /\ spc[s] = "reopen"
  /\ disk' = [disk EXCEPT !["bak"] = NOFILE]
  /\ spc' = [spc EXCEPT ![s] = "finish"]
  /\ UNCHANGED <<db, exps, readOnly, alive, shrinking, shrinklog, counters>>
  /\ UNCHANGED shrinkLocals

\* A failed create, write or fsync before the swap: the error is logged and
\* the deferred reset runs; the live AOF is untouched.
ShrinkIOError(s) ==
  /\ spc[s] \in {"create", "flush", "writebuf", "drain"}
  /\ spc' = [spc EXCEPT ![s] = "finish"]
  /\ UNCHANGED <<db, exps, readOnly, disk, alive, shrinking, shrinklog, counters>>
  /\ UNCHANGED shrinkLocals

\* Mutant: a deferred function that only empties the shrink log.
ShrinkFinishKeepsFlag(s) ==
  /\ spc[s] = "finish" /\ LockFreeFor(s)
  /\ shrinklog' = <<>>
  /\ spc' = [spc EXCEPT ![s] = "idle"]
  /\ UNCHANGED <<db, exps, readOnly, disk, alive, shrinking, counters>>
  /\ UNCHANGED shrinkLocals

\* The deferred reset, under the lock.
ShrinkFinish(s) ==
  /\ spc[s] = "finish" /\ LockFreeFor(s)
  /\ shrinking' = FALSE
  /\ shrinklog' = <<>>
  /\ spc' = [spc EXCEPT ![s] = "idle"]
  /\ UNCHANGED <<db, exps, readOnly, disk, alive, counters>>
  /\ UNCHANGED shrinkLocals

ShrinkStep(s) ==
  \/ ShrinkBegin(s) \/ ShrinkCreate(s) \/ ShrinkLoadKeys(s) \/ ShrinkLoadIds(s)
  \/ ShrinkFlush(s) \/ ShrinkHookNames(s) \/ ShrinkHook(s) \/ ShrinkWriteBuf(s)
  \/ ShrinkDrain(s) \/ ShrinkBackup(s) \/ ShrinkRename(s) \/ ShrinkReopen(s)
  \/ ShrinkIOError(s) \/ ShrinkFinish(s)

-----------------------------------------------------------------------------
(* Expiration (expire.go, spec 4.2).                                       *)

\* Wall time passes an id's deadline; nothing else changes.
DeadlinePasses ==
  /\ alive
  /\ \E k \in Keys, i \in Ids :
       /\ exps[k][i] = "live"
       /\ exps' = [exps EXCEPT ![k][i] = "passed"]
  /\ UNCHANGED <<db, readOnly, disk, alive, shrinking, shrinklog, spc, counters>>
  /\ UNCHANGED shrinkLocals

\* The expirer, on its tick, under the exclusive lock: an internal DEL of an
\* id whose deadline has passed, run and journaled like a client's DEL.
BackgroundExpire ==
  /\ alive /\ LockFree
  /\ \E k \in Keys, i \in Ids :
       /\ exps[k][i] = "passed"
       /\ db' = CmdDel(db, k, i)
       /\ exps' = DeadlinesAfter(db, exps, <<"del", k, i>>)
       /\ WriteAOF(<<<<"del", k, i>>>>)
  /\ UNCHANGED <<readOnly, alive, shrinking, spc, counters>>
  /\ UNCHANGED shrinkLocals

-----------------------------------------------------------------------------
(* Crash and restart (ListenAndServeEx).                                   *)

\* The process dies (a kill, or log.Fatal on an AOF or swap error): every
\* goroutine and all memory is gone, the files stay.  db keeps the state
\* clients had been answered for, for the properties to compare with.
Crash ==
  /\ alive
  /\ ncrashes < MaxCrashes
  /\ CrashDuringSwap \/ LockFree
  /\ alive' = FALSE
  /\ ncrashes' = ncrashes + 1
  /\ spc' = [s \in Shrinkers |-> "idle"]
  /\ shrinking' = FALSE
  /\ shrinklog' = <<>>
  /\ UNCHANGED <<db, exps, readOnly, disk, nwrites, nshrinks>>
  /\ UNCHANGED shrinkLocals

\* Startup: open the live AOF with O_CREATE (an empty file if it is
\* missing) and load it.
Restart ==
  /\ ~alive
  /\ LET live == IF disk["live"] = NOFILE THEN <<>> ELSE disk["live"] IN
       /\ disk' = [disk EXCEPT !["live"] = live]
       /\ db' = Replay(live)
       /\ exps' = ReplayDeadlines(live)
  /\ alive' = TRUE
  /\ UNCHANGED <<readOnly, shrinking, shrinklog, spc, counters>>
  /\ UNCHANGED shrinkLocals

-----------------------------------------------------------------------------

Init ==
  /\ disk \in {[f \in Files |-> IF f = "live" THEN l ELSE NOFILE] : l \in InitialAOFs}
  /\ db = Replay(disk["live"])
  /\ exps = ReplayDeadlines(disk["live"])
  /\ readOnly = FALSE
  /\ alive = TRUE
  /\ shrinking = FALSE
  /\ shrinklog = <<>>
  /\ spc = [s \in Shrinkers |-> "idle"]
  /\ keys = [s \in Shrinkers |-> <<>>]
  /\ nextkey = [s \in Shrinkers |-> 0]
  /\ keysdone = [s \in Shrinkers |-> FALSE]
  /\ nextid = [s \in Shrinkers |-> 0]
  /\ idsdone = [s \in Shrinkers |-> FALSE]
  /\ aofbuf = [s \in Shrinkers |-> <<>>]
  /\ hnames = [s \in Shrinkers |-> <<>>]
  /\ nwrites = 0 /\ nshrinks = 0 /\ ncrashes = 0

Next ==
  \/ \E w \in ClientInputs : HandleInputCommand(w)
  \/ \E s \in Shrinkers : AofShrinkCommand(s)
  \/ \E s \in Shrinkers : ShrinkStep(s)
  \/ DeadlinePasses
  \/ BackgroundExpire
  \/ Crash
  \/ Restart

\* The shrink goroutine keeps running while the process does; the mutex
\* lets a waiting Lock() in after the current holder, and the bounded
\* clients leave it free.
Fairness == \A s \in Shrinkers : WF_vars(ShrinkStep(s))

Spec == Init /\ [][Next]_vars /\ Fairness

-----------------------------------------------------------------------------
(* Properties.                                                             *)

Records ==
  {<<"set", k, i, o>> : k \in Keys, i \in Ids, o \in Objects} \cup
  {<<"set", k, i, o, "ex">> : k \in Keys, i \in Ids, o \in Objects} \cup
  {<<c, k, i>> : c \in {"expire", "persist"}, k \in Keys, i \in Ids} \cup
  {<<"jset", k, i>> : k \in Keys, i \in Ids} \cup
  {<<"jdel", k, i>> : k \in Keys, i \in Ids} \cup
  {<<"del", k, i>> : k \in Keys, i \in Ids} \cup
  {<<"pdel", k, p>> : k \in Keys, p \in SUBSET Ids} \cup
  {<<"drop", k>> : k \in Keys} \cup {<<"flushdb">>} \cup
  {<<"sethook", n, d>> : n \in HookNames, d \in HookDefs} \cup
  {<<"delhook", n>> : n \in HookNames} \cup
  {<<"pdelhook", p>> : p \in SUBSET HookNames}

Log == Seq(Records)

TypeOK ==
  /\ db \in StoreType
  /\ exps \in [Keys -> [Ids -> {"none", "live", "passed"}]]
  /\ readOnly \in BOOLEAN /\ alive \in BOOLEAN /\ shrinking \in BOOLEAN
  /\ \A f \in Files : disk[f] = NOFILE \/ disk[f] \in Log
  /\ shrinklog \in Log
  /\ spc \in [Shrinkers -> {"idle", "start", "create", "keys", "ids", "flush",
                             "hooknames", "hooks", "writebuf", "drain", "backup",
                             "rename", "reopen", "finish"}]
  /\ keys \in [Shrinkers -> Seq(Keys)] /\ nextkey \in [Shrinkers -> Nat]
  /\ nextid \in [Shrinkers -> Nat] /\ aofbuf \in [Shrinkers -> Log]
  /\ hnames \in [Shrinkers -> Seq(HookNames)]
  /\ keysdone \in [Shrinkers -> BOOLEAN] /\ idsdone \in [Shrinkers -> BOOLEAN]

\* P1/I2, across shrinks: whenever the process runs and nobody holds the
\* lock, replaying the live AOF from scratch gives the in-memory store, and
\* every id whose deadline is still ahead (or that has none) gets the same
\* on replay.  A write the router does not journal, a shrink that misses a
\* write made while it copied or drops a TTL, or two shrinks sharing the
\* rewrite file break it.
AOFReplaysToStore ==
  alive /\ LockFree =>
    /\ Replay(disk["live"]) = db
    /\ \A k \in Keys, i \in Ids :
         exps[k][i] # "passed" => ReplayDeadlines(disk["live"])[k][i] = exps[k][i]

\* A running shrink always ends and lowers c.shrinking; while it stays up
\* every later AOFSHRINK is a no-op and the shrink log grows without bound.
ShrinkEventuallyEnds == shrinking ~> ~shrinking

\* P4: an id given a deadline is removed once it passes.  So no step but a
\* client's own command (SET without EX, PERSIST) may leave an id in place
\* without its deadline: not the expirer, not a shrink, not a restart that
\* reloads a rewritten AOF.
DeadlinesKept ==
  [][\A k \in Keys, i \in Ids :
       exps[k][i] # "none" /\ exps'[k][i] = "none" /\ db'.cols[k][i] # NONE
         => nwrites' = nwrites + 1]_vars

\* Spec 4.1: in read-only mode every Write-class command (SET, DEL, PDEL,
\* DROP, FLUSHDB, SETHOOK, DELHOOK, PDELHOOK, EXPIRE, PERSIST, JSET, JDEL) is
\* refused with "read only".  With only client commands changing the store
\* (no deadlines, no MASSINSERT), no step of a running read-only server may
\* change it.  The router decides the gate from its own write list
\* (controller.go 493-494), not from the command's effect.
ReadOnlyFreezesStore ==
  [][alive /\ alive' /\ readOnly => db' = db]_vars

=============================================================================
