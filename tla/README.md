# TLA+ models of the Tile38 controller

These modules model the parts of the Tile38 server (`src/`) where
concurrency, crashes and cursors make correctness hard to test: the write
path and its append-only file (AOF), the live AOF rewrite (`AOFSHRINK`), the
durable webhook queue, and the scan writer behind `SCAN` and `SEARCH`.
`PROJECT.json` lists every component, run, mutant, finding and hazard, and
maps each definition to the source lines it translates.

## The system

* **Command router** (`controller.go handleInputCommand`). Each command
  takes `c.mu`. Writes (`set`, `del`, `drop`, `sethook`, ...) take the
  exclusive lock, pass the leader and read-only gates, run, and are appended
  to the AOF by `writeAOF`. A write error is fatal (`log.Fatal`). Reads take
  the shared lock. `AOFSHRINK` also takes the shared lock, but it only starts
  `go c.aofshrink()`.
* **Store** (`controller.go command`, `hooks.go cmdSetHook/cmdDelHook/
  cmdPDelHook`). This is the set of collections (key → id → object) and the
  hook registry.
* **AOF shrink** (`aofshrink.go`). It runs alongside clients and rewrites the
  AOF from memory. Under short lock sections it copies keys in batches of
  `maxkeys`, and each key's ids in batches of `maxids`, then the hooks. While
  `c.shrinking` is set, `writeAOF` also appends every write to
  `c.shrinklog`. The shrinker drains that log under the lock. Still holding
  the lock, it then swaps the files: live→`-bak`, `-shrink`→live, reopen, and
  remove `-bak`.
* **Startup** (`ListenAndServeEx`). It opens the AOF with `O_CREATE`, loads
  it and reopens the hook queue.
* **Expiration** (`expire.go`, not in `src/`; spec 4.2). `SET ... EX` and
  `EXPIRE` give an id a deadline in `c.expires`. The expirer deletes ids
  whose deadline has passed with an internal `DEL`, under the lock and
  journaled. A shrink copies an id with `ex <seconds left>` only while its
  deadline is still ahead (`aofshrink.go` line 696).
* **Hooks** (`hooks.go`). A write that matches a hook appends a payload to
  the durable queue (`queue.db`, a buntdb with a TTL) and signals the hook.
  Each hook object runs a `manager` goroutine. The manager waits on a
  condition variable and calls `proc`. `proc` deletes the hook's pending
  payloads in one transaction, sends them to the endpoints in order, and
  reinserts the unsent rest with its remaining TTL. `SETHOOK` with a
  different definition closes the old object (waiting on `h.mu`) and opens
  a new one.
* **Scan writer** (`scanner.go`, `scan.go`, `search.go`). It matches each
  object against the glob and the WHERE/WHEREIN/WHEREEVAL clauses, skips
  `cursor` matches, and stops at `limit`. It then writes the next cursor,
  which is 0 after the last page. Both commands take a `COUNT` fast path
  when the query has no clauses. `NEARBY` without an area is a KNN query
  (`nearestNeighbors`): it collects the first `cursor+limit` matches in
  distance order, sorts them and writes them through the same writer,
  skipping expired ids. `NEARBY` with a radius, `WITHIN` and `INTERSECTS`
  walk the spatial index and skip expired ids too.
* **GeoJSON objects** (`pkg/geojson`). `SET ... OBJECT` parses a GeoJSON
  object. A `LineString` needs two positions. A `GeometryCollection` holds
  parsed members, and a `Feature` holds one parsed geometry plus its raw
  `id` and `properties`, packed into one string by `makeCompositeRaw`. Each
  object keeps a bounding box, either its `bbox` member or one calculated at
  parse time, and the index files the object under that box. `WITHIN`,
  `INTERSECTS` and `NEARBY` then ask the object `WithinBBox`,
  `IntersectsBBox`, `WithinCircle` or `IntersectsCircle`.
* **Background loops** (`controller.go`). `ListenAndServeEx` starts
  `watchAutoGC` (1 s ticker), `watchOutOfMemory` (2 s) and
  `watchLuaStatePool` (10 s). When `server.ListenAndServe` returns, its
  deferred functions raise the stop flags and shut the Lua pool down.
  `watchAutoGC` forces a GC every `autogc` seconds. `watchOutOfMemory` sets
  `c.outOfMemory` when the heap exceeds `maxmemory`, with a GC first if the
  flag was already set, and clears it when there is no limit.
* **Developer commands** (`dev.go`, `--dev` only). `MASSINSERT` runs a `SET`
  for every key and point under the exclusive lock, writing each to the AOF.
  It passes no leader or read-only gate. `SHUTDOWN` is `log.Fatal`.

## Modules

| module | models | state ↔ code |
|---|---|---|
| `ControllerStore` | the store and the effect of every command on it, `Replay` (loadAOF) | `cols`, `hooks` ↔ `c.cols`, `c.hooks`; `Command` ↔ `c.command` |
| `AOF` | router, writeAOF, READONLY, aofshrink, expiration, crash and restart | `db`, `exps` (per id: no deadline, deadline ahead, deadline passed ↔ `c.expires` against the clock), `readOnly`, `disk` (live/shrink/bak files), `shrinking`, `shrinklog`, per-shrinker `spc` and locals (`keys`, `nextkey`, `nextid`, `aofbuf`, `hnames`) |
| `DurableStore` | the abstract promise: a store changed only by executed writes, and kept across crashes | `store`, `up` |
| `MC_AOF` | small constants, input sets, and the refinement `DurableRefinement` of `DurableStore` | `store <- db`, `up <- alive` |
| `HookQueue` | hook objects, manager/proc, queue.db with TTL, SETHOOK/DELHOOK, writers, crash and restart | `qdb` ↔ queue.db, `reg` ↔ `c.hooks`, `mpc` ↔ the manager/proc pc, `closed`, `inflight` (payloads taken by proc), `wpc` (a writer waiting on `h.mu`), `sent` (endpoint log) |
| `GeoJSON` | fillLineString, fillGeometryCollectionMap, fillFeatureMap, CalculatedBBox, the four predicates of the three types, makeCompositeRaw, getRaw | `g` ↔ the object objectMap has just returned, `input` ↔ the raw `id` and `properties` members it was parsed from |
| `MC_GeoJSON` | a 3x3 grid around (0, 0), four line inputs (one with a single position), and a `bbox` member that does not cover every line | |
| `BackgroundLoops` | ListenAndServeEx's start and deferred shutdown, watchAutoGC, watchOutOfMemory, watchLuaStatePool | `pc` ↔ each goroutine blocked on `t.C`, running its body, or returned; `stop` ↔ `stopWatchingAutoGC`/`stopWatchingMemory`; `pool` ↔ `c.luapool` open or shut down; `since` ↔ `time.Now().Sub(s)` in seconds; `heap`, `oom`, `autoGC`, `maxMemory` |
| `ScanWriter` | newScanWriter, globMatch, fieldMatch, writeObject, writeFoot, cmdScan, cmdSearch, cmdNearby, nearestNeighbors, cmdWithinOrIntersects, and a client following the cursor | `col`, `q`, `cursor`, `seen`, `counts`, `pages`; `sorder` ↔ the spatial index's iteration order |

In `AOF`, each client command, and each shrinker step between two lock
operations, is one action. The swap holds the lock across the pcs in
`SwapPcs`, and `LockFree` keeps every other locked step disabled meanwhile.
A crash can fall between any two actions. It is allowed inside the swap only
when `CrashDuringSwap`, which stands for `log.Fatalf` on a failed rename or
a killed process. `Restart` replays the live file, or an empty one if the
file is missing (`O_CREATE`).

In `ScanWriter` the geometry is abstracted. An object's `val` is its
position, a query's `area` is the set of positions inside its circle, bounds
or shape, and KNN visits objects by increasing `val`, keeping the index's
order for ties. An object's `exp` flag is `hasExpired`. Integer arithmetic on
`sw.limit` is taken modulo `2^Width`, and `GoInt` converts to a signed int.
The runs use `Width = 8` (MaxUint64 becomes 255). The wrap-around is the same
at any width once the limit is the largest value.

In `GeoJSON` a position is a point of a small integer grid. `DistanceTo`
becomes the squared distance, and meters become a radius compared by
squares. The parser builds objects bottom-up. A collection's members and a
feature's geometry are lines of `LineInputs` or the object built just
before. Nesting goes up to `MaxDepth`. A member that fails to parse is
`NONE`, which makes the parent fail too. `objectMap` is not under `src/`; it
is assumed to refuse a Feature as a member or as a feature's geometry, as
GeoJSON does. The poly library's rectangle tests, `SegmentIntersectsCircle`
and `stripWhitespace` are also outside `src/`, so they are modelled from
what they compute and marked `spec_modelled`. Bytes of `idprops` range over
`0..ByteMax`, where `ByteMax = 3` stands for 0xFF. So an id of 3 bytes is
at the switch to the long form, just as a 255-byte id is in the code.

`MASSINSERT` is one `AOF` action. It applies `CmdMassInsert` (a `SET` for
each key and point) and appends every record to the live file and, while a
shrink runs, to the shrink log.

`writeAOF` and `loadAOF`, and the handlers of `SET`, `DEL`, `PDEL`, `DROP`,
`FLUSHDB`, `JSET` and `JDEL`, are not in `src/`. They are modelled from the
spec and marked `spec_modelled`. So is `Notify`, the enqueue and signal of a
hook payload.

## Runs

| run | cfg | expect | what it shows |
|---|---|---|---|
| aof_safety | MC_AOF.cfg | pass | Two shrinkers, writes between the shrinker's batches, a `MASSINSERT`, `SET EX`, `PERSIST`, deadlines passing and the expirer's DEL, I/O errors and crashes whenever no lock is held. Replaying the live AOF always gives the store and every deadline that is still ahead (`AOFReplaysToStore`), and every shrink ends and lowers `c.shrinking`, the second `AOFSHRINK`'s early return included (`ShrinkEventuallyEnds`). |
| aof_durability | MC_AOF_durability.cfg | violation | `DurableRefinement` fails in two ways. JDEL is not in the write list, so it is never journaled and a restart loses it. A crash between the two renames of the swap restarts on an empty AOF. |
| aof_readonly | MC_AOF_readonly.cfg | violation | `ReadOnlyFreezesStore`: after `READONLY yes`, a `JDEL` still removes a path from an object. Spec 4.1 puts JDEL among the Write commands that read-only mode refuses; the router's write list, which decides the gate, omits it. |
| aof_expiry | MC_AOF_expiry.cfg | violation | `DeadlinesKept`: a `SET EX` whose deadline passes while the shrinker copies its key is rewritten without `ex`; a crash after the swap and before the expirer's DEL restarts with the object and no deadline, so it never expires (spec P4). |
| hook_delivery | MC_HookQueue.cfg | pass | One hook: payloads are sent in commit order, and no payload waits forever while its hook exists (`NoLostWakeup`). A command that holds `c.mu` and waits for a hook's `h.mu`, which proc holds across its sends, is eventually let through (`WriterEventuallyServed`). How long the wait lasts, the send time, is not modelled. |
| hook_cross | MC_HookQueue_cross.cfg | violation | Two hooks: proc's `AscendGreaterOrEqual` takes the other hook's payloads, so a hook's payloads can also leave out of commit order. |
| hook_loss | MC_HookQueue_loss.cfg | violation | Payloads are deleted before they are sent, so a crash or a failed reinsert loses them before their TTL. |
| scan_paging | MC_ScanWriter.cfg | pass | Following the cursor returns each selected record exactly once, in order, and the client finishes within `Cardinality(Ids)+1` pages. |
| scan_count | MC_ScanWriter_count.cfg | violation | The COUNT fast paths ignore WHEREEVAL (SCAN) and WHEREIN (SEARCH), a scanning COUNT includes the records the cursor skipped, and KNN `COUNT` with `LIMIT 0` computes `int(cursor + MaxUint64) = -1` and counts at most one neighbour. |
| scan_knn_expired | MC_ScanWriter_knnexpired.cfg | violation | KNN counts an expired neighbour toward `cursor+limit` and then skips it, so the page is short, its cursor is 0 and paging ends early. |
| loops_stop | MC_BackgroundLoops.cfg | violation | `LoopsExitOnStop`: after the server returns, `watchAutoGC` exits at its next tick. `watchOutOfMemory` never exits, because its stop-flag `return` leaves only the per-tick closure. `watchLuaStatePool` has no stop flag and keeps pruning the pool that was shut down. |
| geo_predicates | MC_GeoJSON.cfg | pass | For every object built, `WithinBBox` or `IntersectsBBox` never accepts a rectangle that the calculated box is not inside or does not meet (`PredicatesAgreeWithBBox`). Being within a rectangle or a circle implies intersecting it, the empty collection included (`WithinImpliesIntersects`). `getRaw` reads back the stripped id and properties for ids on both sides of the one-byte length (`CompositeRawRoundTrip`). |

`aof_durability` includes a JDEL among the inputs and lets the process die
during the swap. TLC reports the shorter JDEL trace. With
`ClientInputs <- MCClientInputs` it reports only the swap crash, and with
`CrashDuringSwap = FALSE` only the JDEL.

`scan_count` sets `Queries` to the union of three query sets, and TLC reports
the first defect it meets. `Queries <- MCCountFilterQueries`,
`MCCountCursorQueries` or `MCKnnCountQueries` alone makes the same property
fail for each defect separately.

`scan_paging` checks KNN and spatial queries with no expired objects, because
with one the KNN defect above breaks `PagesListEachMatchOnce`. `aof_readonly`
leaves `MASSINSERT` and deadlines out: `MASSINSERT` bypasses the read-only
gate, which the spec asks only of the Write commands, and the expirer's DEL
is not a client command. Its inputs are otherwise only Write commands and
`READONLY`, so the one input the gate can miss is the `JDEL`.

`aof_safety` runs without crashes inside the swap (`CrashDuringSwap =
FALSE`) and without symmetry, because TLC's liveness check is not sound
under symmetry; it starts from the populated AOF only and uses seven inputs
so that it finishes in about two minutes. A crash inside the swap cannot
break its two properties: `Restart` rebuilds the store from whatever file is
left. That crash is what `aof_durability` is about. `DurableRefinement` is
not checked in a passing run: with crashes only outside the swap it follows
from `AOFReplaysToStore` and `Restart`.

Each property of a passing run has a mutant in `PROJECT.json`. A mutant is a
plausible bug in a mapped definition, and TLC finds the property violated
when the mutant is in place. Examples: a `writeAOF` that forgets the shrink
log, a cursor test off by one, a manager that misses a signal.

## Bounds

* **AOF.**
  * Two keys, two ids, one hook name and two shrinkers (one in the violation
    runs).
  * `maxkeys = maxids = maxchunk = 1`, so a key, an id and a flush each take
    their own locked step, and every client write can land between them.
  * Two client writes, two shrinks and one crash are enough for the cases
    the properties are about:
    * a write during the key batch, the id batch, the hooks or the drain;
    * a second shrink that sees the flag set;
    * a crash in each phase.
  * Deadlines have three states: none, ahead and passed. A replayed `ex`
    counts from load time, so it is always ahead. That is all `SetRecord`
    (line 696) and `DeadlinesKept` tell apart. `aof_safety` adds one
    `SET EX` and a `PERSIST` of it. `aof_expiry` has only those two inputs.
  * `EXPIRE` is not among the checked inputs. If `writeAOF` journals an
    `EXPIRE` of an id that does not exist, the shrink log re-applies it on
    top of a later snapshot in which a `JSET` created the id. The id then
    gets a deadline it never had. `writeAOF` and `cmdExpire` are not in
    `src/`, so whether this can happen is unknown, and it is not listed as
    a hazard of this code.
* **Hooks.**
  * One hook name (two for the cross-hook runs), and three hook objects
    (generations), so that a replace and a re-create each happen.
  * Three payloads, TTL 2 with two clock ticks (so a payload can expire
    during a retry), and one crash.
* **GeoJSON.**
  * Coordinates are -1..1, so the zero box at (0, 0) lies inside the grid.
  * The lines include a diagonal, a line along an edge, a short one, and
    one that is invalid. A `bbox` member of [(0,0),(1,1)] misses some of
    them.
  * Nesting goes to depth 3: a feature of a collection of a collection.
    Collections have 0, 1 or 2 members.
  * Ids are up to 4 bytes over one letter and one whitespace byte, with
    properties of up to 1 byte.
  * The properties quantify over all 36 rectangles of the grid, and over
    every center with radii 1 and 2.
* **Scan.**
  * Every collection of up to three objects over two values and two field
    values.
  * Queries take every glob kind (all, a single literal, a pattern), and
    clauses that are absent, reject field value 0, or accept everything.
  * Limits are 0 (the default), 1 and 2, and starting cursors 0, 1 and 2.
  * This covers a page that is exactly full, a page with nothing after it,
    a cursor past the last match, and a literal glob that stops the scan.
  * Spatial queries take areas of one and two values, and KNN limits 0, 1
    and 2 with cursors 0 and 1. `sorder` ranges over every order of the
    members, so any index order is checked. Two objects with the same value
    give a tie in KNN.
* **Background loops.**
  * All three loops are present.
  * `autogc` takes the values 0 and 2. Two seconds are told apart, so both
    an off setting and a GC after two ticks happen.
  * `maxmemory` takes the values 0 and 1, and the heap goes up to 2, so the
    flag can rise, be cleared with no limit, and be lowered by a GC.
  * The exit property is about the ticks after the stop flags are raised,
    which these values do not affect. With `Loops = {"autogc"}` the run
    passes. With `{"oom"}` or `{"lua"}` alone it fails.

## Fairness

* **AOF.** Each shrinker is weakly fair (`WF` on `ShrinkStep`). Once
  started, the goroutine runs to completion unless the process dies. Clients
  and crashes get no fairness. The clock (`DeadlinePasses`) and the expirer
  (`BackgroundExpire`) get none either. `DeadlinesKept` is a safety property,
  and the refinement allows the expirer's DEL whenever it happens.
* **HookQueue.**
  * The manager's steps (`ProcTake`, `ProcSend`) are weakly fair per hook
    object: the goroutine is always runnable once signalled.
  * The writer's `Signal`, `Close` and replace, each waiting on `h.mu`, are
    strongly fair. The mutex is released between every two `proc` runs, and
    Go's mutex starvation mode hands it to a waiter.
* **BackgroundLoops.** Each loop's step is weakly fair: its ticker fires
  every period, and the goroutine is then runnable. The server's return,
  the clients' allocations and `CONFIG SET` get no fairness.
* **ScanWriter.** The client is weakly fair, so it keeps paging.

## Not modelled

* In `pkg/geojson`: object-vs-object `Within`/`Intersects` (polygon
  clipping in the poly library), `Geohash`, JSON output, `PositionCount`,
  `Weight`, and lines of more than two positions (the poly library's ring
  semantics for them are not in the repository). The other geometry types
  are not under `src/`. An empty collection is filed at (0, 0); this is
  listed as a hazard without a property, because the index is a black box.
* Shape parsing in `cmdSearchArgs`, `SPARSE`, the `WHERE z` range, and `FENCE`.
* Field values beyond one tested field, and output text formats.
* Lua evaluation: WHEREEVAL is abstracted to the set of values it accepts.
* `CLIENT`, `AUTH` and `SLEEP`. The authentication gate is per connection
  and is independent of the store and the AOF. Its one hazard, a session
  that outlives a password change, is listed without a property.
* The OOM rejection of writes. The handlers that read `c.outOfMemory` are
  not in `src/`. `BackgroundLoops` keeps the watcher's control of the flag,
  but no property is stated about the flag's value, only about the loops'
  exit.
* Replication: `follow.go` is not in `src/`. The catching-up gate is a
  hazard with a note. Expiration is modelled from the spec (see `AOF`). The
  expirer's per-tick limit and its sorted list are not modelled, and neither
  are the expiry's `TTL` reads.

## Plan for later sittings

* Bound the time a writer waits on `h.mu` in `HookQueue`, counted in
  endpoint sends.
* Add FSET to `ControllerStore`. This would check that `SetRecord` keeps
  the fields across a shrink.
* Model the `SEARCH DESC` order in `ScanWriter`.
* Model the leader/follower gate of the router, from the spec.
* Model the router's authentication gate per connection, with `CONFIG SET
  requirepass` from another connection.
