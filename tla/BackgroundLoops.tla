--------------------------- MODULE BackgroundLoops ---------------------------
(***************************************************************************)
(* The controller's ticker-driven background loops and their shutdown     *)
(* (controller.go ListenAndServeEx, watchAutoGC, watchOutOfMemory,         *)
(* watchLuaStatePool).                                                     *)
(*                                                                         *)
(* Each loop is a goroutine blocked on its ticker's channel ("wait"); a    *)
(* tick runs the loop body once ("body"), which either goes back to wait  *)
(* or returns from the goroutine ("exited").  ListenAndServeEx starts the *)
(* loops and, when the server returns, runs its deferred functions: it    *)
(* raises the stop flags and shuts the Lua pool down.  The heap is a      *)
(* small number; a GC frees some or all of it.                            *)
(***************************************************************************)
EXTENDS Naturals

CONSTANTS
  Loops,       \* the loops checked, a subset of {"autogc", "oom", "lua"}
  AutoGCs,     \* values CONFIG SET autogc may take (seconds; 0 = off)
  MaxMemories, \* values CONFIG SET maxmemory may take (0 = no limit)
  MaxHeap,     \* bound: largest heap size
  MaxElapsed   \* bound: seconds since the last auto GC that are told apart

ASSUME Loops \subseteq {"autogc", "oom", "lua"}
ASSUME AutoGCs \subseteq 0..MaxElapsed /\ MaxMemories \subseteq Nat

VARIABLES
  serving,    \* server.ListenAndServe has not returned
  stop,       \* c.stopWatchingAutoGC, c.stopWatchingMemory
  pc,         \* per loop: "wait", "body" or "exited"
  pool,       \* c.luapool: "open" or "shutdown"
  autoGC,     \* c.config.autoGC()
  maxMemory,  \* c.config.maxMemory()
  heap,       \* mem.HeapAlloc
  since,      \* whole seconds since s, the last auto GC (capped)
  oom         \* c.outOfMemory

vars == <<serving, stop, pc, pool, autoGC, maxMemory, heap, since, oom>>

\* runtime.GC(): frees some of the heap, possibly all of it.
GCd(h) == 0..h

-----------------------------------------------------------------------------
(* The environment: clients allocate and reconfigure.                      *)

\* Client commands allocate memory.
Allocate ==
  /\ serving /\ heap < MaxHeap
  /\ heap' = heap + 1
  /\ UNCHANGED <<serving, stop, pc, pool, autoGC, maxMemory, since, oom>>

\* CONFIG SET autogc / maxmemory.
ConfigSet ==
  /\ serving
  /\ \/ \E v \in AutoGCs : autoGC' = v /\ UNCHANGED maxMemory
     \/ \E v \in MaxMemories : maxMemory' = v /\ UNCHANGED autoGC
  /\ UNCHANGED <<serving, stop, pc, pool, heap, since, oom>>

-----------------------------------------------------------------------------
(* The loops.                                                              *)

\* The ticker delivers: the loop's for range t.C runs its body once.  One
\* second more has passed for watchAutoGC's time.Now().Sub(s).
Tick(l) ==
  /\ pc[l] = "wait"
  /\ pc' = [pc EXCEPT ![l] = "body"]
  /\ since' = IF l = "autogc" /\ since < MaxElapsed THEN since + 1 ELSE since
  /\ UNCHANGED <<serving, stop, pool, autoGC, maxMemory, heap, oom>>

\* watchAutoGC's body: return on the stop flag; skip when autogc is off or
\* less than autogc seconds have passed; otherwise GC and restart s.
AutoGCBody ==
  /\ pc["autogc"] = "body"
  /\ \/ /\ stop["autogc"]
        /\ pc' = [pc EXCEPT !["autogc"] = "exited"]
        /\ UNCHANGED <<heap, since>>
     \/ /\ ~stop["autogc"]
        /\ autoGC = 0 \/ since < autoGC
        /\ pc' = [pc EXCEPT !["autogc"] = "wait"]
        /\ UNCHANGED <<heap, since>>
     \/ /\ ~stop["autogc"]
        /\ autoGC # 0 /\ since >= autoGC
        /\ heap' \in GCd(heap)
        /\ since' = 0
        /\ pc' = [pc EXCEPT !["autogc"] = "wait"]
  /\ UNCHANGED <<serving, stop, pool, autoGC, maxMemory, oom>>

\* watchOutOfMemory's body, the closure run on every tick: its return on
\* the stop flag leaves the closure, not the loop.  With no limit the flag
\* is lowered; otherwise GC first if it is set, then compare the heap.
MemBody ==
  /\ pc["oom"] = "body"
  /\ pc' = [pc EXCEPT !["oom"] = "wait"]
  /\ \/ /\ stop["oom"]
        /\ UNCHANGED <<heap, oom>>
     \/ /\ ~stop["oom"] /\ maxMemory = 0
        /\ oom' = FALSE
        /\ UNCHANGED heap
     \/ /\ ~stop["oom"] /\ maxMemory # 0
        /\ heap' \in IF oom THEN GCd(heap) ELSE {heap}
        /\ oom' = (heap' > maxMemory)
  /\ UNCHANGED <<serving, stop, pool, autoGC, maxMemory, since>>

\* watchLuaStatePool's body: prune the pool; there is no stop flag.
LuaBody ==
  /\ pc["lua"] = "body"
  /\ pc' = [pc EXCEPT !["lua"] = "wait"]
  /\ UNCHANGED <<serving, stop, pool, autoGC, maxMemory, heap, since, oom>>

-----------------------------------------------------------------------------
(* Startup and shutdown (ListenAndServeEx).                                *)

\* server.ListenAndServe returns (a listener error): the deferred functions
\* raise the stop flags and then shut the Lua pool down.
ServerReturns ==
  /\ serving
  /\ serving' = FALSE
  /\ stop' = [l \in {"autogc", "oom"} |-> TRUE]
  /\ pool' = "shutdown"
  /\ UNCHANGED <<pc, autoGC, maxMemory, heap, since, oom>>

\* The pool is created, the config loaded and the loops started.
Init ==
  /\ serving = TRUE
  /\ stop = [l \in {"autogc", "oom"} |-> FALSE]
  /\ pc = [l \in Loops |-> "wait"]
  /\ pool = "open"
  /\ autoGC \in AutoGCs /\ maxMemory \in MaxMemories
  /\ heap = 0 /\ since = 0 /\ oom = FALSE

LoopStep(l) ==
  \/ Tick(l)
  \/ l = "autogc" /\ AutoGCBody
  \/ l = "oom" /\ MemBody
  \/ l = "lua" /\ LuaBody

Next ==
  \/ Allocate \/ ConfigSet \/ ServerReturns
  \/ \E l \in Loops : LoopStep(l)

\* A time.Ticker fires every period and the goroutine is runnable after
\* each tick, so every loop step is weakly fair.  Clients and the server's
\* return get no fairness.
Fairness == \A l \in Loops : WF_vars(LoopStep(l))

Spec == Init /\ [][Next]_vars /\ Fairness

-----------------------------------------------------------------------------
(* Properties.                                                             *)

TypeOK ==
  /\ serving \in BOOLEAN /\ oom \in BOOLEAN
  /\ stop \in [{"autogc", "oom"} -> BOOLEAN]
  /\ pc \in [Loops -> {"wait", "body", "exited"}]
  /\ pool \in {"open", "shutdown"}
  /\ heap \in 0..MaxHeap /\ since \in 0..MaxElapsed

\* Spec section 5: background loops exit promptly on their stop flag.  Once
\* ListenAndServeEx has returned and run its deferred functions, every
\* loop's goroutine eventually returns, so no ticker keeps firing and no
\* loop keeps using the Lua pool that was shut down.
LoopsExitOnStop == \A l \in Loops : ~serving ~> pc[l] = "exited"

=============================================================================
