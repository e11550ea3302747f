------------------------------ MODULE HookQueue ------------------------------
(***************************************************************************)
(* Hook delivery (hooks.go): the durable queue in queue.db, each hook's    *)
(* manager goroutine and its proc, SETHOOK / DELHOOK replacing and closing *)
(* hooks, the writer that queues payloads and signals the hook, the queue  *)
(* TTL, and process crashes.                                               *)
(*                                                                         *)
(* A hook object is a pair <<name, generation>>: SETHOOK with a different  *)
(* definition and every restart make a new object of the same name, with   *)
(* its own mutex h.mu, cond, closed flag and manager.  The manager holds   *)
(* h.mu for the whole of proc, its sends included; Signal and Close take   *)
(* h.mu, so they wait for a running proc.                                  *)
(*                                                                         *)
(* A queue entry is [idx, hook, ttl]: its key hook:log:<idx>, the "hook"   *)
(* field the queue's "hooks" index orders by, and the ticks of its TTL     *)
(* that remain.  Time is the Tick action; nothing forces it to pass.       *)
(***************************************************************************)
EXTENDS Naturals, Sequences, SequencesExt, FiniteSets

CONSTANTS
  HookNames,   \* hook names (naturals: the index compares them in order)
  HookDefs,    \* definitions (endpoints, metas, fence command), model values
  NONE,        \* no hook of that name
  TTL,         \* hookLogSetDefaults.TTL (30 s), in ticks
  MaxMsgs,     \* bound: payloads queued
  MaxGen,      \* bound: hook objects per name (replacements and restarts)
  MaxTicks,    \* bound: ticks of the clock
  MaxCrashes   \* bound: process crashes

ASSUME HookNames \subseteq Nat /\ TTL \in Nat \ {0}

VARIABLES
  qdb,       \* entries in queue.db (persisted)
  reg,       \* c.hooks: name -> [def, gen] or NONE
  nextgen,   \* generation of the next hook object of each name
  mpc,       \* manager of each hook object: none, top, send, wait, exited
  closed,    \* h.closed
  inflight,  \* proc's keys/vals/ttls: entries taken and not yet sent
  wpc,       \* the writer holding c.mu: idle or the hook call it waits in
  alive,     \* the process runs
  nidx,      \* hook:idx, the last queue index handed out
  sent,      \* history: [idx, hook, by] for every successful send
  expired,   \* history: indexes dropped because their TTL ran out
  ticks, ncrashes

vars == <<qdb, reg, nextgen, mpc, closed, inflight, wpc, alive, nidx, sent,
          expired, ticks, ncrashes>>

Gens == 1..MaxGen
Objs == HookNames \X Gens
Entry == [idx : 1..MaxMsgs, hook : HookNames, ttl : 0..TTL]

\* buntdb's "hooks" index: by the JSON "hook" field, then by key (hook:log:
\* followed by the zero-padded index).
IndexLess(a, b) == a.hook < b.hook \/ (a.hook = b.hook /\ a.idx < b.idx)

\* Mutant: a manager that sleeps after a failed proc without unlocking.
MuFreeOnlyInWait(h) == mpc[h] \in {"none", "wait", "exited"}

\* proc holds h.mu from the queue transaction until it returns.
MuFree(h) == mpc[h] # "send"

\* cond.Broadcast: a manager blocked in cond.Wait wakes to the loop top.
Woken(h) == IF mpc[h] = "wait" THEN "top" ELSE mpc[h]

-----------------------------------------------------------------------------
(* The hook goroutine: manager and proc.                                   *)

\* The entries proc's AscendGreaterOrEqual("hooks", {"hook":name}) visits.
ProcQuery(h) == {e \in qdb : e.hook >= h[1]}

\* manager: lock h.mu; leave if closed; else run proc's first transaction,
\* which reads and deletes every entry the query visits.  With nothing to
\* send proc returns true and the manager waits on the cond.
ProcTake(h) ==
  /\ alive /\ mpc[h] = "top"
  /\ \/ /\ closed[h]
        /\ mpc' = [mpc EXCEPT ![h] = "exited"]
        /\ UNCHANGED <<qdb, inflight>>
     \/ /\ ~closed[h]
        /\ LET es == ProcQuery(h) IN
             /\ inflight' = [inflight EXCEPT ![h] = SetToSortSeq(es, IndexLess)]
             /\ qdb' = qdb \ es
             /\ mpc' = [mpc EXCEPT ![h] = IF es = {} THEN "wait" ELSE "send"]
  /\ UNCHANGED <<reg, nextgen, closed, wpc, alive, nidx, sent, expired, ticks,
                 ncrashes>>

\* Mutant: reinsert without the ttl > 0 check.
ReinsertAll(h) == Range(inflight[h])

\* proc, after a failed send: the entries from the failed one on, with the
\* TTL they had minus the time proc has run, those still positive.
Reinsert(h) == {e \in Range(inflight[h]) : e.ttl > 0}

\* The send loop: each endpoint in turn until one takes the payload.  On
\* success go to the next entry (proc returns true after the last); when
\* every endpoint fails, reinsert the rest in one transaction, return false,
\* unlock and sleep a quarter second.  The reinsert transaction's error is
\* ignored: its entries are then gone.
ProcSend(h) ==
  /\ alive /\ mpc[h] = "send"
  /\ LET e == Head(inflight[h]) IN
       \/ /\ sent' = Append(sent, [idx |-> e.idx, hook |-> e.hook, by |-> h[1]])
          /\ inflight' = [inflight EXCEPT ![h] = Tail(@)]
          /\ mpc' = [mpc EXCEPT ![h] = IF Tail(inflight[h]) = <<>> THEN "wait" ELSE "send"]
          /\ UNCHANGED <<qdb, expired>>
       \/ /\ qdb' = qdb \cup Reinsert(h)
          /\ expired' = expired \cup {x.idx : x \in Range(inflight[h]) \ Reinsert(h)}
          /\ inflight' = [inflight EXCEPT ![h] = <<>>]
          /\ mpc' = [mpc EXCEPT ![h] = "top"]
          /\ UNCHANGED sent
       \/ /\ inflight' = [inflight EXCEPT ![h] = <<>>]
          /\ mpc' = [mpc EXCEPT ![h] = "top"]
          /\ UNCHANGED <<qdb, sent, expired>>
  /\ UNCHANGED <<reg, nextgen, closed, wpc, alive, nidx, ticks, ncrashes>>

-----------------------------------------------------------------------------
(* The writer: a command holding c.mu that calls into a hook.              *)

\* Mutant: queue the payload without signalling the hook.
NotifyNoSignal(n) ==
  /\ alive /\ wpc = <<"idle">> /\ reg[n] # NONE
  /\ nidx < MaxMsgs
  /\ nidx' = nidx + 1
  /\ qdb' = qdb \cup {[idx |-> nidx + 1, hook |-> n, ttl |-> TTL]}
  /\ UNCHANGED <<wpc, reg, nextgen, mpc, closed, inflight, alive, sent, expired,
                 ticks, ncrashes>>

\* writeAOF queues a payload for a hook whose fence the write matched, in
\* one queue transaction, then calls h.Signal(), which waits for h.mu.
Notify(n) ==
  /\ alive /\ wpc = <<"idle">> /\ reg[n] # NONE
  /\ nidx < MaxMsgs
  /\ nidx' = nidx + 1
  /\ qdb' = qdb \cup {[idx |-> nidx + 1, hook |-> n, ttl |-> TTL]}
  /\ wpc' = <<"signal", <<n, reg[n].gen>>>>
  /\ UNCHANGED <<reg, nextgen, mpc, closed, inflight, alive, sent, expired, ticks,
                 ncrashes>>

\* A new hook object of name n with definition d, opened: its manager starts.
OpenHook(n, d) ==
  /\ reg' = [reg EXCEPT ![n] = [def |-> d, gen |-> nextgen[n]]]
  /\ mpc' = [mpc EXCEPT ![<<n, nextgen[n]>>] = "top"]
  /\ nextgen' = [nextgen EXCEPT ![n] = @ + 1]

\* cmdSetHook: an equal hook is only signalled; a different one is closed
\* and replaced; a new name is registered and opened.
SetHookCmd(n, d) ==
  /\ alive /\ wpc = <<"idle">>
  /\ \/ /\ reg[n] # NONE /\ reg[n].def = d
        /\ wpc' = <<"signal", <<n, reg[n].gen>>>>
        /\ UNCHANGED <<reg, nextgen, mpc>>
     \/ /\ reg[n] # NONE /\ reg[n].def # d /\ nextgen[n] <= MaxGen
        /\ wpc' = <<"replace", <<n, reg[n].gen>>, d>>
        /\ UNCHANGED <<reg, nextgen, mpc>>
     \/ /\ reg[n] = NONE /\ nextgen[n] <= MaxGen
        /\ OpenHook(n, d)
        /\ UNCHANGED wpc
  /\ UNCHANGED <<qdb, closed, inflight, alive, nidx, sent, expired, ticks, ncrashes>>

\* cmdDelHook: close the hook and remove it.
DelHookCmd(n) ==
  /\ alive /\ wpc = <<"idle">> /\ reg[n] # NONE
  /\ wpc' = <<"close", <<n, reg[n].gen>>>>
  /\ UNCHANGED <<qdb, reg, nextgen, mpc, closed, inflight, alive, nidx, sent,
                 expired, ticks, ncrashes>>

\* h.Signal(): once h.mu is free, broadcast.
WriterSignal ==
  /\ alive /\ wpc[1] = "signal" /\ MuFree(wpc[2])
  /\ mpc' = [mpc EXCEPT ![wpc[2]] = Woken(wpc[2])]
  /\ wpc' = <<"idle">>
  /\ UNCHANGED <<qdb, reg, nextgen, closed, inflight, alive, nidx, sent, expired,
                 ticks, ncrashes>>

\* h.Close() once h.mu is free, then the hook leaves c.hooks.
WriterClose ==
  /\ alive /\ wpc[1] = "close" /\ MuFree(wpc[2])
  /\ closed' = [closed EXCEPT ![wpc[2]] = TRUE]
  /\ mpc' = [mpc EXCEPT ![wpc[2]] = Woken(wpc[2])]
  /\ reg' = [reg EXCEPT ![wpc[2][1]] = NONE]
  /\ wpc' = <<"idle">>
  /\ UNCHANGED <<qdb, nextgen, inflight, alive, nidx, sent, expired, ticks,
                 ncrashes>>

\* Mutant: a replacement that closes the old hook without taking its h.mu.
WriterReplaceNoWait ==
  /\ alive /\ wpc[1] = "replace"
  /\ LET old == wpc[2]  n == old[1] IN
       /\ closed' = [closed EXCEPT ![old] = TRUE]
       /\ reg' = [reg EXCEPT ![n] = [def |-> wpc[3], gen |-> nextgen[n]]]
       /\ mpc' = [mpc EXCEPT ![old] = Woken(old), ![<<n, nextgen[n]>>] = "top"]
       /\ nextgen' = [nextgen EXCEPT ![n] = @ + 1]
  /\ wpc' = <<"idle">>
  /\ UNCHANGED <<qdb, inflight, alive, nidx, sent, expired, ticks, ncrashes>>

\* SETHOOK replacing a hook: h.Close() once h.mu is free, then the new
\* hook object is registered and opened.
WriterReplace ==
  /\ alive /\ wpc[1] = "replace" /\ MuFree(wpc[2])
  /\ LET old == wpc[2]  n == old[1] IN
       /\ closed' = [closed EXCEPT ![old] = TRUE]
       /\ reg' = [reg EXCEPT ![n] = [def |-> wpc[3], gen |-> nextgen[n]]]
       /\ mpc' = [mpc EXCEPT ![old] = Woken(old), ![<<n, nextgen[n]>>] = "top"]
       /\ nextgen' = [nextgen EXCEPT ![n] = @ + 1]
  /\ wpc' = <<"idle">>
  /\ UNCHANGED <<qdb, inflight, alive, nidx, sent, expired, ticks, ncrashes>>

-----------------------------------------------------------------------------
(* Time, crash and restart.                                                *)

\* One tick: every TTL, in the queue and in proc's ttls, runs down; buntdb
\* drops a queue entry whose TTL has run out.
Tick ==
  /\ ticks < MaxTicks
  /\ ticks' = ticks + 1
  /\ LET older(e) == [e EXCEPT !.ttl = IF @ > 0 THEN @ - 1 ELSE 0] IN
       /\ qdb' = {older(e) : e \in {x \in qdb : x.ttl > 1}}
       /\ expired' = expired \cup {x.idx : x \in {y \in qdb : y.ttl <= 1}}
       /\ inflight' = [h \in Objs |-> [j \in DOMAIN inflight[h] |-> older(inflight[h][j])]]
  /\ UNCHANGED <<reg, nextgen, mpc, closed, wpc, alive, nidx, sent, ncrashes>>

\* The process dies: goroutines and memory go, queue.db stays.
Crash ==
  /\ alive /\ ncrashes < MaxCrashes
  /\ alive' = FALSE
  /\ ncrashes' = ncrashes + 1
  /\ mpc' = [h \in Objs |-> IF mpc[h] = "none" THEN "none" ELSE "exited"]
  /\ inflight' = [h \in Objs |-> <<>>]
  /\ wpc' = <<"idle">>
  /\ UNCHANGED <<qdb, reg, nextgen, closed, nidx, sent, expired, ticks>>

\* Startup: loadAOF replays the SETHOOKs, each opening a new hook object;
\* the queue and hook:idx are read back from queue.db.
Restart ==
  /\ ~alive /\ \A n \in HookNames : reg[n] # NONE => nextgen[n] <= MaxGen
  /\ alive' = TRUE
  /\ reg' = [n \in HookNames |->
               IF reg[n] = NONE THEN NONE ELSE [def |-> reg[n].def, gen |-> nextgen[n]]]
  /\ mpc' = [h \in Objs |-> IF reg[h[1]] # NONE /\ h[2] = nextgen[h[1]]
                              THEN "top" ELSE mpc[h]]
  /\ nextgen' = [n \in HookNames |-> IF reg[n] = NONE THEN nextgen[n] ELSE nextgen[n] + 1]
  /\ UNCHANGED <<qdb, closed, inflight, wpc, nidx, sent, expired, ticks, ncrashes>>

-----------------------------------------------------------------------------

Init ==
  /\ qdb = {}
  /\ reg = [n \in HookNames |-> NONE]
  /\ nextgen = [n \in HookNames |-> 1]
  /\ mpc = [h \in Objs |-> "none"]
  /\ closed = [h \in Objs |-> FALSE]
  /\ inflight = [h \in Objs |-> <<>>]
  /\ wpc = <<"idle">>
  /\ alive = TRUE
  /\ nidx = 0 /\ sent = <<>> /\ expired = {}
  /\ ticks = 0 /\ ncrashes = 0

Next ==
  \/ \E h \in Objs : ProcTake(h) \/ ProcSend(h)
  \/ \E n \in HookNames : Notify(n) \/ DelHookCmd(n)
  \/ \E n \in HookNames, d \in HookDefs : SetHookCmd(n, d)
  \/ WriterSignal \/ WriterClose \/ WriterReplace
  \/ Tick \/ Crash \/ Restart

\* Every goroutine runs: each manager keeps stepping (WF), and a writer
\* blocked in h.mu.Lock() gets the mutex, which Go's starvation mode hands
\* over even while the manager keeps retaking it (SF).  Time, clients and
\* crashes are not forced.
Fairness ==
  /\ \A h \in Objs : WF_vars(ProcTake(h)) /\ WF_vars(ProcSend(h))
  /\ SF_vars(WriterSignal) /\ SF_vars(WriterClose) /\ SF_vars(WriterReplace)

Spec == Init /\ [][Next]_vars /\ Fairness

-----------------------------------------------------------------------------
(* Properties.                                                             *)

TypeOK ==
  /\ qdb \subseteq [idx : 1..MaxMsgs, hook : HookNames, ttl : 1..TTL]
  /\ reg \in [HookNames -> [def : HookDefs, gen : Gens] \cup {NONE}]
  /\ nextgen \in [HookNames -> 1..MaxGen + 1]
  /\ mpc \in [Objs -> {"none", "top", "send", "wait", "exited"}]
  /\ closed \in [Objs -> BOOLEAN]
  /\ inflight \in [Objs -> Seq(Entry)]
  /\ alive \in BOOLEAN /\ nidx \in 0..MaxMsgs /\ expired \subseteq 1..MaxMsgs
  /\ \A i \in DOMAIN sent : sent[i] \in [idx : 1..MaxMsgs, hook : HookNames, by : HookNames]

\* Spec 5 / at-least-once: no payload is dropped before its TTL runs out.
\* Every index handed out is still queued, held by a proc, sent, or
\* expired.  proc deletes what it takes before it sends, so a crash between
\* the delete transaction and the sends, or a failed reinsert, loses it.
EveryPayloadAccountedFor ==
  \A x \in 1..nidx :
    \/ \E e \in qdb : e.idx = x
    \/ \E h \in Objs : \E j \in DOMAIN inflight[h] : inflight[h][j].idx = x
    \/ \E i \in DOMAIN sent : sent[i].idx = x
    \/ x \in expired

\* Each hook's payloads reach its endpoints once each and in commit order,
\* across failed sends and reinserts, TTL expiry, SETHOOK replacing the
\* hook object while its proc is sending, and restarts.
DeliveredInCommitOrder ==
  \A i, j \in DOMAIN sent :
    i < j /\ sent[i].hook = sent[j].hook => sent[i].idx < sent[j].idx

\* A payload is sent only by the hook it was queued for (to that hook's
\* endpoints): proc's query must not hand it another hook's entries.
DeliveredToOwnHook ==
  \A i \in DOMAIN sent : sent[i].by = sent[i].hook

\* SETHOOK, DELHOOK and the post-write Signal call into a hook while holding
\* c.mu, and wait there for h.mu, which proc holds across all its endpoint
\* sends: the whole server waits with them.  The wait ends: proc gives h.mu
\* up after the last send or after a failed one, before it sleeps.
WriterEventuallyServed == wpc # <<"idle">> ~> wpc = <<"idle">>

Queued(x) == \E e \in qdb : e.idx = x
QueuedFor(x) == CHOOSE n \in HookNames : \E e \in qdb : e.idx = x /\ e.hook = n
HookLive(n) == alive /\ reg[n] # NONE

\* No lost wake-up: a payload queued while its hook exists is taken off the
\* queue by a proc (or its hook goes away), even if time never passes, so
\* the TTL never empties the queue for it.  Needs the Signal after every
\* enqueue and the cond.Wait/Broadcast handshake under h.mu.
NoLostWakeup ==
  \A x \in 1..MaxMsgs :
    (Queued(x) /\ HookLive(QueuedFor(x))) ~> (~Queued(x) \/ ~HookLive(QueuedFor(x)))

=============================================================================
