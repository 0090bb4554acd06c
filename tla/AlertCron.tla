------------------------------ MODULE AlertCron ------------------------------
(***************************************************************************)
(* The price-alert cron (src/src/cron/alerts-cron.ts), the module-level    *)
(* alert state cache it works on (src/src/alerts/state-cache.ts), the      *)
(* alerts table users edit meanwhile, and the KV namespace that outlives   *)
(* the worker.                                                             *)
(*                                                                         *)
(* A worker runs in several isolates.  Each isolate has its own copy of the *)
(* module variables (stateCache, pendingWrites, cacheLoadedAt,             *)
(* lastKvWriteTime) and loses them when it is evicted.  A run is one        *)
(* asynchronous activity inside an isolate: an invocation of runAlertCron  *)
(* or a flush started by a news request.  Runs interleave at their awaits;  *)
(* what lies between two awaits is one action.                             *)
(*                                                                         *)
(* One unit of the clock is the period of the cron trigger (5 minutes), so *)
(* the trigger fires at most once per unit.                                *)
(***************************************************************************)
EXTENDS AlertEvaluation

CONSTANTS
    Isolates,       \* isolates the worker may run in
    Runs,           \* slots for activities in progress
    Alerts,         \* alert ids (crypto.randomUUID: never issued twice)
    CacheTTL,       \* CACHE_TTL_MS, in cron periods
    Intervals,      \* values config.kvWriteIntervalSec may have, in cron periods
    Disturbances,   \* what the environment may do, see below
    Start,          \* the first instant: Date.now() is never near 0
    MaxClock        \* bound of the model: the last instant

(* "overlap"   a run may start while another is in progress                *)
(* "get_fails" a KV read may throw                                         *)
(* "put_fails" a KV write may throw                                        *)
(* "evict"     an isolate may be evicted, with the runs inside it          *)
(* "abort"     listing alerts or sending notifications may throw           *)
(* "news"      news requests may flush the queue                           *)
KnownDisturbances ==
    {"overlap", "get_fails", "put_fails", "evict", "abort", "news"}

ASSUME TimeAssumption ==
    /\ CacheTTL \in Nat \ {0}
    /\ Intervals \subseteq Nat \ {0}
    /\ Intervals # {}
    /\ Start \in Nat \ {0}
    /\ Start >= CacheTTL
    /\ \A n \in Intervals : Start >= n
    /\ MaxClock \in Nat

ASSUME DisturbanceAssumption == Disturbances \subseteq KnownDisturbances

VARIABLES
    alerts,           \* the alerts table: row of each id, or None
    issued,           \* ids createAlert has issued so far
    kv,               \* alert:{id}:state entries of the KV namespace
    clock,            \* Date.now()
    firedAt,          \* when the cron trigger last fired
    stateCache,       \* per isolate: in-memory states
    pendingWrites,    \* per isolate: states queued for KV
    cacheLoadedAt,    \* per isolate
    lastKvWriteTime,  \* per isolate
    pc,               \* per run: where it awaits
    home,             \* per run: its isolate, None when idle
    listed,           \* per run: the active alerts it read from the table
    prices,           \* per run: priceBySymbol
    seen,             \* per run: stateById
    toRead,           \* per run: KV reads not yet answered
    since,            \* per run: "now" captured before its await
    batch,            \* per run: KV writes not yet answered
    todo,             \* per run: notifications decided, not yet handed over
    lastNotice        \* history: when an alert was last decided to be notified
                      \* with no lapse of its condition evaluated since

tableVars   == <<alerts, issued>>
timeVars    == <<clock, firedAt>>
isolateVars == <<stateCache, pendingWrites, cacheLoadedAt, lastKvWriteTime>>
inputVars   == <<listed, prices, seen, toRead>>
runVars     == <<pc, home, inputVars, since, batch, todo>>
vars        == <<tableVars, kv, timeVars, isolateVars, runVars, lastNotice>>

May(what) == what \in Disturbances

NoStates == [a \in Alerts |-> None]
NoPrices == [s \in Symbols |-> None]

TypeOK ==
    /\ alerts \in [Alerts -> AlertRecords \cup {None}]
    /\ issued \subseteq Alerts
    /\ kv \in [Alerts -> Snapshot \cup {None}]
    /\ clock \in Nat /\ clock >= Start
    /\ firedAt \in Nat /\ firedAt <= clock
    /\ stateCache \in [Isolates -> [Alerts -> Snapshot \cup {None}]]
    /\ pendingWrites \in [Isolates -> [Alerts -> Snapshot \cup {None}]]
    /\ cacheLoadedAt \in [Isolates -> Nat]
    /\ lastKvWriteTime \in [Isolates -> Nat]
    /\ pc \in [Runs -> {"idle", "prices", "load", "flush", "put", "send", "news"}]
    /\ home \in [Runs -> Isolates \cup {None}]
    /\ \A r \in Runs : pc[r] # "idle" => home[r] \in Isolates
    /\ listed \in [Runs -> [Alerts -> AlertRecords \cup {None}]]
    /\ prices \in [Runs -> [Symbols -> Prices \cup {None}]]
    /\ seen \in [Runs -> [Alerts -> Snapshot \cup {None}]]
    /\ toRead \in [Runs -> SUBSET Alerts]
    /\ since \in [Runs -> Nat]
    /\ batch \in [Runs -> [Alerts -> Snapshot \cup {None}]]
    /\ todo \in [Runs -> SUBSET Alerts]
    /\ lastNotice \in [Alerts -> Nat \cup {None}]

Init ==
    /\ alerts \in [Alerts -> {r \in AlertRecords : r.status = "active"} \cup {None}]
    /\ issued = {a \in Alerts : alerts[a] # None}
    /\ kv = NoStates
    /\ clock = Start
    /\ firedAt = 0
    /\ stateCache = [i \in Isolates |-> NoStates]
    /\ pendingWrites = [i \in Isolates |-> NoStates]
    /\ cacheLoadedAt = [i \in Isolates |-> 0]
    /\ lastKvWriteTime = [i \in Isolates |-> 0]
    /\ pc = [r \in Runs |-> "idle"]
    /\ home = [r \in Runs |-> None]
    /\ listed = [r \in Runs |-> NoStates]
    /\ prices = [r \in Runs |-> NoPrices]
    /\ seen = [r \in Runs |-> NoStates]
    /\ toRead = [r \in Runs |-> {}]
    /\ since = [r \in Runs |-> 0]
    /\ batch = [r \in Runs |-> NoStates]
    /\ todo = [r \in Runs |-> {}]
    /\ lastNotice = [a \in Alerts |-> None]

-----------------------------------------------------------------------------
(* Time and the users of the alerts table.                                 *)

AllIdle == \A r \in Runs : pc[r] = "idle"

(* Without "overlap" no run outlives its period.                            *)
Tick ==
    /\ clock < MaxClock
    /\ May("overlap") \/ AllIdle
    /\ clock' = clock + 1
    /\ UNCHANGED <<tableVars, kv, firedAt, isolateVars, runVars, lastNotice>>

CreateAlert(a) ==
    /\ a \notin issued
    /\ \E row \in AlertRecords :
          /\ row.status = "active"
          /\ alerts' = [alerts EXCEPT ![a] = row]
    /\ issued' = issued \cup {a}
    /\ UNCHANGED <<kv, timeVars, isolateVars, runVars, lastNotice>>

(* The evaluation state of the alert is left as it was.                     *)
UpdateAlert(a) ==
    /\ alerts[a] # None
    /\ \E row \in AlertRecords : alerts' = [alerts EXCEPT ![a] = row]
    /\ UNCHANGED <<issued, kv, timeVars, isolateVars, runVars, lastNotice>>

DeleteAlert(a) ==
    /\ alerts[a] # None
    /\ alerts' = [alerts EXCEPT ![a] = None]
    /\ UNCHANGED <<issued, kv, timeVars, isolateVars, runVars, lastNotice>>

-----------------------------------------------------------------------------
(* One run of the cron, await by await.                                     *)

CanStart(r) == pc[r] = "idle" /\ (May("overlap") \/ AllIdle)

Active(a) == alerts[a] # None /\ alerts[a].status = "active"

(* The local variables of a run are gone when it ends.                      *)
EndRun(R) ==
    /\ pc' = [r \in Runs |-> IF r \in R THEN "idle" ELSE pc[r]]
    /\ home' = [r \in Runs |-> IF r \in R THEN None ELSE home[r]]
    /\ listed' = [r \in Runs |-> IF r \in R THEN NoStates ELSE listed[r]]
    /\ prices' = [r \in Runs |-> IF r \in R THEN NoPrices ELSE prices[r]]
    /\ seen' = [r \in Runs |-> IF r \in R THEN NoStates ELSE seen[r]]
    /\ toRead' = [r \in Runs |-> IF r \in R THEN {} ELSE toRead[r]]
    /\ since' = [r \in Runs |-> IF r \in R THEN 0 ELSE since[r]]
    /\ batch' = [r \in Runs |-> IF r \in R THEN NoStates ELSE batch[r]]
    /\ todo' = [r \in Runs |-> IF r \in R THEN {} ELSE todo[r]]

(* The trigger fires and the run lists the active alerts.                   *)
Fire(r, i) ==
    /\ CanStart(r)
    /\ clock > firedAt
    /\ \E a \in Alerts : Active(a)
    /\ firedAt' = clock
    /\ pc' = [pc EXCEPT ![r] = "prices"]
    /\ home' = [home EXCEPT ![r] = i]
    /\ listed' = [listed EXCEPT ![r] =
                    [a \in Alerts |-> IF Active(a) THEN alerts[a] ELSE None]]
    /\ UNCHANGED <<tableVars, kv, clock, isolateVars, prices, seen, toRead,
                   since, batch, todo, lastNotice>>

(* It fires in vain: there is no active alert, or listing them throws.      *)
FireInVain ==
    /\ \E r \in Runs : CanStart(r)
    /\ clock > firedAt
    /\ May("abort") \/ ~(\E a \in Alerts : Active(a))
    /\ firedAt' = clock
    /\ UNCHANGED <<tableVars, kv, clock, isolateVars, runVars, lastNotice>>

(* The prices a run may get: a quote that fails or has no number is skipped *)
Quotes(r) ==
    {p \in [Symbols -> Prices \cup {None}] :
        \A s \in Symbols :
            p[s] # None => \E a \in Alerts : listed[r][a] # None /\ listed[r][a].symbol = s}

NoQuoteArrives(r) ==
    /\ pc[r] = "prices"
    /\ EndRun({r})
    /\ UNCHANGED <<tableVars, kv, timeVars, isolateVars, lastNotice>>

(* "stateCache.size > 0 && (now - cacheLoadedAt) < CACHE_TTL_MS"            *)
Warm(i) ==
    /\ \E a \in Alerts : stateCache[i][a] # None
    /\ clock - cacheLoadedAt[i] < CacheTTL

(* What run r evaluates, from the prices p and the states s.                *)
Judged(r, p, a) == listed[r][a] # None /\ p[listed[r][a].symbol] # None

NextOf(r, p, s, a) == NextState(listed[r][a], p[listed[r][a].symbol], s[a], clock)

Stores(r, p, s, a) ==
    Judged(r, p, a) /\ ShouldStore(listed[r][a], p[listed[r][a].symbol], s[a], clock)

Noticed(r, p, s, a) ==
    Judged(r, p, a) /\ Notifies(listed[r][a], p[listed[r][a].symbol], s[a], clock)

Lapsed(r, p, a) ==
    Judged(r, p, a) /\ ~ConditionMet(listed[r][a], p[listed[r][a].symbol])

(* The updateStateInCache loop: the cache and the queue take the new states. *)
Updated(r, p, s, old) ==
    [a \in Alerts |-> IF Stores(r, p, s, a) THEN NextOf(r, p, s, a) ELSE old[a]]

(* Mutants: a loop that queues nothing, and one that caches nothing.        *)
UpdateUnqueued(r, p, s) ==
    /\ stateCache' = [stateCache EXCEPT ![home[r]] = Updated(r, p, s, @)]
    /\ UNCHANGED pendingWrites

UpdateUncached(r, p, s) ==
    /\ pendingWrites' = [pendingWrites EXCEPT ![home[r]] = Updated(r, p, s, @)]
    /\ UNCHANGED stateCache

UpdateStateInCache(r, p, s) ==
    /\ stateCache' = [stateCache EXCEPT ![home[r]] = Updated(r, p, s, @)]
    /\ pendingWrites' = [pendingWrites EXCEPT ![home[r]] = Updated(r, p, s, @)]

(* evaluateAlerts and the updateStateInCache loop: no await between them.   *)
Evaluate(r, p, s) ==
    /\ pc' = [pc EXCEPT ![r] = "flush"]
    /\ UpdateStateInCache(r, p, s)
    /\ todo' = [todo EXCEPT ![r] = {a \in Alerts : Noticed(r, p, s, a)}]
    /\ listed' = [listed EXCEPT ![r] = NoStates]
    /\ lastNotice' = [a \in Alerts |-> IF Lapsed(r, p, a) THEN None
                                       ELSE IF Noticed(r, p, s, a) THEN clock
                                       ELSE lastNotice[a]]

(* The cache is fresh: it answers for every listed alert, and an alert it   *)
(* does not hold has no state.                                              *)
EvaluateFromCache(r) ==
    /\ pc[r] = "prices"
    /\ Warm(home[r])
    /\ \E p \in Quotes(r) :
          /\ p # NoPrices
          /\ Evaluate(r, p, stateCache[home[r]])
    /\ UNCHANGED <<tableVars, kv, timeVars, cacheLoadedAt, lastKvWriteTime,
                   home, prices, seen, toRead, since, batch>>

(* The cache is empty or expired: every listed state is read from KV.       *)
BeginLoad(r) ==
    /\ pc[r] = "prices"
    /\ ~Warm(home[r])
    /\ \E p \in Quotes(r) : p # NoPrices /\ prices' = [prices EXCEPT ![r] = p]
    /\ pc' = [pc EXCEPT ![r] = "load"]
    /\ toRead' = [toRead EXCEPT ![r] = {a \in Alerts : listed[r][a] # None}]
    /\ since' = [since EXCEPT ![r] = clock]
    /\ UNCHANGED <<tableVars, kv, timeVars, isolateVars, home, listed, seen,
                   batch, todo, lastNotice>>

(* Mutants: the value found reaches the cache but not the result; a missing *)
(* entry is taken for a read still to be answered.                          *)
ReadUnreturned(r, a) ==
    /\ pc[r] = "load"
    /\ a \in toRead[r]
    /\ toRead' = [toRead EXCEPT ![r] = @ \ {a}]
    /\ stateCache' = IF kv[a] # None THEN [stateCache EXCEPT ![home[r]][a] = kv[a]]
                                     ELSE stateCache
    /\ UNCHANGED <<tableVars, kv, timeVars, pendingWrites, cacheLoadedAt,
                   lastKvWriteTime, pc, home, listed, prices, seen, since, batch,
                   todo, lastNotice>>

ReadFoundOnly(r, a) ==
    /\ pc[r] = "load"
    /\ a \in toRead[r]
    /\ kv[a] # None
    /\ toRead' = [toRead EXCEPT ![r] = @ \ {a}]
    /\ stateCache' = [stateCache EXCEPT ![home[r]][a] = kv[a]]
    /\ seen' = [seen EXCEPT ![r][a] = kv[a]]
    /\ UNCHANGED <<tableVars, kv, timeVars, pendingWrites, cacheLoadedAt,
                   lastKvWriteTime, pc, home, listed, prices, since, batch, todo,
                   lastNotice>>

(* One read is answered.  A value found replaces what the cache held.       *)
ReadState(r, a) ==
    /\ pc[r] = "load"
    /\ a \in toRead[r]
    /\ toRead' = [toRead EXCEPT ![r] = @ \ {a}]
    /\ \/ /\ kv[a] # None
          /\ stateCache' = [stateCache EXCEPT ![home[r]][a] = kv[a]]
          /\ seen' = [seen EXCEPT ![r][a] = kv[a]]
       \/ /\ kv[a] = None \/ May("get_fails")
          /\ UNCHANGED <<stateCache, seen>>
    /\ UNCHANGED <<tableVars, kv, timeVars, pendingWrites, cacheLoadedAt,
                   lastKvWriteTime, pc, home, listed, prices, since, batch, todo,
                   lastNotice>>

EvaluateLoaded(r) ==
    /\ pc[r] = "load"
    /\ toRead[r] = {}
    /\ cacheLoadedAt' = [cacheLoadedAt EXCEPT ![home[r]] = since[r]]
    /\ Evaluate(r, prices[r], seen[r])
    /\ prices' = [prices EXCEPT ![r] = NoPrices]
    /\ seen' = [seen EXCEPT ![r] = NoStates]
    /\ since' = [since EXCEPT ![r] = 0]
    /\ UNCHANGED <<tableVars, kv, timeVars, lastKvWriteTime, home, toRead, batch>>

-----------------------------------------------------------------------------
(* flushPendingWritesToKV                                                   *)

Queued(i) == \E a \in Alerts : pendingWrites[i][a] # None

Due(i, interval) == clock - lastKvWriteTime[i] >= interval

StartWrites(r, i) ==
    /\ batch' = [batch EXCEPT ![r] = pendingWrites[i]]
    /\ since' = [since EXCEPT ![r] = clock]

SkipFlush(r) ==
    /\ pc[r] = "flush"
    /\ ~Queued(home[r]) \/ \E n \in Intervals : ~Due(home[r], n)
    /\ pc' = [pc EXCEPT ![r] = "send"]
    /\ UNCHANGED <<tableVars, kv, timeVars, isolateVars, home, inputVars, since,
                   batch, todo, lastNotice>>

BeginFlush(r) ==
    /\ pc[r] = "flush"
    /\ Queued(home[r])
    /\ \E n \in Intervals : Due(home[r], n)
    /\ StartWrites(r, home[r])
    /\ pc' = [pc EXCEPT ![r] = "put"]
    /\ UNCHANGED <<tableVars, kv, timeVars, isolateVars, home, inputVars, todo,
                   lastNotice>>

(* A news request flushes the queue of its isolate and does not wait.       *)
NewsFlush(r, i) ==
    /\ May("news")
    /\ CanStart(r)
    /\ Queued(i)
    /\ \E n \in Intervals : Due(i, n)
    /\ StartWrites(r, i)
    /\ pc' = [pc EXCEPT ![r] = "news"]
    /\ home' = [home EXCEPT ![r] = i]
    /\ UNCHANGED <<tableVars, kv, timeVars, isolateVars, inputVars, todo, lastNotice>>

(* One write is answered: stored, or failed and ignored.                    *)
PutSettles(r, a) ==
    /\ pc[r] \in {"put", "news"}
    /\ batch[r][a] # None
    /\ batch' = [batch EXCEPT ![r][a] = None]
    /\ \/ kv' = [kv EXCEPT ![a] = batch[r][a]]
       \/ May("put_fails") /\ UNCHANGED kv
    /\ UNCHANGED <<tableVars, timeVars, isolateVars, pc, home, inputVars, since,
                   todo, lastNotice>>

(* All writes are answered: the whole queue is cleared, whatever it holds.  *)
EndFlush(r) ==
    /\ pc[r] \in {"put", "news"}
    /\ batch[r] = NoStates
    /\ pendingWrites' = [pendingWrites EXCEPT ![home[r]] = NoStates]
    /\ lastKvWriteTime' = [lastKvWriteTime EXCEPT ![home[r]] = since[r]]
    /\ \/ pc[r] = "news" /\ EndRun({r})
       \/ /\ pc[r] = "put"
          /\ pc' = [pc EXCEPT ![r] = "send"]
          /\ since' = [since EXCEPT ![r] = 0]
          /\ UNCHANGED <<home, inputVars, batch, todo>>
    /\ UNCHANGED <<tableVars, kv, timeVars, stateCache, cacheLoadedAt, lastNotice>>

(* Nobody waits for a news flush: it may be dropped with its request.       *)
NewsFlushDropped(r) ==
    /\ pc[r] = "news"
    /\ EndRun({r})
    /\ UNCHANGED <<tableVars, kv, timeVars, isolateVars, lastNotice>>

-----------------------------------------------------------------------------
(* The notification loop, and what cuts a run short.                        *)

(* One decided notification is handled; AlertDelivery models how.           *)
Deliver(r, a) ==
    /\ pc[r] = "send"
    /\ a \in todo[r]
    /\ todo' = [todo EXCEPT ![r] = @ \ {a}]
    /\ UNCHANGED <<tableVars, kv, timeVars, isolateVars, pc, home, inputVars, since,
                   batch, lastNotice>>

Finish(r) ==
    /\ pc[r] = "send"
    /\ todo[r] = {}
    /\ EndRun({r})
    /\ UNCHANGED <<tableVars, kv, timeVars, isolateVars, lastNotice>>

(* A database error in the loop ends the run with the rest of it unsent.    *)
AbortSend(r) ==
    /\ May("abort")
    /\ pc[r] = "send"
    /\ todo[r] # {}
    /\ EndRun({r})
    /\ UNCHANGED <<tableVars, kv, timeVars, isolateVars, lastNotice>>

(* Mutant: a new isolate starts with lastKvWriteTime not initialised.       *)
EvictUninitialised(i) ==
    /\ May("evict")
    /\ stateCache' = [stateCache EXCEPT ![i] = NoStates]
    /\ pendingWrites' = [pendingWrites EXCEPT ![i] = NoStates]
    /\ cacheLoadedAt' = [cacheLoadedAt EXCEPT ![i] = 0]
    /\ lastKvWriteTime' = [lastKvWriteTime EXCEPT ![i] = None]
    /\ EndRun({r \in Runs : home[r] = i})
    /\ UNCHANGED <<tableVars, kv, timeVars, lastNotice>>

(* An isolate is evicted: its memory and its runs are gone.                 *)
Evict(i) ==
    /\ May("evict")
    /\ stateCache' = [stateCache EXCEPT ![i] = NoStates]
    /\ pendingWrites' = [pendingWrites EXCEPT ![i] = NoStates]
    /\ cacheLoadedAt' = [cacheLoadedAt EXCEPT ![i] = 0]
    /\ lastKvWriteTime' = [lastKvWriteTime EXCEPT ![i] = 0]
    /\ EndRun({r \in Runs : home[r] = i})
    /\ UNCHANGED <<tableVars, kv, timeVars, lastNotice>>

-----------------------------------------------------------------------------
Users == \E a \in Alerts : CreateAlert(a) \/ UpdateAlert(a) \/ DeleteAlert(a)

(* What a run in progress does by itself.                                   *)
RunStep(r) ==
    \/ NoQuoteArrives(r) \/ EvaluateFromCache(r) \/ BeginLoad(r)
    \/ EvaluateLoaded(r) \/ SkipFlush(r) \/ BeginFlush(r) \/ EndFlush(r)
    \/ Finish(r)
    \/ \E a \in Alerts : ReadState(r, a) \/ PutSettles(r, a) \/ Deliver(r, a)

Next ==
    \/ Tick
    \/ Users
    \/ FireInVain
    \/ \E i \in Isolates : Evict(i)
    \/ \E r \in Runs :
          \/ RunStep(r)
          \/ NewsFlushDropped(r)
          \/ AbortSend(r)
          \/ \E i \in Isolates : Fire(r, i) \/ NewsFlush(r, i)

(* The runtime keeps running what a live isolate awaits (ctx.waitUntil).     *)
Spec == Init /\ [][Next]_vars /\ \A r \in Runs : WF_vars(RunStep(r))

-----------------------------------------------------------------------------
(* Properties.                                                             *)

(* A snapshot that says "met" carries the notification that reported it: a  *)
(* time within the life of the system and a price.  The code's fallbacks    *)
(* for a missing lastNotifiedAt (Infinity) are then never needed.           *)
WellFormed(s, now) ==
    s # None => /\ s.met => s.notAt # None
                /\ s.notAt # None <=> s.notPrice # None
                /\ s.notAt # None => Start <= s.notAt /\ s.notAt <= now

(* Every copy of an alert's state, durable, cached, queued, being written   *)
(* or held by a run, is well formed: evaluateAlerts and the cache never     *)
(* leave a condition marked as reported without its report.                 *)
NoticeRecorded ==
    /\ \A a \in Alerts : WellFormed(kv[a], clock)
    /\ \A i \in Isolates, a \in Alerts : /\ WellFormed(stateCache[i][a], clock)
                                        /\ WellFormed(pendingWrites[i][a], clock)
    /\ \A r \in Runs, a \in Alerts : /\ WellFormed(batch[r][a], clock)
                                    /\ WellFormed(seen[r][a], clock)

(* This step decides to notify alert a in run r.                            *)
Decides(r, a) == a \in todo'[r] /\ a \notin todo[r]

(* While a condition stays met, an alert is not notified again before the   *)
(* cooldown has passed (evaluate-alerts.ts, "cooldown between               *)
(* notifications").                                                         *)
NoRepeat ==
    [][\A r \in Runs, a \in Alerts :
         Decides(r, a) /\ lastNotice[a] # None => clock - lastNotice[a] >= Cooldown]_vars

(* The same, for notifications decided since the isolate last loaded its    *)
(* cache: the in-memory state alone keeps an alert quiet, whatever happens  *)
(* to the writes it queues.                                                 *)
NoRepeatWhileWarm ==
    [][\A r \in Runs, a \in Alerts :
         /\ Decides(r, a)
         /\ lastNotice[a] # None
         /\ lastNotice[a] >= cacheLoadedAt'[home[r]]
         => clock - lastNotice[a] >= Cooldown]_vars

(* What makes NoRepeatWhileWarm hold when there is one isolate and runs do  *)
(* not overlap.  Runs take turns; a run evaluates at the instant the        *)
(* trigger fired, later than every notification before it; and the cache    *)
(* remembers the notifications decided since it was loaded.                 *)
Alone == ~May("overlap") /\ \A i, j \in Isolates : i = j

OneAtATime ==
    \A r, q \in Runs : pc[r] # "idle" /\ pc[q] # "idle" => r = q

FreshRun ==
    \A r \in Runs : pc[r] \in {"prices", "load"} =>
        /\ firedAt = clock
        /\ \A a \in Alerts : lastNotice[a] # None => lastNotice[a] < clock
        /\ pc[r] = "load" => since[r] = clock

NoticesPast == \A a \in Alerts : lastNotice[a] # None => lastNotice[a] <= firedAt

SeenIsCached ==
    \A r \in Runs, a \in Alerts :
        seen[r][a] # None => pc[r] = "load" /\ stateCache[home[r]][a] = seen[r][a]

Remembers(i, a) ==
    /\ stateCache[i][a] # None
    /\ stateCache[i][a].met
    /\ stateCache[i][a].notAt = lastNotice[a]

CacheRemembers ==
    (\A r \in Runs : pc[r] # "load") =>
        \A i \in Isolates, a \in Alerts :
            /\ cacheLoadedAt[i] > 0
            /\ lastNotice[a] # None
            /\ lastNotice[a] >= cacheLoadedAt[i]
            => Remembers(i, a)

WarmInv ==
    OneAtATime /\ FreshRun /\ NoticesPast /\ SeenIsCached /\ CacheRemembers

(* state-cache.ts clears a queued write only "after successful write": an   *)
(* entry that leaves the queue of a live isolate is in KV.  A put that fails *)
(* breaks it, and so does a state queued while a flush awaits its puts.      *)
ClearedWhenWritten ==
    [][\A i \in Isolates, a \in Alerts :
         /\ pendingWrites[i][a] # None
         /\ pendingWrites'[i][a] = None
         /\ ~Evict(i)
         => kv'[a] = pendingWrites[i][a]]_vars

(* Every run that is not cut short comes to its end.                        *)
RunsEnd == \A r \in Runs : (pc[r] # "idle") ~> (pc[r] = "idle")
=============================================================================
