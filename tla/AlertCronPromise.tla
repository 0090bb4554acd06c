--------------------------- MODULE AlertCronPromise ---------------------------
(***************************************************************************)
(* The cron keeps the promise of PriceAlertPromise when the state in KV is  *)
(* the state every run evaluates from: the state of an alert is its KV      *)
(* entry, an evaluation takes place when its write is stored, and a         *)
(* notification is owed from then until the run hands it over or is gone.   *)
(***************************************************************************)
EXTENDS AlertCron

Owed == {a \in Alerts : \E r \in Runs : /\ pc[r] \in {"put", "send"}
                                        /\ a \in todo[r]
                                        /\ batch[r][a] = None}

Promise == INSTANCE PriceAlertPromise WITH now <- clock, state <- kv, owed <- Owed

(* The cron implements the promise: a notification is decided once per      *)
(* crossing or per cooled-down move of the durable state, and nothing is    *)
(* handed over twice, across evictions, expiries of the cache, aborted      *)
(* loops and edits of the alerts (runAlertCron with state-cache.ts).        *)
KeepsPromise == Promise!PromiseSpec

(* A run that is about to evaluate from a fresh cache finds in it, for      *)
(* every alert it listed, what KV holds (loadAllStatesFromKV serving from   *)
(* stateCache).                                                             *)
EvaluatesDurable ==
    \A r \in Runs, a \in Alerts :
        pc[r] = "prices" /\ Warm(home[r]) /\ listed[r][a] # None
        => stateCache[home[r]][a] = kv[a]
-----------------------------------------------------------------------------
(* When the promise is kept: one isolate whose runs take turns, no KV         *)
(* operation that fails, no paused alert, and kvWriteIntervalSec set to a    *)
(* trigger period at most, so that every flush is due.  The default is an    *)
(* hour, and then NoRepeat fails (the run "repeat").  A run leaves no queue   *)
(* behind then, so that news requests find nothing to flush.                *)
Durable ==
    /\ Alone
    /\ ~May("get_fails") /\ ~May("put_fails")
    /\ Intervals = {1}
    /\ \A row \in AlertRecords : row.status = "active"
    /\ Cooldown > 0

(* What makes EvaluatesDurable and KeepsPromise hold then, with WarmInv.     *)
(* A run ends in the period it was fired in, and no flush of the period      *)
(* came before its own: so what it queues is due.                           *)
Punctual ==
    /\ \A i \in Isolates : lastKvWriteTime[i] <= firedAt
    /\ \A r \in Runs :
          /\ pc[r] # "news"
          /\ pc[r] # "idle" => firedAt = clock
          /\ pc[r] \in {"prices", "load", "flush", "put"} =>
                \A i \in Isolates : lastKvWriteTime[i] < clock
          /\ pc[r] = "put" => since[r] = clock

(* A queued state is the cached one, and the run in hand writes it.          *)
QueueWritten ==
    /\ \A i \in Isolates, a \in Alerts : pendingWrites[i][a] # None =>
          /\ stateCache[i][a] = pendingWrites[i][a]
          /\ \E r \in Runs : \/ pc[r] = "flush"
                             \/ /\ pc[r] = "put"
                                /\ batch[r][a] = None => kv[a] = pendingWrites[i][a]
    /\ \A r \in Runs, a \in Alerts : batch[r][a] # None =>
          pc[r] = "put" /\ pendingWrites[home[r]][a] = batch[r][a]

Listing(r) == pc[r] \in {"prices", "load"}

(* A cached state that is not queued is in KV; a cache that was loaded has   *)
(* what KV has of every alert that exists or that a run listed.             *)
CacheIsKv ==
    \A i \in Isolates, a \in Alerts :
        /\ stateCache[i][a] # None /\ pendingWrites[i][a] = None => kv[a] = stateCache[i][a]
        /\ /\ cacheLoadedAt[i] > 0
           /\ kv[a] # None
           /\ alerts[a] # None \/ \E r \in Runs : Listing(r) /\ listed[r][a] # None
           => stateCache[i][a] # None

(* A run has listed every alert that has a state, and read what KV holds.    *)
(* An alert created meanwhile has none, since ids are not issued again.     *)
LoadSees ==
    /\ \A a \in Alerts :
          kv[a] # None \/ alerts[a] # None \/ (\E i \in Isolates : pendingWrites[i][a] # None)
          => a \in issued
    /\ \A r \in Runs, a \in Alerts :
          /\ Listing(r) /\ listed[r][a] # None => a \in issued
          /\ Listing(r) /\ kv[a] # None /\ alerts[a] # None => listed[r][a] # None
          /\ pc[r] = "load" =>
                /\ seen[r][a] \in {None, kv[a]}
                /\ listed[r][a] # None /\ a \notin toRead[r] => seen[r][a] = kv[a]

(* What run r has not written yet.                                          *)
Unwritten(r, a) == IF pc[r] = "flush" THEN pendingWrites[home[r]][a] ELSE batch[r][a]

(* State s is what an evaluation of alert a from its KV entry leaves now,    *)
(* which decides a notification or not.                                     *)
Evaluated(a, s, noticed) ==
    \E alert \in AlertRecords, price \in Prices :
        /\ s = NextState(alert, price, kv[a], clock)
        /\ noticed <=> Notifies(alert, price, kv[a], clock)

FlushJudged ==
    \A r \in Runs, a \in Alerts :
        /\ pc[r] \in {"flush", "put"} /\ Unwritten(r, a) # None =>
              Evaluated(a, Unwritten(r, a), a \in todo[r])
        /\ pc[r] = "flush" /\ a \in todo[r] => Unwritten(r, a) # None

DurableInv == Punctual /\ QueueWritten /\ CacheIsKv /\ LoadSees /\ FlushJudged
=============================================================================
