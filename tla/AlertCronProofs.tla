--------------------------- MODULE AlertCronProofs ---------------------------
(***************************************************************************)
(* Theorems about the alert cron, for every value of the constants: its     *)
(* types and records, the cache of an isolate whose runs take turns, and     *)
(* the refinement of the promise where the state in KV is durable.          *)
(***************************************************************************)
EXTENDS AlertCronPromise, TLAPS

(* What evaluateAlerts remembers of an evaluation is a snapshot.            *)
LEMMA NextStateType ==
    ASSUME NEW alert \in AlertRecords, NEW price \in Prices,
           NEW prev \in Snapshot \cup {None}, NEW now \in Nat
    PROVE  NextState(alert, price, prev, now) \in Snapshot
<1>1. ConditionMet(alert, price) \in BOOLEAN
  <2>1. price \in Int /\ alert.threshold \in Int
    BY PriceAssumption, RecordAssumption
  <2>2. CASE alert.direction = "above"
    BY <2>1, <2>2 DEF ConditionMet
  <2>3. CASE alert.direction # "above"
    BY <2>1, <2>3 DEF ConditionMet
  <2>4. QED
    BY <2>2, <2>3
<1>2. prev # None => prev.notPrice \in Prices \cup {None} /\ prev.notAt \in Nat \cup {None}
  BY DEF Snapshot
<1>3. QED
  BY <1>1, <1>2 DEF NextState, Snapshot

(* Updating one entry of one of a family of functions.                      *)
LEMMA NestedUpdate ==
    ASSUME NEW I, NEW A, NEW V, NEW f \in [I -> [A -> V]],
           NEW i \in I, NEW a \in A, NEW v \in V
    PROVE  [f EXCEPT ![i][a] = v] \in [I -> [A -> V]]
<1>1. [f[i] EXCEPT ![a] = v] \in [A -> V]
  OBVIOUS
<1>2. [f EXCEPT ![i][a] = v] = [f EXCEPT ![i] = [f[i] EXCEPT ![a] = v]]
  OBVIOUS
<1>3. QED
  BY <1>1, <1>2

(* What a run stores for an alert it evaluates is a snapshot.               *)
LEMMA NextOfType ==
    ASSUME TypeOK, NEW r \in Runs, NEW a \in Alerts,
           NEW p \in [Symbols -> Prices \cup {None}],
           NEW s \in [Alerts -> Snapshot \cup {None}],
           Judged(r, p, a)
    PROVE  NextOf(r, p, s, a) \in Snapshot
<1>1. listed[r][a] \in AlertRecords
  BY DEF TypeOK, Judged
<1>2. listed[r][a].symbol \in Symbols
  BY <1>1, RecordAssumption
<1>3. p[listed[r][a].symbol] \in Prices
  BY <1>2 DEF Judged
<1>4. clock \in Nat
  BY DEF TypeOK
<1>5. QED
  BY <1>1, <1>3, <1>4, NextStateType DEF NextOf

(* Evaluation and queueing keep every variable they change well typed.      *)
LEMMA EvaluateType ==
    ASSUME TypeOK, NEW r \in Runs, pc[r] # "idle",
           NEW p \in [Symbols -> Prices \cup {None}],
           NEW s \in [Alerts -> Snapshot \cup {None}],
           Evaluate(r, p, s)
    PROVE  /\ pc' \in [Runs -> {"idle", "prices", "load", "flush", "put", "send", "news"}]
           /\ stateCache' \in [Isolates -> [Alerts -> Snapshot \cup {None}]]
           /\ pendingWrites' \in [Isolates -> [Alerts -> Snapshot \cup {None}]]
           /\ todo' \in [Runs -> SUBSET Alerts]
           /\ listed' \in [Runs -> [Alerts -> AlertRecords \cup {None}]]
           /\ lastNotice' \in [Alerts -> Nat \cup {None}]
           /\ \A q \in Runs : pc'[q] # "idle" => pc[q] # "idle"
<1>1. \A a \in Alerts : Stores(r, p, s, a) => NextOf(r, p, s, a) \in Snapshot
  BY NextOfType DEF Stores
<1>2. home[r] \in Isolates
  BY DEF TypeOK
<1> DEFINE queue(old) == [a \in Alerts |-> IF Stores(r, p, s, a) THEN NextOf(r, p, s, a)
                                                              ELSE old[a]]
<1>3. \A old \in [Alerts -> Snapshot \cup {None}] :
         queue(old) \in [Alerts -> Snapshot \cup {None}]
  BY <1>1
<1>4. /\ stateCache' = [stateCache EXCEPT ![home[r]] = queue(stateCache[home[r]])]
      /\ pendingWrites' = [pendingWrites EXCEPT ![home[r]] = queue(pendingWrites[home[r]])]
  BY DEF Evaluate, UpdateStateInCache, Updated
<1> HIDE DEF queue
<1>5. /\ stateCache' \in [Isolates -> [Alerts -> Snapshot \cup {None}]]
      /\ pendingWrites' \in [Isolates -> [Alerts -> Snapshot \cup {None}]]
  BY <1>2, <1>3, <1>4 DEF TypeOK
<1>6. /\ todo' \in [Runs -> SUBSET Alerts]
      /\ listed' \in [Runs -> [Alerts -> AlertRecords \cup {None}]]
      /\ lastNotice' \in [Alerts -> Nat \cup {None}]
  BY DEF TypeOK, Evaluate, UpdateStateInCache, Updated, NoStates
<1>7. /\ pc' \in [Runs -> {"idle", "prices", "load", "flush", "put", "send", "news"}]
      /\ \A q \in Runs : pc'[q] # "idle" => pc[q] # "idle"
  BY DEF TypeOK, Evaluate, UpdateStateInCache, Updated
<1>8. QED
  BY <1>5, <1>6, <1>7

(* Ending runs keeps the run variables well typed.                          *)
LEMMA EndRunType ==
    ASSUME TypeOK, NEW R \in SUBSET Runs, EndRun(R)
    PROVE  /\ pc' \in [Runs -> {"idle", "prices", "load", "flush", "put", "send", "news"}]
           /\ home' \in [Runs -> Isolates \cup {None}]
           /\ \A r \in Runs : pc'[r] # "idle" => home'[r] \in Isolates
           /\ listed' \in [Runs -> [Alerts -> AlertRecords \cup {None}]]
           /\ prices' \in [Runs -> [Symbols -> Prices \cup {None}]]
           /\ seen' \in [Runs -> [Alerts -> Snapshot \cup {None}]]
           /\ toRead' \in [Runs -> SUBSET Alerts]
           /\ since' \in [Runs -> Nat]
           /\ batch' \in [Runs -> [Alerts -> Snapshot \cup {None}]]
           /\ todo' \in [Runs -> SUBSET Alerts]
BY DEF TypeOK, EndRun, NoStates, NoPrices

(* Type correctness of the cron, its caches and the alerts table.           *)
THEOREM TypeCorrect == Spec => []TypeOK
<1>1. Init => TypeOK
  BY TimeAssumption DEF Init, TypeOK, NoStates, NoPrices
<1>2. TypeOK /\ [Next]_vars => TypeOK'
  <2> SUFFICES ASSUME TypeOK, [Next]_vars PROVE TypeOK'
    OBVIOUS
  <2>1. CASE Tick
    BY <2>1, TimeAssumption DEF TypeOK, Tick, isolateVars, tableVars, runVars, inputVars
  <2>2. ASSUME NEW a \in Alerts, CreateAlert(a) \/ UpdateAlert(a) \/ DeleteAlert(a)
        PROVE  TypeOK'
    BY <2>2 DEF TypeOK, CreateAlert, UpdateAlert, DeleteAlert, timeVars, isolateVars,
                runVars, inputVars
  <2>3. CASE FireInVain
    BY <2>3 DEF TypeOK, FireInVain, isolateVars, tableVars, runVars, inputVars
  <2>4. ASSUME NEW i \in Isolates, Evict(i) PROVE TypeOK'
    <3>1. {r \in Runs : home[r] = i} \in SUBSET Runs
      OBVIOUS
    <3>2. EndRun({r \in Runs : home[r] = i})
      BY <2>4 DEF Evict
    <3> DEFINE R == {r \in Runs : home[r] = i}
    <3> HIDE DEF R
    <3>3. QED
      BY <2>4, <3>1, <3>2, EndRunType DEF TypeOK, Evict, tableVars, timeVars, NoStates
  <2>5. ASSUME NEW r \in Runs, NEW i \in Isolates, Fire(r, i) PROVE TypeOK'
    BY <2>5 DEF TypeOK, Fire, Active, tableVars, isolateVars
  <2>6. ASSUME NEW r \in Runs, NoQuoteArrives(r) \/ Finish(r) \/ NewsFlushDropped(r) \/ AbortSend(r)
        PROVE  TypeOK'
    <3>1. EndRun({r}) /\ {r} \in SUBSET Runs
      BY <2>6 DEF NoQuoteArrives, Finish, NewsFlushDropped, AbortSend
    <3>2. UNCHANGED <<tableVars, kv, timeVars, isolateVars, lastNotice>>
      BY <2>6 DEF NoQuoteArrives, Finish, NewsFlushDropped, AbortSend
    <3>3. QED
      BY <3>1, <3>2, EndRunType DEF TypeOK, tableVars, timeVars, isolateVars
  <2>7. ASSUME NEW r \in Runs, EvaluateFromCache(r) PROVE TypeOK'
    <3>1. PICK p \in Quotes(r) : Evaluate(r, p, stateCache[home[r]])
      BY <2>7 DEF EvaluateFromCache
    <3>2. p \in [Symbols -> Prices \cup {None}]
      BY DEF Quotes
    <3>3. /\ pc[r] # "idle"
          /\ stateCache[home[r]] \in [Alerts -> Snapshot \cup {None}]
      BY <2>7 DEF EvaluateFromCache, TypeOK
    <3>4. UNCHANGED <<tableVars, kv, timeVars, cacheLoadedAt, lastKvWriteTime,
                      home, prices, seen, toRead, since, batch>>
      BY <2>7 DEF EvaluateFromCache
    <3> HIDE DEF Quotes
    <3>5. QED
      BY <3>1, <3>2, <3>3, <3>4, EvaluateType DEF TypeOK, tableVars, timeVars
  <2>8. ASSUME NEW r \in Runs, BeginLoad(r) PROVE TypeOK'
    BY <2>8 DEF TypeOK, BeginLoad, Quotes, tableVars, timeVars, isolateVars
  <2>9. ASSUME NEW r \in Runs, NEW a \in Alerts, ReadState(r, a) PROVE TypeOK'
    <3>1. home[r] \in Isolates /\ kv[a] \in Snapshot \cup {None}
      BY <2>9 DEF TypeOK, ReadState
    <3>2. toRead' \in [Runs -> SUBSET Alerts]
      BY <2>9 DEF TypeOK, ReadState
    <3>3. /\ stateCache' \in [Isolates -> [Alerts -> Snapshot \cup {None}]]
          /\ seen' \in [Runs -> [Alerts -> Snapshot \cup {None}]]
      <4>1. CASE UNCHANGED <<stateCache, seen>>
        BY <4>1 DEF TypeOK
      <4>2. CASE /\ stateCache' = [stateCache EXCEPT ![home[r]][a] = kv[a]]
                 /\ seen' = [seen EXCEPT ![r][a] = kv[a]]
        <5>1. /\ stateCache \in [Isolates -> [Alerts -> Snapshot \cup {None}]]
              /\ seen \in [Runs -> [Alerts -> Snapshot \cup {None}]]
          BY DEF TypeOK
        <5>2. [stateCache EXCEPT ![home[r]][a] = kv[a]]
                \in [Isolates -> [Alerts -> Snapshot \cup {None}]]
          BY <3>1, <5>1, NestedUpdate
        <5>3. [seen EXCEPT ![r][a] = kv[a]] \in [Runs -> [Alerts -> Snapshot \cup {None}]]
          BY <3>1, <5>1, NestedUpdate
        <5>4. QED
          BY <4>2, <5>2, <5>3
      <4>3. QED
        BY <2>9, <4>1, <4>2 DEF ReadState
    <3>4. QED
      BY <2>9, <3>2, <3>3 DEF TypeOK, ReadState, tableVars, timeVars
  <2>10. ASSUME NEW r \in Runs, EvaluateLoaded(r) PROVE TypeOK'
    <3>1. /\ prices[r] \in [Symbols -> Prices \cup {None}]
          /\ seen[r] \in [Alerts -> Snapshot \cup {None}]
          /\ pc[r] # "idle"
          /\ Evaluate(r, prices[r], seen[r])
      BY <2>10 DEF EvaluateLoaded, TypeOK
    <3>2. /\ cacheLoadedAt' \in [Isolates -> Nat]
          /\ prices' \in [Runs -> [Symbols -> Prices \cup {None}]]
          /\ seen' \in [Runs -> [Alerts -> Snapshot \cup {None}]]
          /\ since' \in [Runs -> Nat]
          /\ UNCHANGED <<tableVars, kv, timeVars, lastKvWriteTime, home, toRead, batch>>
      BY <2>10 DEF EvaluateLoaded, TypeOK, NoPrices, NoStates
    <3>3. QED
      BY <3>1, <3>2, EvaluateType DEF TypeOK, tableVars, timeVars
  <2>11. ASSUME NEW r \in Runs, SkipFlush(r) \/ BeginFlush(r) PROVE TypeOK'
    <3>1. CASE SkipFlush(r)
      BY <3>1 DEF TypeOK, SkipFlush, tableVars, timeVars, isolateVars, inputVars
    <3>2. CASE BeginFlush(r)
      BY <3>2 DEF TypeOK, BeginFlush, StartWrites, tableVars, timeVars, isolateVars, inputVars
    <3>3. QED
      BY <2>11, <3>1, <3>2
  <2>12. ASSUME NEW r \in Runs, NEW i \in Isolates, NewsFlush(r, i) PROVE TypeOK'
    BY <2>12 DEF TypeOK, NewsFlush, StartWrites, tableVars, timeVars, isolateVars, inputVars
  <2>13. ASSUME NEW r \in Runs, NEW a \in Alerts, PutSettles(r, a) PROVE TypeOK'
    <3>1. /\ batch' \in [Runs -> [Alerts -> Snapshot \cup {None}]]
          /\ kv' \in [Alerts -> Snapshot \cup {None}]
      <4>1. batch \in [Runs -> [Alerts -> Snapshot \cup {None}]]
        BY DEF TypeOK
      <4>2. [batch EXCEPT ![r][a] = None] \in [Runs -> [Alerts -> Snapshot \cup {None}]]
        BY <4>1, NestedUpdate
      <4>3. batch' \in [Runs -> [Alerts -> Snapshot \cup {None}]]
        BY <2>13, <4>2 DEF PutSettles
      <4>4. kv' \in [Alerts -> Snapshot \cup {None}]
        <5>1. batch[r][a] \in Snapshot \cup {None} /\ kv \in [Alerts -> Snapshot \cup {None}]
          BY <4>1 DEF TypeOK
        <5>2. kv' = kv \/ kv' = [kv EXCEPT ![a] = batch[r][a]]
          BY <2>13 DEF PutSettles
        <5>3. QED
          BY <5>1, <5>2
      <4>5. QED
        BY <4>3, <4>4
    <3>2. QED
      BY <2>13, <3>1 DEF TypeOK, PutSettles, tableVars, timeVars, isolateVars, inputVars
  <2>14. ASSUME NEW r \in Runs, EndFlush(r) PROVE TypeOK'
    <3>1. /\ pendingWrites' \in [Isolates -> [Alerts -> Snapshot \cup {None}]]
          /\ lastKvWriteTime' \in [Isolates -> Nat]
          /\ UNCHANGED <<tableVars, kv, timeVars, stateCache, cacheLoadedAt, lastNotice>>
      BY <2>14 DEF EndFlush, TypeOK, NoStates
    <3>2. CASE EndRun({r})
      BY <3>1, <3>2, EndRunType DEF TypeOK, tableVars, timeVars
    <3>3. CASE /\ pc[r] = "put"
               /\ pc' = [pc EXCEPT ![r] = "send"]
               /\ since' = [since EXCEPT ![r] = 0]
               /\ UNCHANGED <<home, inputVars, batch, todo>>
      BY <3>1, <3>3 DEF TypeOK, tableVars, timeVars, inputVars
    <3>4. QED
      BY <2>14, <3>2, <3>3 DEF EndFlush
  <2>15. ASSUME NEW r \in Runs, NEW a \in Alerts, Deliver(r, a) PROVE TypeOK'
    BY <2>15 DEF TypeOK, Deliver, tableVars, timeVars, isolateVars, inputVars
  <2>16. CASE UNCHANGED vars
    BY <2>16 DEF TypeOK, vars, tableVars, timeVars, isolateVars, runVars, inputVars
  <2>17. QED
    BY <2>1, <2>2, <2>3, <2>4, <2>5, <2>6, <2>7, <2>8, <2>9, <2>10, <2>11, <2>12, <2>13,
       <2>14, <2>15, <2>16 DEF Next, RunStep, Users
<1>3. QED
  BY <1>1, <1>2, PTL DEF Spec

-----------------------------------------------------------------------------
(* A well-formed state stays so as time passes.                             *)
LEMMA WellFormedLater ==
    ASSUME NEW s \in Snapshot \cup {None}, NEW now \in Nat, NEW later \in Nat,
           later >= now, WellFormed(s, now)
    PROVE  WellFormed(s, later)
<1>1. s # None => s.notAt \in Nat \cup {None}
  BY DEF Snapshot
<1>2. QED
  BY <1>1, TimeAssumption, NoneAssumption DEF WellFormed

(* Evaluating from a well-formed state, or from none, gives one.            *)
LEMMA NextStateWellFormed ==
    ASSUME NEW alert \in AlertRecords, NEW price \in Prices,
           NEW prev \in Snapshot \cup {None}, NEW now \in Nat, now >= Start,
           WellFormed(prev, now)
    PROVE  WellFormed(NextState(alert, price, prev, now), now)
<1> DEFINE next == NextState(alert, price, prev, now)
<1>1. price # None /\ now # None
  BY PriceAssumption, NoneAssumption
<1>2. CASE Notifies(alert, price, prev, now)
  <2>1. next.notAt = now /\ next.notPrice = price
    BY <1>2 DEF NextState
  <2>2. QED
    BY <1>1, <2>1, TimeAssumption DEF WellFormed
<1>3. CASE ~Notifies(alert, price, prev, now) /\ prev = None
  <2>1. ~ConditionMet(alert, price)
    BY <1>3 DEF Notifies, FirstTime, AlreadyReported
  <2>2. ~next.met /\ next.notAt = None /\ next.notPrice = None
    BY <1>3, <2>1 DEF NextState
  <2>3. QED
    BY <2>2 DEF WellFormed
<1>4. CASE ~Notifies(alert, price, prev, now) /\ prev # None
  <2>1. ConditionMet(alert, price) => prev.met
    BY <1>4 DEF Notifies, FirstTime, AlreadyReported
  <2>2. /\ next.met => prev.met
        /\ next.notAt = prev.notAt
        /\ next.notPrice = prev.notPrice
    BY <1>4, <2>1 DEF NextState
  <2>3. QED
    BY <1>4, <2>2 DEF WellFormed
<1>5. QED
  BY <1>2, <1>3, <1>4

(* NoticeRecorded survives a step that lets time pass, or not, and whose    *)
(* copies of states are all copies there were before, or none.              *)
LEMMA CopiesWellFormed ==
    ASSUME TypeOK, NoticeRecorded, clock' \in Nat, clock' >= clock,
           \A a \in Alerts : kv'[a] = kv[a] \/ \E r \in Runs : kv'[a] = batch[r][a],
           \A i \in Isolates, a \in Alerts :
              \/ stateCache'[i][a] \in {None, stateCache[i][a]}
              \/ stateCache'[i][a] = kv[a],
           \A i \in Isolates, a \in Alerts :
              pendingWrites'[i][a] \in {None, pendingWrites[i][a]},
           \A r \in Runs, a \in Alerts :
              \/ batch'[r][a] \in {None, batch[r][a]}
              \/ \E i \in Isolates : batch'[r][a] = pendingWrites[i][a],
           \A r \in Runs, a \in Alerts : seen'[r][a] \in {None, seen[r][a], kv[a]}
    PROVE  NoticeRecorded'
<1> DEFINE Good(s) == s \in Snapshot \cup {None} /\ WellFormed(s, clock)
<1>1. clock \in Nat
  BY DEF TypeOK
<1>2. \A s : Good(s) => WellFormed(s, clock')
  BY <1>1, WellFormedLater
<1>3. Good(None)
  BY DEF WellFormed
<1>4. /\ \A a \in Alerts : Good(kv[a])
      /\ \A i \in Isolates, a \in Alerts : Good(stateCache[i][a]) /\ Good(pendingWrites[i][a])
      /\ \A r \in Runs, a \in Alerts : Good(batch[r][a]) /\ Good(seen[r][a])
  BY DEF TypeOK, NoticeRecorded
<1> HIDE DEF Good
<1>5. /\ \A a \in Alerts : Good(kv'[a])
      /\ \A i \in Isolates, a \in Alerts : Good(stateCache'[i][a]) /\ Good(pendingWrites'[i][a])
      /\ \A r \in Runs, a \in Alerts : Good(batch'[r][a]) /\ Good(seen'[r][a])
  BY <1>3, <1>4
<1>6. QED
  BY <1>2, <1>5 DEF NoticeRecorded

(* So does an evaluation from well-formed states.                           *)
LEMMA EvaluateWellFormed ==
    ASSUME TypeOK, NoticeRecorded, NEW r \in Runs, pc[r] # "idle",
           NEW p \in [Symbols -> Prices \cup {None}],
           NEW s \in [Alerts -> Snapshot \cup {None}],
           \A a \in Alerts : WellFormed(s[a], clock),
           Evaluate(r, p, s), UNCHANGED <<kv, clock, batch>>,
           \A q \in Runs, a \in Alerts : seen'[q][a] \in {None, seen[q][a]}
    PROVE  NoticeRecorded'
<1>1. clock \in Nat /\ clock >= Start /\ home[r] \in Isolates
  BY DEF TypeOK
<1>2. ASSUME NEW a \in Alerts, Judged(r, p, a)
      PROVE  WellFormed(NextOf(r, p, s, a), clock)
  <2>1. listed[r][a] \in AlertRecords
    BY <1>2 DEF TypeOK, Judged
  <2>2. p[listed[r][a].symbol] \in Prices
    BY <1>2, <2>1, RecordAssumption DEF Judged
  <2>3. QED
    BY <1>1, <2>1, <2>2, NextStateWellFormed DEF NextOf
<1>3. \A i \in Isolates, a \in Alerts :
        /\ \/ stateCache'[i][a] = stateCache[i][a]
           \/ Judged(r, p, a) /\ stateCache'[i][a] = NextOf(r, p, s, a)
        /\ \/ pendingWrites'[i][a] = pendingWrites[i][a]
           \/ Judged(r, p, a) /\ pendingWrites'[i][a] = NextOf(r, p, s, a)
  BY <1>1 DEF Evaluate, UpdateStateInCache, Updated, Stores, TypeOK
<1>4. \A i \in Isolates, a \in Alerts : /\ WellFormed(stateCache'[i][a], clock)
                                       /\ WellFormed(pendingWrites'[i][a], clock)
  BY <1>2, <1>3 DEF NoticeRecorded
<1>5. \A q \in Runs, a \in Alerts : WellFormed(seen'[q][a], clock)
  BY DEF NoticeRecorded, WellFormed
<1>6. QED
  BY <1>4, <1>5 DEF NoticeRecorded

(* Every copy of an alert's state carries the notification it reports,      *)
(* whatever the isolates, runs, failures, evictions and edits.              *)
THEOREM NoticesRecorded == Spec => []NoticeRecorded
<1>1. Init => NoticeRecorded
  BY DEF Init, NoticeRecorded, WellFormed, NoStates
<1>2. TypeOK /\ TypeOK' /\ NoticeRecorded /\ [Next]_vars => NoticeRecorded'
  <2> SUFFICES ASSUME TypeOK, TypeOK', NoticeRecorded, [Next]_vars PROVE NoticeRecorded'
    OBVIOUS
  <2>1. clock \in Nat /\ clock' \in Nat
    BY DEF TypeOK
  <2>2. CASE Tick
    <3>1. clock' >= clock
      BY <2>1, <2>2 DEF Tick
    <3>2. QED
      BY <2>1, <2>2, <3>1, CopiesWellFormed DEF Tick, isolateVars, runVars, inputVars
  <2>3. ASSUME UNCHANGED <<kv, clock, stateCache, pendingWrites, batch, seen>>
        PROVE  NoticeRecorded'
    BY <2>3 DEF NoticeRecorded
  <2>4. CASE Users \/ FireInVain \/ UNCHANGED vars
    BY <2>3, <2>4 DEF Users, CreateAlert, UpdateAlert, DeleteAlert, FireInVain, vars, timeVars,
                      isolateVars, runVars, inputVars
  <2>5. ASSUME NEW i \in Isolates, Evict(i) PROVE NoticeRecorded'
    <3>1. /\ \A j \in Isolates, a \in Alerts :
                /\ stateCache'[j][a] \in {None, stateCache[j][a]}
                /\ pendingWrites'[j][a] \in {None, pendingWrites[j][a]}
          /\ \A q \in Runs, a \in Alerts :
                batch'[q][a] \in {None, batch[q][a]} /\ seen'[q][a] \in {None, seen[q][a]}
          /\ kv' = kv /\ clock' = clock
      BY <2>5 DEF Evict, EndRun, NoStates, TypeOK, timeVars
    <3>2. QED
      BY <2>1, <3>1, CopiesWellFormed
  <2>6. ASSUME NEW r \in Runs, NEW i \in Isolates, Fire(r, i) PROVE NoticeRecorded'
    BY <2>3, <2>6 DEF Fire, isolateVars
  <2>7. ASSUME NEW r \in Runs, EndRun({r}),
               UNCHANGED <<kv, clock, stateCache>>,
               \A i \in Isolates, a \in Alerts :
                  pendingWrites'[i][a] \in {None, pendingWrites[i][a]}
        PROVE  NoticeRecorded'
    <3>1. \A q \in Runs, a \in Alerts :
            batch'[q][a] \in {None, batch[q][a]} /\ seen'[q][a] \in {None, seen[q][a]}
      BY <2>7 DEF EndRun, NoStates
    <3>2. QED
      BY <2>1, <2>7, <3>1, CopiesWellFormed
  <2>8. ASSUME NEW r \in Runs, NoQuoteArrives(r) \/ Finish(r) \/ NewsFlushDropped(r) \/ AbortSend(r)
        PROVE  NoticeRecorded'
    BY <2>7, <2>8 DEF NoQuoteArrives, Finish, NewsFlushDropped, AbortSend, timeVars, isolateVars
  <2>9. ASSUME NEW r \in Runs, EvaluateFromCache(r) PROVE NoticeRecorded'
    <3>1. PICK p \in Quotes(r) : Evaluate(r, p, stateCache[home[r]])
      BY <2>9 DEF EvaluateFromCache
    <3>2. /\ p \in [Symbols -> Prices \cup {None}]
          /\ pc[r] # "idle"
          /\ UNCHANGED <<kv, clock, batch, seen>>
      BY <2>9 DEF Quotes, EvaluateFromCache, timeVars
    <3>3. /\ stateCache[home[r]] \in [Alerts -> Snapshot \cup {None}]
          /\ \A a \in Alerts : WellFormed(stateCache[home[r]][a], clock)
      BY <3>2 DEF TypeOK, NoticeRecorded
    <3>4. QED
      BY <3>1, <3>2, <3>3, EvaluateWellFormed
  <2>10. ASSUME NEW r \in Runs, EvaluateLoaded(r) PROVE NoticeRecorded'
    <3>1. /\ prices[r] \in [Symbols -> Prices \cup {None}]
          /\ seen[r] \in [Alerts -> Snapshot \cup {None}]
          /\ \A a \in Alerts : WellFormed(seen[r][a], clock)
      BY DEF TypeOK, NoticeRecorded
    <3>2. /\ pc[r] # "idle"
          /\ Evaluate(r, prices[r], seen[r])
          /\ UNCHANGED <<kv, clock, batch>>
          /\ \A q \in Runs, a \in Alerts : seen'[q][a] \in {None, seen[q][a]}
      BY <2>10 DEF EvaluateLoaded, timeVars, NoStates, TypeOK
    <3>3. QED
      BY <3>1, <3>2, EvaluateWellFormed
  <2>11. ASSUME NEW r \in Runs, BeginLoad(r) \/ SkipFlush(r) PROVE NoticeRecorded'
    BY <2>3, <2>11 DEF BeginLoad, SkipFlush, timeVars, isolateVars, inputVars
  <2>12. ASSUME NEW r \in Runs, NEW a \in Alerts, ReadState(r, a) PROVE NoticeRecorded'
    <3>1. /\ \A i \in Isolates, b \in Alerts :
                stateCache'[i][b] = stateCache[i][b] \/ stateCache'[i][b] = kv[b]
          /\ \A q \in Runs, b \in Alerts : seen'[q][b] \in {seen[q][b], kv[b]}
      <4>1. CASE UNCHANGED <<stateCache, seen>>
        BY <4>1
      <4>2. CASE /\ stateCache' = [stateCache EXCEPT ![home[r]][a] = kv[a]]
                 /\ seen' = [seen EXCEPT ![r][a] = kv[a]]
        <5>1. \A i \in Isolates, b \in Alerts :
                 stateCache'[i][b] = stateCache[i][b] \/ stateCache'[i][b] = kv[b]
          BY <4>2 DEF TypeOK
        <5>2. \A q \in Runs, b \in Alerts : seen'[q][b] \in {seen[q][b], kv[b]}
          BY <4>2 DEF TypeOK
        <5>3. QED
          BY <5>1, <5>2
      <4>3. QED
        BY <2>12, <4>1, <4>2 DEF ReadState
    <3>2. UNCHANGED <<kv, clock, pendingWrites, batch>>
      BY <2>12 DEF ReadState, timeVars
    <3>3. QED
      BY <2>1, <3>1, <3>2, CopiesWellFormed
  <2>13. ASSUME NEW r \in Runs, NEW i \in Isolates,
                batch' = [batch EXCEPT ![r] = pendingWrites[i]],
                UNCHANGED <<kv, clock, stateCache, pendingWrites, seen>>
         PROVE  NoticeRecorded'
    <3>1. \A q \in Runs, a \in Alerts :
            batch'[q][a] = batch[q][a] \/ batch'[q][a] = pendingWrites[i][a]
      BY <2>13 DEF TypeOK
    <3>2. QED
      BY <2>1, <2>13, <3>1, CopiesWellFormed
  <2>14. ASSUME NEW r \in Runs, BeginFlush(r) PROVE NoticeRecorded'
    <3>1. home[r] \in Isolates
      BY <2>14 DEF BeginFlush, TypeOK
    <3>2. QED
      BY <2>13, <2>14, <3>1 DEF BeginFlush, StartWrites, timeVars, isolateVars, inputVars
  <2>15. ASSUME NEW r \in Runs, NEW i \in Isolates, NewsFlush(r, i) PROVE NoticeRecorded'
    BY <2>13, <2>15 DEF NewsFlush, StartWrites, timeVars, isolateVars, inputVars
  <2>16. ASSUME NEW r \in Runs, NEW a \in Alerts, PutSettles(r, a) PROVE NoticeRecorded'
    <3>1. /\ \A b \in Alerts : kv'[b] = kv[b] \/ kv'[b] = batch[r][b]
          /\ \A q \in Runs, b \in Alerts : batch'[q][b] \in {None, batch[q][b]}
      BY <2>16 DEF PutSettles, TypeOK
    <3>2. UNCHANGED <<clock, stateCache, pendingWrites, seen>>
      BY <2>16 DEF PutSettles, timeVars, isolateVars, inputVars
    <3>3. QED
      BY <2>1, <3>1, <3>2, CopiesWellFormed
  <2>17. ASSUME NEW r \in Runs, EndFlush(r) PROVE NoticeRecorded'
    <3>1. /\ \A i \in Isolates, a \in Alerts :
                pendingWrites'[i][a] \in {None, pendingWrites[i][a]}
          /\ UNCHANGED <<kv, clock, stateCache>>
      BY <2>17 DEF EndFlush, NoStates, TypeOK, timeVars
    <3>2. CASE EndRun({r})
      BY <2>7, <3>1, <3>2
    <3>3. CASE UNCHANGED <<inputVars, batch>>
      BY <2>1, <3>1, <3>3, CopiesWellFormed DEF inputVars
    <3>4. QED
      BY <2>17, <3>2, <3>3 DEF EndFlush
  <2>18. ASSUME NEW r \in Runs, NEW a \in Alerts, Deliver(r, a) PROVE NoticeRecorded'
    BY <2>3, <2>18 DEF Deliver, timeVars, isolateVars, inputVars
  <2>19. QED
    BY <2>2, <2>4, <2>5, <2>6, <2>8, <2>9, <2>10, <2>11, <2>12, <2>14, <2>15, <2>16, <2>17,
       <2>18 DEF Next, RunStep
<1>3. QED
  BY <1>1, <1>2, TypeCorrect, PTL DEF Spec

-----------------------------------------------------------------------------
(* In one isolate whose runs take turns, the cache remembers what it        *)
(* notified, so a repeated notification waits for the cooldown.             *)

(* What an evaluation leaves in the cache for an alert it judges is the next *)
(* state, stored or already there.                                          *)
LEMMA JudgedIsCached ==
    ASSUME TypeOK, NEW r \in Runs, pc[r] # "idle",
           NEW p \in [Symbols -> Prices \cup {None}],
           NEW s \in [Alerts -> Snapshot \cup {None}],
           NEW a \in Alerts,
           Evaluate(r, p, s), Judged(r, p, a),
           s[a] # None => stateCache[home[r]][a] = s[a]
    PROVE  /\ stateCache'[home[r]][a] = NextOf(r, p, s, a)
           /\ NextOf(r, p, s, a) # None
<1>1. NextOf(r, p, s, a) # None
  BY NextOfType, NoneAssumption
<1>2. home[r] \in Isolates
  BY DEF TypeOK
<1>3. stateCache'[home[r]][a] =
        IF Stores(r, p, s, a) THEN NextOf(r, p, s, a) ELSE stateCache[home[r]][a]
  BY <1>2 DEF Evaluate, UpdateStateInCache, Updated, TypeOK
<1>4. ~Stores(r, p, s, a) => s[a] = NextOf(r, p, s, a)
  BY DEF Stores, ShouldStore, NextOf
<1>5. QED
  BY <1>1, <1>3, <1>4

(* The next state of a notified alert is met, at the time of the notice; of *)
(* one that stays met without a notice, it keeps the time of the last.      *)
LEMMA NextOfNotice ==
    ASSUME NEW r \in Runs, NEW p, NEW s, NEW a \in Alerts, Judged(r, p, a),
           ~Lapsed(r, p, a)
    PROVE  /\ NextOf(r, p, s, a).met
           /\ Noticed(r, p, s, a) => NextOf(r, p, s, a).notAt = clock
           /\ ~Noticed(r, p, s, a) /\ s[a] # None => NextOf(r, p, s, a).notAt = s[a].notAt
BY DEF NextOf, NextState, Noticed, Lapsed

(* A notice about an alert already reported has let the cooldown pass.      *)
LEMMA RepeatIsCool ==
    ASSUME NEW r \in Runs, NEW p, NEW s, NEW a \in Alerts, Noticed(r, p, s, a),
           s[a] # None, s[a].met, s[a].notAt \in Nat \ {0}
    PROVE  clock - s[a].notAt >= Cooldown
BY NoneAssumption DEF Noticed, Notifies, FirstTime, MovedAgain, AlreadyReported, CooledDown

(* A cache that answers has been loaded in this life of the isolate.        *)
LEMMA WarmIsLoaded ==
    ASSUME TypeOK, NEW i \in Isolates, Warm(i)
    PROVE  cacheLoadedAt[i] > 0
BY TimeAssumption DEF TypeOK, Warm

(* An evaluation makes the cache remember what it decides, provided that    *)
(* the cache remembered, or is being loaded at this instant.                *)
LEMMA EvaluateRemembers ==
    ASSUME TypeOK, NEW r \in Runs, pc[r] \in {"prices", "load"},
           NEW p \in [Symbols -> Prices \cup {None}],
           NEW s \in [Alerts -> Snapshot \cup {None}],
           NEW i \in Isolates, home[r] = i, NEW loadedAt \in Nat,
           Evaluate(r, p, s),
           \A a \in Alerts : s[a] # None => stateCache[i][a] = s[a],
           \A a \in Alerts : lastNotice[a] # None /\ lastNotice[a] >= loadedAt
                             => Remembers(i, a) /\ s[a] = stateCache[i][a]
    PROVE  \A a \in Alerts : lastNotice'[a] # None /\ lastNotice'[a] >= loadedAt
                              => Remembers(i, a)'
<1> SUFFICES ASSUME NEW a \in Alerts, lastNotice'[a] # None, lastNotice'[a] >= loadedAt
             PROVE  Remembers(i, a)'
  OBVIOUS
<1>1. home[r] \in Isolates /\ pc[r] # "idle"
  BY DEF TypeOK
<1>2. lastNotice'[a] = IF Lapsed(r, p, a) THEN None
                       ELSE IF Noticed(r, p, s, a) THEN clock ELSE lastNotice[a]
  BY DEF Evaluate
<1>3. ~Lapsed(r, p, a)
  BY <1>2
<1>4. CASE Judged(r, p, a)
  <2>1. /\ stateCache'[i][a] = NextOf(r, p, s, a)
        /\ NextOf(r, p, s, a) # None
    BY <1>1, <1>4, JudgedIsCached
  <2>2. NextOf(r, p, s, a).met
    BY <1>3, <1>4, NextOfNotice
  <2>3. NextOf(r, p, s, a).notAt = lastNotice'[a]
    <3>1. CASE Noticed(r, p, s, a)
      BY <1>2, <1>3, <1>4, <3>1, NextOfNotice
    <3>2. CASE ~Noticed(r, p, s, a)
      <4>1. lastNotice'[a] = lastNotice[a]
        BY <1>2, <1>3, <3>2
      <4>2. s[a] # None /\ s[a].notAt = lastNotice[a]
        BY <4>1 DEF Remembers
      <4>3. QED
        BY <1>3, <1>4, <3>2, <4>1, <4>2, NextOfNotice
    <3>3. QED
      BY <3>1, <3>2
  <2>4. QED
    BY <2>1, <2>2, <2>3 DEF Remembers
<1>5. CASE ~Judged(r, p, a)
  <2>1. /\ lastNotice'[a] = lastNotice[a]
        /\ stateCache'[i][a] = stateCache[i][a]
    BY <1>1, <1>2, <1>3, <1>5 DEF Noticed, Evaluate, UpdateStateInCache, Updated, Stores, TypeOK
  <2>2. QED
    BY <2>1 DEF Remembers
<1>6. QED
  BY <1>4, <1>5

(* Steps that end runs, and change nothing else a run relies on.            *)
LEMMA EndRunWarm ==
    ASSUME TypeOK, WarmInv, NEW r \in Runs, EndRun({r}), pc[r] # "load",
           UNCHANGED <<clock, firedAt, stateCache, cacheLoadedAt, lastNotice>>
    PROVE  WarmInv'
<1>1. /\ pc'[r] = "idle"
      /\ \A a \in Alerts : seen'[r][a] = None
  BY DEF EndRun, NoStates
<1>2. \A q \in Runs : q # r => /\ pc'[q] = pc[q] /\ home'[q] = home[q]
                               /\ seen'[q] = seen[q] /\ since'[q] = since[q]
  BY DEF EndRun
<1>3. OneAtATime' /\ NoticesPast'
  BY <1>1, <1>2 DEF WarmInv, OneAtATime, NoticesPast
<1>4. FreshRun'
  <2> SUFFICES ASSUME NEW q \in Runs, pc'[q] \in {"prices", "load"}
               PROVE  /\ firedAt' = clock'
                      /\ \A a \in Alerts : lastNotice'[a] # None => lastNotice'[a] < clock'
                      /\ pc'[q] = "load" => since'[q] = clock'
    BY DEF FreshRun
  <2>1. pc'[q] = pc[q] /\ since'[q] = since[q]
    BY <1>1, <1>2
  <2>2. QED
    BY <2>1 DEF WarmInv, FreshRun
<1>5. SeenIsCached'
  <2> SUFFICES ASSUME NEW q \in Runs, NEW a \in Alerts, seen'[q][a] # None
               PROVE  pc'[q] = "load" /\ stateCache'[home'[q]][a] = seen'[q][a]
    BY DEF SeenIsCached
  <2>1. q # r
    BY <1>1
  <2>2. QED
    BY <1>2, <2>1 DEF WarmInv, SeenIsCached
<1>6. CacheRemembers'
  <2> SUFFICES ASSUME \A q \in Runs : pc'[q] # "load"
               PROVE  CacheRemembers'
    BY DEF CacheRemembers
  <2>1. \A q \in Runs : pc[q] # "load"
    BY <1>2
  <2>2. QED
    BY <2>1 DEF WarmInv, CacheRemembers, Remembers
<1>7. QED
  BY <1>3, <1>4, <1>5, <1>6 DEF WarmInv

(* A run that moves on to flush, write or send.                             *)
LEMMA MoveOnWarm ==
    ASSUME TypeOK, WarmInv, NEW r \in Runs, pc[r] \in {"flush", "put", "send"},
           NEW where \in {"put", "send"},
           pc' = [pc EXCEPT ![r] = where],
           UNCHANGED <<clock, firedAt, stateCache, cacheLoadedAt, lastNotice, home, seen>>,
           \A q \in Runs : q # r => since'[q] = since[q]
    PROVE  WarmInv'
<1>1. \A q \in Runs : /\ pc[q] = "load" <=> pc'[q] = "load"
                      /\ pc[q] = "prices" <=> pc'[q] = "prices"
                      /\ pc[q] = "idle" <=> pc'[q] = "idle"
                      /\ pc[q] = "load" => q # r
  BY DEF TypeOK
<1>2. OneAtATime' /\ NoticesPast'
  BY <1>1 DEF WarmInv, OneAtATime, NoticesPast
<1>3. FreshRun' /\ SeenIsCached'
  BY <1>1 DEF WarmInv, FreshRun, SeenIsCached
<1>4. CacheRemembers'
  BY <1>1 DEF WarmInv, CacheRemembers, Remembers
<1>5. QED
  BY <1>2, <1>3, <1>4 DEF WarmInv

(* An evaluation, from the cache or from a load that ends now.              *)
LEMMA EvaluateWarm ==
    ASSUME TypeOK, WarmInv, Alone,
           NEW r \in Runs, pc[r] \in {"prices", "load"},
           NEW i \in Isolates, home[r] = i,
           NEW p \in [Symbols -> Prices \cup {None}],
           NEW s \in [Alerts -> Snapshot \cup {None}],
           Evaluate(r, p, s), UNCHANGED <<clock, firedAt, home>>,
           cacheLoadedAt'[i] \in Nat,
           \A q \in Runs, a \in Alerts : seen'[q][a] = None,
           \A a \in Alerts : s[a] # None => stateCache[i][a] = s[a],
           \A a \in Alerts : lastNotice[a] # None /\ lastNotice[a] >= cacheLoadedAt'[i]
                             => Remembers(i, a) /\ s[a] = stateCache[i][a]
    PROVE  WarmInv'
<1>1. \A q \in Runs : pc'[q] = IF q = r THEN "flush" ELSE "idle"
  BY DEF Evaluate, WarmInv, OneAtATime, TypeOK
<1>2. OneAtATime' /\ FreshRun' /\ SeenIsCached'
  BY <1>1 DEF OneAtATime, FreshRun, SeenIsCached
<1>3. NoticesPast'
  BY DEF Evaluate, WarmInv, NoticesPast, FreshRun, TypeOK
<1>4. CacheRemembers'
  <2>1. PICK loadedAt \in Nat : loadedAt = cacheLoadedAt'[i]
    OBVIOUS
  <2>2. \A a \in Alerts : lastNotice'[a] # None /\ lastNotice'[a] >= loadedAt
                           => Remembers(i, a)'
    BY <2>1, EvaluateRemembers
  <2>3. \A j \in Isolates : j = i
    BY DEF Alone
  <2>4. QED
    BY <2>1, <2>2, <2>3 DEF CacheRemembers
<1>5. QED
  BY <1>2, <1>3, <1>4 DEF WarmInv

(* Every step of the cron keeps WarmInv.                                    *)
LEMMA WarmStep ==
    ASSUME TypeOK, TypeOK', WarmInv, Alone, [Next]_vars
    PROVE  WarmInv'
<1>1. ASSUME UNCHANGED <<clock, firedAt, stateCache, cacheLoadedAt, lastNotice, pc, home, seen, since>>
      PROVE  WarmInv'
  BY <1>1 DEF WarmInv, OneAtATime, FreshRun, NoticesPast, SeenIsCached, CacheRemembers, Remembers
<1>2. CASE Users \/ UNCHANGED vars \/ \E r \in Runs, a \in Alerts : PutSettles(r, a) \/ Deliver(r, a)
  BY <1>1, <1>2 DEF Users, CreateAlert, UpdateAlert, DeleteAlert, PutSettles, Deliver, vars,
                    timeVars, isolateVars, runVars, inputVars
<1>3. CASE Tick
  BY <1>3 DEF Tick, Alone, AllIdle, TypeOK, isolateVars, runVars, inputVars,
              WarmInv, OneAtATime, FreshRun, NoticesPast, SeenIsCached, CacheRemembers, Remembers
<1>4. CASE FireInVain
  BY <1>4 DEF FireInVain, CanStart, Alone, AllIdle, TypeOK, isolateVars, runVars, inputVars,
              WarmInv, OneAtATime, FreshRun, NoticesPast, SeenIsCached, CacheRemembers, Remembers
<1>5. ASSUME NEW r \in Runs, NEW i \in Isolates, Fire(r, i) PROVE WarmInv'
  <2>1. AllIdle
    BY <1>5 DEF Fire, CanStart, Alone
  <2>2. \A q \in Runs, a \in Alerts : seen[q][a] = None
    BY <2>1 DEF AllIdle, WarmInv, SeenIsCached
  <2>3. /\ \A q \in Runs : pc'[q] = IF q = r THEN "prices" ELSE "idle"
        /\ clock > firedAt /\ firedAt' = clock
        /\ UNCHANGED <<clock, stateCache, cacheLoadedAt, lastNotice, seen, since>>
    BY <1>5, <2>1 DEF Fire, AllIdle, isolateVars, TypeOK
  <2>4. OneAtATime' /\ SeenIsCached'
    BY <2>2, <2>3 DEF OneAtATime, SeenIsCached
  <2>5. FreshRun' /\ NoticesPast'
    BY <2>3 DEF WarmInv, FreshRun, NoticesPast, TypeOK
  <2>6. CacheRemembers'
    BY <2>1, <2>3 DEF WarmInv, CacheRemembers, Remembers, AllIdle
  <2>7. QED
    BY <2>4, <2>5, <2>6 DEF WarmInv
<1>6. ASSUME NEW r \in Runs, NEW i \in Isolates, NewsFlush(r, i) PROVE WarmInv'
  <2>1. AllIdle
    BY <1>6 DEF NewsFlush, CanStart, Alone
  <2>2. \A q \in Runs, a \in Alerts : seen[q][a] = None
    BY <2>1 DEF AllIdle, WarmInv, SeenIsCached
  <2>3. /\ \A q \in Runs : pc'[q] = IF q = r THEN "news" ELSE "idle"
        /\ UNCHANGED <<clock, firedAt, stateCache, cacheLoadedAt, lastNotice, seen>>
    BY <1>6, <2>1 DEF NewsFlush, AllIdle, isolateVars, timeVars, inputVars, TypeOK
  <2>4. OneAtATime' /\ SeenIsCached'
    BY <2>2, <2>3 DEF OneAtATime, SeenIsCached
  <2>5. FreshRun' /\ NoticesPast'
    BY <2>3 DEF WarmInv, FreshRun, NoticesPast
  <2>6. CacheRemembers'
    BY <2>1, <2>3 DEF WarmInv, CacheRemembers, Remembers, AllIdle
  <2>7. QED
    BY <2>4, <2>5, <2>6 DEF WarmInv
<1>7. ASSUME NEW i \in Isolates, Evict(i) PROVE WarmInv'
  <2>1. /\ \A q \in Runs : pc[q] # "idle" => home[q] = i
        /\ \A j \in Isolates : cacheLoadedAt'[j] = 0
        /\ UNCHANGED <<clock, firedAt, lastNotice>>
    BY <1>7 DEF Evict, Alone, TypeOK, timeVars
  <2>2. \A q \in Runs : pc'[q] = "idle"
    BY <1>7, <2>1 DEF Evict, EndRun
  <2>3. \A q \in Runs, a \in Alerts : seen'[q][a] = None
    <3> SUFFICES ASSUME NEW q \in Runs, NEW a \in Alerts PROVE seen'[q][a] = None
      OBVIOUS
    <3>1. CASE home[q] = i
      BY <1>7, <3>1 DEF Evict, EndRun, NoStates
    <3>2. CASE home[q] # i
      BY <1>7, <2>1, <3>2 DEF Evict, EndRun, WarmInv, SeenIsCached
    <3>3. QED
      BY <3>1, <3>2
  <2>4. QED
    BY <2>1, <2>2, <2>3 DEF WarmInv, OneAtATime, FreshRun, NoticesPast, SeenIsCached,
                            CacheRemembers
<1>8. ASSUME NEW r \in Runs, NoQuoteArrives(r) \/ Finish(r) \/ NewsFlushDropped(r) \/ AbortSend(r)
      PROVE  WarmInv'
  BY <1>8, EndRunWarm DEF NoQuoteArrives, Finish, NewsFlushDropped, AbortSend, timeVars, isolateVars
<1>9. ASSUME NEW r \in Runs, EndFlush(r) PROVE WarmInv'
  <2>1. UNCHANGED <<clock, firedAt, stateCache, cacheLoadedAt, lastNotice>>
    BY <1>9 DEF EndFlush, timeVars
  <2>2. CASE EndRun({r})
    BY <1>9, <2>1, <2>2, EndRunWarm DEF EndFlush
  <2>3. CASE /\ pc[r] = "put"
             /\ pc' = [pc EXCEPT ![r] = "send"]
             /\ since' = [since EXCEPT ![r] = 0]
             /\ UNCHANGED <<home, inputVars, batch, todo>>
    BY <2>1, <2>3, MoveOnWarm DEF inputVars, TypeOK
  <2>4. QED
    BY <1>9, <2>2, <2>3 DEF EndFlush
<1>10. ASSUME NEW r \in Runs, SkipFlush(r) \/ BeginFlush(r) PROVE WarmInv'
  BY <1>10, MoveOnWarm DEF SkipFlush, BeginFlush, StartWrites, timeVars, isolateVars, inputVars, TypeOK
<1>11. ASSUME NEW r \in Runs, BeginLoad(r) PROVE WarmInv'
  <2>1. /\ pc[r] = "prices" /\ pc' = [pc EXCEPT ![r] = "load"]
        /\ since' = [since EXCEPT ![r] = clock]
        /\ UNCHANGED <<clock, firedAt, stateCache, cacheLoadedAt, lastNotice, home, seen>>
    BY <1>11 DEF BeginLoad, timeVars, isolateVars
  <2>2. \A q \in Runs : pc'[q] # "idle" <=> q = r
    BY <2>1 DEF WarmInv, OneAtATime, TypeOK
  <2>3. pc'[r] = "load" /\ since'[r] = clock
    BY <2>1 DEF TypeOK
  <2>4. OneAtATime' /\ FreshRun' /\ NoticesPast' /\ CacheRemembers'
    BY <2>1, <2>2, <2>3 DEF WarmInv, OneAtATime, FreshRun, NoticesPast, CacheRemembers
  <2>5. SeenIsCached'
    BY <2>1, <2>3 DEF WarmInv, SeenIsCached, TypeOK
  <2>6. QED
    BY <2>4, <2>5 DEF WarmInv
<1>12. ASSUME NEW r \in Runs, NEW a \in Alerts, ReadState(r, a) PROVE WarmInv'
  <2>1. /\ pc[r] = "load" /\ home[r] \in Isolates
        /\ UNCHANGED <<clock, firedAt, cacheLoadedAt, lastNotice, pc, home, since>>
    BY <1>12 DEF ReadState, timeVars, TypeOK
  <2>2. OneAtATime' /\ FreshRun' /\ NoticesPast' /\ CacheRemembers'
    BY <2>1 DEF WarmInv, OneAtATime, FreshRun, NoticesPast, CacheRemembers
  <2>3. SeenIsCached'
    <3>1. CASE UNCHANGED <<stateCache, seen>>
      BY <2>1, <3>1 DEF WarmInv, SeenIsCached
    <3>2. CASE /\ stateCache' = [stateCache EXCEPT ![home[r]][a] = kv[a]]
               /\ seen' = [seen EXCEPT ![r][a] = kv[a]]
      <4>1. \A q \in Runs, b \in Alerts : seen'[q][b] # None => q = r
        <5>1. \A q \in Runs : q # r => seen'[q] = seen[q]
          BY <3>2 DEF TypeOK
        <5>2. \A q \in Runs : q # r => pc[q] # "load"
          BY <2>1 DEF WarmInv, OneAtATime
        <5>3. QED
          BY <5>1, <5>2 DEF WarmInv, SeenIsCached
      <4>2. \A b \in Alerts : seen'[r][b] # None => stateCache'[home[r]][b] = seen'[r][b]
        BY <2>1, <3>2 DEF WarmInv, SeenIsCached, TypeOK
      <4>3. QED
        BY <2>1, <4>1, <4>2 DEF SeenIsCached
    <3>3. QED
      BY <1>12, <3>1, <3>2 DEF ReadState
  <2>4. QED
    BY <2>2, <2>3 DEF WarmInv
<1>13. ASSUME NEW r \in Runs, EvaluateFromCache(r) PROVE WarmInv'
  <2>1. PICK p \in Quotes(r) : Evaluate(r, p, stateCache[home[r]])
    BY <1>13 DEF EvaluateFromCache
  <2>2. /\ pc[r] = "prices" /\ Warm(home[r])
        /\ p \in [Symbols -> Prices \cup {None}]
        /\ UNCHANGED <<clock, firedAt, home, cacheLoadedAt, seen>>
    BY <1>13 DEF EvaluateFromCache, Quotes, timeVars
  <2>3. /\ home[r] \in Isolates
        /\ stateCache[home[r]] \in [Alerts -> Snapshot \cup {None}]
        /\ cacheLoadedAt[home[r]] \in Nat \ {0}
    BY <2>2, WarmIsLoaded DEF TypeOK
  <2>4. \A q \in Runs : pc[q] # "load"
    BY <2>2 DEF WarmInv, OneAtATime
  <2>5. \A q \in Runs, a \in Alerts : seen'[q][a] = None
    BY <2>2, <2>4 DEF WarmInv, SeenIsCached
  <2>6. \A a \in Alerts : lastNotice[a] # None /\ lastNotice[a] >= cacheLoadedAt[home[r]]
                          => Remembers(home[r], a)
    BY <2>3, <2>4 DEF WarmInv, CacheRemembers
  <2>7. PICK i \in Isolates : home[r] = i
    BY <2>3
  <2>8. /\ cacheLoadedAt'[i] = cacheLoadedAt[i]
        /\ stateCache[i] \in [Alerts -> Snapshot \cup {None}]
        /\ Evaluate(r, p, stateCache[i])
        /\ cacheLoadedAt[i] \in Nat
    BY <2>1, <2>2, <2>3, <2>7
  <2>9. QED
    BY <2>2, <2>5, <2>6, <2>7, <2>8, EvaluateWarm
<1>14. ASSUME NEW r \in Runs, EvaluateLoaded(r) PROVE WarmInv'
  <2>1. /\ pc[r] = "load" /\ home[r] \in Isolates
        /\ prices[r] \in [Symbols -> Prices \cup {None}]
        /\ seen[r] \in [Alerts -> Snapshot \cup {None}]
        /\ Evaluate(r, prices[r], seen[r])
        /\ cacheLoadedAt' = [cacheLoadedAt EXCEPT ![home[r]] = since[r]]
        /\ UNCHANGED <<clock, firedAt, home>>
    BY <1>14 DEF EvaluateLoaded, TypeOK, timeVars
  <2>2. /\ since[r] = clock /\ clock \in Nat \ {0}
        /\ \A a \in Alerts : lastNotice[a] # None => lastNotice[a] < clock
    BY <2>1, TimeAssumption DEF WarmInv, FreshRun, TypeOK
  <2>3. \A a \in Alerts : lastNotice[a] # None => ~(lastNotice[a] >= clock)
    BY <2>2 DEF TypeOK
  <2>4. \A q \in Runs, a \in Alerts : seen'[q][a] = None
    <3>1. \A q \in Runs : seen'[q] = IF q = r THEN NoStates ELSE seen[q]
      BY <1>14 DEF EvaluateLoaded, TypeOK
    <3>2. \A q \in Runs : q # r => pc[q] # "load"
      BY <2>1 DEF WarmInv, OneAtATime
    <3>3. QED
      BY <3>1, <3>2 DEF WarmInv, SeenIsCached, NoStates
  <2>5. \A a \in Alerts : seen[r][a] # None => stateCache[home[r]][a] = seen[r][a]
    BY DEF WarmInv, SeenIsCached
  <2>6. PICK i \in Isolates : home[r] = i
    BY <2>1
  <2>7. cacheLoadedAt'[i] = clock
    BY <2>1, <2>2, <2>6 DEF TypeOK
  <2>8. QED
    BY <2>1, <2>2, <2>3, <2>4, <2>5, <2>6, <2>7, EvaluateWarm
<1>15. QED
  BY <1>2, <1>3, <1>4, <1>5, <1>6, <1>7, <1>8, <1>9, <1>10, <1>11, <1>12, <1>13, <1>14
     DEF Next, RunStep

(* WarmInv is an invariant of the cron in one isolate whose runs take turns. *)
THEOREM WarmInvariant == ASSUME Alone PROVE Spec => []WarmInv
<1>1. Init => WarmInv
  BY NoneAssumption DEF Init, WarmInv, OneAtATime, FreshRun, NoticesPast, SeenIsCached,
                        CacheRemembers, NoStates
<1>2. TypeOK /\ TypeOK' /\ WarmInv /\ [Next]_vars => WarmInv'
  BY WarmStep
<1>3. QED
  BY <1>1, <1>2, TypeCorrect, PTL DEF Spec

(* Only an evaluation decides to notify.                                    *)
LEMMA WhoDecides ==
    ASSUME TypeOK, [Next]_vars, NEW r \in Runs, NEW a \in Alerts, Decides(r, a)
    PROVE  EvaluateFromCache(r) \/ EvaluateLoaded(r)
<1>1. ASSUME UNCHANGED todo PROVE FALSE
  BY <1>1 DEF Decides
<1>2. CASE Users \/ UNCHANGED vars \/ Tick \/ FireInVain
  BY <1>1, <1>2 DEF Users, CreateAlert, UpdateAlert, DeleteAlert, Tick, FireInVain, vars, runVars
<1>3. ASSUME NEW R, EndRun(R) PROVE FALSE
  BY <1>3 DEF EndRun, Decides
<1>4. CASE \E i \in Isolates : Evict(i)
  BY <1>3, <1>4 DEF Evict
<1>5. ASSUME NEW q \in Runs, NEW i \in Isolates, Fire(q, i) \/ NewsFlush(q, i) PROVE FALSE
  BY <1>1, <1>5 DEF Fire, NewsFlush
<1>6. ASSUME NEW q \in Runs,
             NoQuoteArrives(q) \/ NewsFlushDropped(q) \/ AbortSend(q) \/ Finish(q)
      PROVE  FALSE
  BY <1>3, <1>6 DEF NoQuoteArrives, NewsFlushDropped, AbortSend, Finish
<1>7. ASSUME NEW q \in Runs, BeginLoad(q) \/ SkipFlush(q) \/ BeginFlush(q) \/ EndFlush(q)
      PROVE  FALSE
  BY <1>1, <1>3, <1>7 DEF BeginLoad, SkipFlush, BeginFlush, EndFlush
<1>8. ASSUME NEW q \in Runs, NEW b \in Alerts, ReadState(q, b) \/ PutSettles(q, b) PROVE FALSE
  BY <1>1, <1>8 DEF ReadState, PutSettles
<1>9. ASSUME NEW q \in Runs, NEW b \in Alerts, Deliver(q, b) PROVE FALSE
  BY <1>9 DEF Deliver, Decides, TypeOK
<1>10. ASSUME NEW q \in Runs, EvaluateFromCache(q) \/ EvaluateLoaded(q) PROVE q = r
  BY <1>10 DEF EvaluateFromCache, EvaluateLoaded, Evaluate, Decides, TypeOK
<1>11. QED
  BY <1>2, <1>4, <1>5, <1>6, <1>7, <1>8, <1>9, <1>10 DEF Next, RunStep

(* A decision taken from the cache respects the cooldown; one taken from    *)
(* freshly loaded states is later than every notice before the load.        *)
LEMMA WarmDecision ==
    ASSUME TypeOK, WarmInv, [Next]_vars, NEW r \in Runs, NEW a \in Alerts,
           Decides(r, a), lastNotice[a] # None, lastNotice[a] >= cacheLoadedAt'[home[r]]
    PROVE  clock - lastNotice[a] >= Cooldown
<1>1. CASE EvaluateLoaded(r)
  <2>1. pc[r] = "load" /\ home[r] \in Isolates /\ cacheLoadedAt'[home[r]] = since[r]
    BY <1>1 DEF EvaluateLoaded, TypeOK
  <2>2. since[r] = clock /\ lastNotice[a] < clock
    BY <2>1 DEF WarmInv, FreshRun
  <2>3. clock \in Nat /\ lastNotice[a] \in Nat
    BY DEF TypeOK
  <2>4. QED
    BY <2>1, <2>2, <2>3
<1>2. CASE EvaluateFromCache(r)
  <2>1. /\ pc[r] = "prices" /\ Warm(home[r]) /\ home[r] \in Isolates
        /\ cacheLoadedAt' = cacheLoadedAt
    BY <1>2 DEF EvaluateFromCache, TypeOK
  <2>2. cacheLoadedAt[home[r]] > 0
    BY <2>1, WarmIsLoaded
  <2>3. \A q \in Runs : pc[q] # "load"
    BY <2>1 DEF WarmInv, OneAtATime
  <2>4. Remembers(home[r], a)
    BY <2>1, <2>2, <2>3 DEF WarmInv, CacheRemembers
  <2>5. PICK p \in Quotes(r) : Noticed(r, p, stateCache[home[r]], a)
    BY <1>2 DEF EvaluateFromCache, Evaluate, Decides, TypeOK
  <2>6. lastNotice[a] \in Nat \ {0}
    BY <2>2, <2>1 DEF TypeOK
  <2>7. QED
    BY <2>4, <2>5, <2>6, RepeatIsCool DEF Remembers
<1>3. QED
  BY <1>1, <1>2, WhoDecides

(* In one isolate whose runs take turns, the in-memory state keeps an alert *)
(* quiet for the cooldown whatever happens to the writes it queues.         *)
THEOREM WarmCacheKeepsQuiet == ASSUME Alone PROVE Spec => NoRepeatWhileWarm
<1>1. TypeOK /\ WarmInv /\ [Next]_vars =>
        [\A r \in Runs, a \in Alerts :
           /\ Decides(r, a)
           /\ lastNotice[a] # None
           /\ lastNotice[a] >= cacheLoadedAt'[home[r]]
           => clock - lastNotice[a] >= Cooldown]_vars
  BY WarmDecision
<1>2. QED
  BY <1>1, TypeCorrect, WarmInvariant, PTL DEF Spec, NoRepeatWhileWarm

-----------------------------------------------------------------------------
(* When the state in KV is the state every run evaluates from.              *)

(* A decided notification changes the state: it is never written as it was. *)
LEMMA NotifiedIsStored ==
    ASSUME Cooldown > 0, NEW alert \in AlertRecords, NEW price \in Prices,
           NEW prev \in Snapshot \cup {None}, NEW now \in Nat \ {0},
           Notifies(alert, price, prev, now)
    PROVE  ShouldStore(alert, price, prev, now)
<1> DEFINE next == NextState(alert, price, prev, now)
<1>1. next.notAt = now /\ (next.met <=> ConditionMet(alert, price))
  BY DEF NextState
<1>2. CASE FirstTime(alert, price, prev)
  <2>1. ConditionMet(alert, price) /\ ~AlreadyReported(prev)
    BY <1>2 DEF FirstTime
  <2>2. prev # None => ~prev.met
    BY <2>1 DEF AlreadyReported
  <2>3. next \in Snapshot
    BY NextStateType
  <2>4. next # prev
    BY <1>1, <2>1, <2>2, <2>3, NoneAssumption
  <2> QED
    BY <2>4 DEF ShouldStore
<1>3. CASE MovedAgain(alert, price, prev, now)
  <2>1. prev # None /\ CooledDown(prev, now)
    BY <1>3 DEF MovedAgain, AlreadyReported
  <2>2. prev.notAt \in Nat \cup {None}
    BY <2>1 DEF Snapshot
  <2>3. prev.notAt # now
    BY <2>1, <2>2, NoneAssumption, EvaluationConstants DEF CooledDown
  <2> QED
    BY <1>1, <2>3 DEF ShouldStore
<1> QED
  BY <1>2, <1>3 DEF Notifies

(* A run in hand is the only one.                                           *)
LEMMA OthersIdle ==
    ASSUME WarmInv, NEW r \in Runs, pc[r] # "idle"
    PROVE  \A q \in Runs : q # r => pc[q] = "idle"
BY DEF WarmInv, OneAtATime

(* Nothing is queued or being written unless a run is writing.              *)
LEMMA NothingQueued ==
    ASSUME TypeOK, QueueWritten, \A r \in Runs : pc[r] \notin {"flush", "put"}
    PROVE  /\ \A i \in Isolates, a \in Alerts : pendingWrites[i][a] = None
           /\ \A r \in Runs, a \in Alerts : batch[r][a] = None
BY DEF QueueWritten

(* An evaluation of what KV holds.                                          *)
LEMMA EvaluateDurable ==
    ASSUME TypeOK, TypeOK', WarmInv, Durable, DurableInv,
           NEW r \in Runs, Listing(r), NEW i \in Isolates, home[r] = i,
           NEW p \in [Symbols -> Prices \cup {None}],
           NEW s \in [Alerts -> Snapshot \cup {None}],
           Evaluate(r, p, s),
           \A a \in Alerts : listed[r][a] # None => s[a] = kv[a],
           \A a \in Alerts : kv[a] # None /\ alerts[a] # None => stateCache[i][a] # None,
           UNCHANGED <<tableVars, kv, timeVars, lastKvWriteTime, home, batch>>
    PROVE  DurableInv'
<1> USE DEF DurableInv
<1>1. \A q \in Runs : pc'[q] = IF q = r THEN "flush" ELSE "idle"
  BY OthersIdle DEF Evaluate, Listing, TypeOK
<1>2. \A q \in Runs : pc[q] \notin {"flush", "put"}
  BY OthersIdle DEF Listing
<1>3. /\ \A j \in Isolates, a \in Alerts : pendingWrites[j][a] = None
      /\ \A q \in Runs, a \in Alerts : batch[q][a] = None
  BY <1>2, NothingQueued
<1>4. \A j \in Isolates : j = i
  BY DEF Durable, Alone
<1>5. \A a \in Alerts :
        /\ pendingWrites'[i][a] = IF Stores(r, p, s, a) THEN NextOf(r, p, s, a) ELSE None
        /\ stateCache'[i][a] = IF Stores(r, p, s, a) THEN NextOf(r, p, s, a)
                                                    ELSE stateCache[i][a]
  BY <1>3 DEF Evaluate, UpdateStateInCache, Updated, TypeOK
<1>6. \A a \in Alerts : Stores(r, p, s, a) => NextOf(r, p, s, a) # None
  BY NextOfType, NoneAssumption DEF Stores
<1>7. Punctual'
  <2>1. UNCHANGED <<lastKvWriteTime, firedAt, clock>>
    BY DEF timeVars
  <2> QED
    BY <1>1, <2>1 DEF Punctual, Listing
<1>8. QueueWritten'
  <2>1. \A j \in Isolates, a \in Alerts :
           pendingWrites'[j][a] # None => stateCache'[j][a] = pendingWrites'[j][a]
    BY <1>4, <1>5
  <2>2. pc'[r] = "flush"
    BY <1>1
  <2>3. \A q \in Runs, a \in Alerts : batch'[q][a] = None
    BY <1>3
  <2> QED
    BY <2>1, <2>2, <2>3 DEF QueueWritten
<1>9. CacheIsKv'
  <2>1. \A q \in Runs : ~Listing(q)'
    BY <1>1 DEF Listing
  <2>2. ASSUME NEW a \in Alerts, stateCache'[i][a] # None, pendingWrites'[i][a] = None
        PROVE  kv'[a] = stateCache'[i][a]
    BY <1>3, <1>5, <1>6, <2>2 DEF CacheIsKv
  <2>3. ASSUME NEW a \in Alerts, kv'[a] # None, alerts'[a] # None
        PROVE  stateCache'[i][a] # None
    BY <1>5, <1>6, <2>3 DEF tableVars
  <2> QED
    BY <1>4, <2>1, <2>2, <2>3 DEF CacheIsKv
<1>10. LoadSees'
  <2>1. ASSUME NEW a \in Alerts, pendingWrites'[i][a] # None PROVE a \in issued
    BY <1>5, <2>1 DEF Stores, Judged, LoadSees
  <2>2. \A q \in Runs : ~Listing(q)' /\ pc'[q] # "load"
    BY <1>1 DEF Listing
  <2> QED
    BY <1>4, <2>1, <2>2 DEF LoadSees, tableVars
<1>11. FlushJudged'
  <2>1. ASSUME NEW a \in Alerts, Stores(r, p, s, a)
        PROVE  Evaluated(a, NextOf(r, p, s, a), Noticed(r, p, s, a))
    <3>1. Judged(r, p, a) /\ listed[r][a] \in AlertRecords /\ s[a] = kv[a]
      BY <2>1 DEF Stores, Judged, TypeOK
    <3>2. p[listed[r][a].symbol] \in Prices
      BY <3>1, RecordAssumption DEF Judged
    <3>3. NextOf(r, p, s, a) = NextState(listed[r][a], p[listed[r][a].symbol], kv[a], clock)
      BY <3>1 DEF NextOf
    <3>4. Noticed(r, p, s, a) <=> Notifies(listed[r][a], p[listed[r][a].symbol], kv[a], clock)
      BY <3>1 DEF Noticed
    <3> QED
      BY <3>1, <3>2, <3>3, <3>4 DEF Evaluated
  <2>2. ASSUME NEW a \in Alerts, Noticed(r, p, s, a) PROVE Stores(r, p, s, a)
    <3>1. Judged(r, p, a) /\ listed[r][a] \in AlertRecords
      BY <2>2 DEF Noticed, Judged, TypeOK
    <3>2. p[listed[r][a].symbol] \in Prices
      BY <3>1, RecordAssumption DEF Judged
    <3>3. clock \in Nat \ {0}
      BY TimeAssumption DEF TypeOK
    <3>4. Notifies(listed[r][a], p[listed[r][a].symbol], s[a], clock)
      BY <2>2 DEF Noticed
    <3> QED
      BY <3>1, <3>2, <3>3, <3>4, NotifiedIsStored DEF Stores, Durable
  <2>3. todo'[r] = {a \in Alerts : Noticed(r, p, s, a)}
    BY DEF Evaluate, TypeOK
  <2>4. \A a \in Alerts : Unwritten(r, a)' = pendingWrites'[i][a]
    BY <1>1 DEF Unwritten
  <2>5. ASSUME NEW a \in Alerts, Unwritten(r, a)' # None
        PROVE  Evaluated(a, Unwritten(r, a), a \in todo[r])'
    <3>1. Stores(r, p, s, a) /\ Unwritten(r, a)' = NextOf(r, p, s, a)
      BY <1>5, <2>4, <2>5
    <3>2. Evaluated(a, NextOf(r, p, s, a), Noticed(r, p, s, a))
      BY <2>1, <3>1
    <3>3. a \in todo'[r] <=> Noticed(r, p, s, a)
      BY <2>3
    <3> QED
      BY <3>1, <3>2, <3>3 DEF Evaluated, timeVars
  <2>6. ASSUME NEW a \in Alerts, a \in todo'[r] PROVE Unwritten(r, a)' # None
    BY <1>5, <1>6, <2>2, <2>3, <2>4, <2>6
  <2> QED
    BY <1>1, <2>5, <2>6 DEF FlushJudged
<1> QED
  BY <1>7, <1>8, <1>9, <1>10, <1>11

(* Where nothing is queued, runs may end.                                   *)
LEMMA EndDurable ==
    ASSUME TypeOK, TypeOK', DurableInv, \A q \in Runs : pc[q] \notin {"flush", "put"},
           \A q \in Runs : pc'[q] = "idle",
           \A q \in Runs, a \in Alerts : batch'[q][a] = None,
           UNCHANGED <<tableVars, kv, clock, isolateVars>>, firedAt' >= firedAt
    PROVE  DurableInv'
<1> USE DEF DurableInv, isolateVars
<1>1. \A i \in Isolates, a \in Alerts : pendingWrites[i][a] = None
  BY NothingQueued
<1>2. Punctual'
  BY DEF Punctual, TypeOK
<1>3. QueueWritten'
  BY <1>1 DEF QueueWritten
<1>4. CacheIsKv'
  BY DEF CacheIsKv, Listing, tableVars
<1>5. LoadSees'
  BY DEF LoadSees, Listing, tableVars
<1>6. FlushJudged'
  BY DEF FlushJudged
<1> QED
  BY <1>2, <1>3, <1>4, <1>5, <1>6

(* The isolate is evicted: what it queued is gone, KV stays.                *)
LEMMA EvictDurable ==
    ASSUME TypeOK, Durable, DurableInv, NEW i \in Isolates, Evict(i)
    PROVE  DurableInv'
<1> USE DEF DurableInv
<1>1. \A j \in Isolates : j = i
  BY DEF Durable, Alone
<1>2. \A q \in Runs : pc[q] # "idle" => home[q] = i
  BY <1>1 DEF TypeOK
<1>3. \A q \in Runs : pc'[q] = "idle"
  BY <1>2 DEF Evict, EndRun
<1>4. \A q \in Runs, a \in Alerts : batch'[q][a] = None
  <2> SUFFICES ASSUME NEW q \in Runs, NEW a \in Alerts PROVE batch'[q][a] = None
    OBVIOUS
  <2>1. CASE home[q] = i
    BY <2>1 DEF Evict, EndRun, NoStates
  <2>2. CASE home[q] # i
    <3>1. batch[q][a] = None
      BY <1>2, <2>2 DEF QueueWritten
    <3> QED
      BY <2>2, <3>1 DEF Evict, EndRun
  <2> QED
    BY <2>1, <2>2
<1>5. /\ \A j \in Isolates, a \in Alerts :
            stateCache'[j][a] = None /\ pendingWrites'[j][a] = None
      /\ \A j \in Isolates : cacheLoadedAt'[j] = 0 /\ lastKvWriteTime'[j] = 0
  BY <1>1 DEF Evict, TypeOK, NoStates
<1>6. UNCHANGED <<tableVars, kv, clock, firedAt>>
  BY DEF Evict, timeVars
<1>7. Punctual'
  BY <1>3, <1>5, <1>6 DEF Punctual, TypeOK
<1>8. QueueWritten'
  BY <1>4, <1>5 DEF QueueWritten
<1>9. CacheIsKv'
  BY <1>5 DEF CacheIsKv
<1>10. LoadSees'
  BY <1>3, <1>5, <1>6 DEF LoadSees, Listing, tableVars
<1>11. FlushJudged'
  BY <1>3 DEF FlushJudged
<1> QED
  BY <1>7, <1>8, <1>9, <1>10, <1>11

(* The users of the table and the clock.                                    *)
LEMMA TableDurable ==
    ASSUME TypeOK, TypeOK', DurableInv, Durable, Users PROVE DurableInv'
<1> USE DEF DurableInv
<1>1. /\ UNCHANGED <<kv, clock, firedAt, stateCache, pendingWrites, cacheLoadedAt,
                     lastKvWriteTime, pc, home, listed, seen, toRead, since, batch, todo>>
      /\ issued \subseteq issued'
  BY DEF Users, CreateAlert, UpdateAlert, DeleteAlert, timeVars, isolateVars, runVars, inputVars
<1>0. ASSUME NEW a \in Alerts, alerts'[a] # None, alerts[a] = None
      PROVE  a \notin issued /\ a \in issued'
  <2>1. PICK b \in Alerts : CreateAlert(b) \/ UpdateAlert(b) \/ DeleteAlert(b)
    BY DEF Users
  <2>2. CASE CreateAlert(b)
    BY <1>0, <2>2 DEF CreateAlert, TypeOK
  <2>3. CASE UpdateAlert(b)
    BY <1>0, <2>3 DEF UpdateAlert, TypeOK
  <2>4. CASE DeleteAlert(b)
    BY <1>0, <2>4 DEF DeleteAlert, TypeOK
  <2> QED
    BY <2>1, <2>2, <2>3, <2>4
<1>2. Punctual' /\ QueueWritten' /\ FlushJudged'
  BY <1>1 DEF Punctual, QueueWritten, FlushJudged, Unwritten, Evaluated
<1>3. \A a \in Alerts : a \notin issued => kv[a] = None /\ alerts[a] = None
  BY DEF LoadSees
<1>4. \A q \in Runs : Listing(q)' <=> Listing(q)
  BY <1>1 DEF Listing
<1>5. CacheIsKv'
  BY <1>0, <1>1, <1>3, <1>4 DEF CacheIsKv
<1>6. LoadSees'
  <2>1. \A a \in Alerts :
          kv'[a] # None \/ alerts'[a] # None \/ (\E i \in Isolates : pendingWrites'[i][a] # None)
          => a \in issued'
    BY <1>0, <1>1 DEF LoadSees
  <2>2. ASSUME NEW r \in Runs, NEW a \in Alerts
        PROVE  /\ Listing(r)' /\ listed'[r][a] # None => a \in issued'
               /\ Listing(r)' /\ kv'[a] # None /\ alerts'[a] # None => listed'[r][a] # None
               /\ pc'[r] = "load" =>
                    /\ seen'[r][a] \in {None, kv'[a]}
                    /\ listed'[r][a] # None /\ a \notin toRead'[r] => seen'[r][a] = kv'[a]
    BY <1>0, <1>1, <1>3, <1>4 DEF LoadSees
  <2> QED
    BY <2>1, <2>2 DEF LoadSees
<1> QED
  BY <1>2, <1>5, <1>6

LEMMA TickDurable ==
    ASSUME TypeOK, TypeOK', DurableInv, Durable, Tick \/ FireInVain PROVE DurableInv'
<1>1. AllIdle
  BY DEF Tick, FireInVain, CanStart, Durable, Alone
<1>2. \A q \in Runs : pc[q] = "idle" /\ pc'[q] = "idle"
  BY <1>1 DEF AllIdle, Tick, FireInVain, runVars
<1>3. /\ \A i \in Isolates, a \in Alerts : pendingWrites[i][a] = None
      /\ \A r \in Runs, a \in Alerts : batch[r][a] = None
  BY <1>2, NothingQueued DEF DurableInv
<1>4. UNCHANGED <<tableVars, kv, isolateVars, batch>> /\ firedAt' >= firedAt
  BY DEF Tick, FireInVain, runVars, isolateVars, tableVars, timeVars, TypeOK
<1> USE DEF DurableInv, isolateVars
<1>5. Punctual'
  BY <1>2, <1>4 DEF Punctual, TypeOK
<1>6. QueueWritten'
  BY <1>3, <1>4 DEF QueueWritten
<1>7. CacheIsKv'
  BY <1>2, <1>4 DEF CacheIsKv, Listing, tableVars
<1>8. LoadSees'
  BY <1>2, <1>4 DEF LoadSees, Listing, tableVars
<1>9. FlushJudged'
  BY <1>2 DEF FlushJudged
<1> QED
  BY <1>5, <1>6, <1>7, <1>8, <1>9

(* A run begins: it lists every alert, none of which is paused.             *)
LEMMA FireDurable ==
    ASSUME TypeOK, DurableInv, Durable, NEW r \in Runs, NEW i \in Isolates, Fire(r, i)
    PROVE  DurableInv'
<1> USE DEF DurableInv
<1>1. \A q \in Runs : pc[q] = "idle"
  BY DEF Fire, CanStart, Durable, Alone, AllIdle
<1>2. /\ \A j \in Isolates, a \in Alerts : pendingWrites[j][a] = None
      /\ \A q \in Runs, a \in Alerts : batch[q][a] = None
  BY <1>1, NothingQueued
<1>3. /\ \A q \in Runs : pc'[q] = IF q = r THEN "prices" ELSE "idle"
      /\ listed'[r] = [a \in Alerts |-> IF Active(a) THEN alerts[a] ELSE None]
      /\ clock > firedAt /\ firedAt' = clock
      /\ UNCHANGED <<tableVars, kv, clock, stateCache, pendingWrites, cacheLoadedAt,
                     lastKvWriteTime, batch>>
  BY <1>1 DEF Fire, isolateVars, TypeOK
<1>4. ASSUME NEW a \in Alerts PROVE listed'[r][a] # None <=> alerts[a] # None
  <2>1. alerts[a] # None => alerts[a].status = "active"
    BY DEF Durable, TypeOK
  <2> QED
    BY <1>3, <2>1 DEF Active
<1>5. Punctual'
  <2>1. ASSUME NEW j \in Isolates PROVE lastKvWriteTime[j] < clock
    BY <1>3 DEF Punctual, TypeOK
  <2>2. lastKvWriteTime' = lastKvWriteTime /\ clock' = clock /\ clock \in Nat
    BY <1>3 DEF TypeOK
  <2>3. \A j \in Isolates : lastKvWriteTime[j] <= clock
    BY <2>1 DEF TypeOK
  <2> QED
    BY <1>3, <2>1, <2>2, <2>3 DEF Punctual
<1>6. QueueWritten'
  BY <1>2, <1>3 DEF QueueWritten
<1>7. \A q \in Runs : Listing(q)' <=> q = r
  BY <1>3 DEF Listing
<1>8. CacheIsKv'
  BY <1>3, <1>4, <1>7 DEF CacheIsKv, tableVars
<1>9. LoadSees'
  BY <1>3, <1>4, <1>7 DEF LoadSees, tableVars
<1>10. FlushJudged'
  BY <1>3 DEF FlushJudged
<1> QED
  BY <1>5, <1>6, <1>8, <1>9, <1>10

(* A run loads what KV holds.                                               *)
LEMMA LoadDurable ==
    ASSUME TypeOK, TypeOK', WarmInv, DurableInv, Durable, NEW r \in Runs,
           BeginLoad(r) \/ \E a \in Alerts : ReadState(r, a)
    PROVE  DurableInv'
<1> USE DEF DurableInv
<1>1. /\ Listing(r) /\ pc[r] # "idle" /\ home[r] \in Isolates
      /\ UNCHANGED <<tableVars, kv, timeVars, pendingWrites, cacheLoadedAt, lastKvWriteTime,
                     home, listed, batch, todo>>
  BY DEF BeginLoad, ReadState, Listing, isolateVars, TypeOK
<1>2. \A q \in Runs : pc'[q] = IF q = r THEN "load" ELSE "idle"
  BY <1>1, OthersIdle DEF BeginLoad, ReadState, TypeOK
<1>3. \A q \in Runs : pc[q] \notin {"flush", "put"}
  BY <1>1, OthersIdle DEF Listing
<1>4. /\ \A j \in Isolates, a \in Alerts : pendingWrites[j][a] = None
      /\ \A q \in Runs, a \in Alerts : batch[q][a] = None
  BY <1>3, NothingQueued
<1>5. \A q \in Runs : Listing(q)' <=> Listing(q)
  BY <1>1, <1>2, OthersIdle DEF Listing
<1>6. ASSUME NEW j \in Isolates, NEW b \in Alerts
      PROVE  stateCache'[j][b] = stateCache[j][b] \/ (stateCache'[j][b] = kv[b] /\ kv[b] # None)
  <2>1. CASE BeginLoad(r)
    BY <2>1 DEF BeginLoad, isolateVars
  <2>2. ASSUME NEW a \in Alerts, ReadState(r, a)
        PROVE  \/ stateCache' = stateCache
               \/ kv[a] # None /\ stateCache' = [stateCache EXCEPT ![home[r]][a] = kv[a]]
    BY <2>2 DEF ReadState
  <2>3. ASSUME NEW a \in Alerts, stateCache' = [stateCache EXCEPT ![home[r]][a] = kv[a]]
        PROVE  stateCache'[j][b] = stateCache[j][b] \/ (stateCache'[j][b] = kv[b] /\ a = b)
    BY <1>1, <2>3 DEF TypeOK
  <2> QED
    BY <2>1, <2>2, <2>3
<1>6a. pc[r] = "prices" => \A a \in Alerts : seen'[r][a] = None
  BY DEF BeginLoad, ReadState, WarmInv, SeenIsCached
<1>7. Punctual'
  BY <1>1, <1>2 DEF Punctual, Listing, timeVars
<1>8. QueueWritten'
  BY <1>1, <1>4 DEF QueueWritten
<1>9. CacheIsKv'
  BY <1>1, <1>4, <1>5, <1>6 DEF CacheIsKv, tableVars
<1>10. ASSUME NEW a \in Alerts
       PROVE  /\ seen'[r][a] \in {None, kv[a]}
              /\ listed[r][a] # None /\ a \notin toRead'[r] => seen'[r][a] = kv[a]
  <2>1. CASE BeginLoad(r)
    <3>1. toRead'[r] = {b \in Alerts : listed[r][b] # None} /\ pc[r] = "prices"
      BY <2>1 DEF BeginLoad, TypeOK
    <3> QED
      BY <1>6a, <3>1
  <2>2. ASSUME NEW b \in Alerts, ReadState(r, b)
        PROVE  /\ seen'[r][a] \in {None, kv[a]}
               /\ listed[r][a] # None /\ a \notin toRead'[r] => seen'[r][a] = kv[a]
    <3>1. /\ pc[r] = "load" /\ toRead'[r] = toRead[r] \ {b}
          /\ seen[r][a] \in {None, kv[a]}
          /\ listed[r][a] # None /\ a \notin toRead[r] => seen[r][a] = kv[a]
      BY <2>2 DEF ReadState, LoadSees, TypeOK
    <3>2. CASE kv[b] # None /\ seen' = [seen EXCEPT ![r][b] = kv[b]]
      <4>1. seen'[r][a] = IF a = b THEN kv[b] ELSE seen[r][a]
        BY <3>2 DEF TypeOK
      <4> QED
        BY <3>1, <4>1
    <3>3. CASE kv[b] = None /\ seen' = seen
      BY <3>1, <3>3
    <3> QED
      BY <2>2, <3>2, <3>3 DEF ReadState, Durable
  <2> QED
    BY <2>1, <2>2
<1>11. LoadSees'
  <2>1. \A a \in Alerts :
          kv'[a] # None \/ alerts'[a] # None \/ (\E i \in Isolates : pendingWrites'[i][a] # None)
          => a \in issued'
    BY <1>1 DEF LoadSees, tableVars
  <2>2. ASSUME NEW q \in Runs, NEW a \in Alerts
        PROVE  /\ Listing(q)' /\ listed'[q][a] # None => a \in issued'
               /\ Listing(q)' /\ kv'[a] # None /\ alerts'[a] # None => listed'[q][a] # None
    BY <1>1, <1>5 DEF LoadSees, tableVars
  <2>3. \A q \in Runs : pc'[q] = "load" => q = r
    BY <1>2
  <2> QED
    BY <1>1, <1>10, <2>1, <2>2, <2>3 DEF LoadSees
<1>12. FlushJudged'
  BY <1>2 DEF FlushJudged
<1> QED
  BY <1>7, <1>8, <1>9, <1>11, <1>12

(* A run starts to write what it evaluated, all of which is due.            *)
LEMMA BeginFlushDurable ==
    ASSUME TypeOK, WarmInv, DurableInv, Durable, NEW r \in Runs, BeginFlush(r)
    PROVE  DurableInv'
<1> USE DEF DurableInv
<1>1. /\ pc[r] = "flush" /\ home[r] \in Isolates
      /\ batch' = [batch EXCEPT ![r] = pendingWrites[home[r]]]
      /\ since' = [since EXCEPT ![r] = clock]
      /\ UNCHANGED <<tableVars, kv, timeVars, isolateVars, home, todo>>
  BY DEF BeginFlush, StartWrites, TypeOK
<1>2. \A q \in Runs : pc'[q] = IF q = r THEN "put" ELSE "idle"
  BY <1>1, OthersIdle DEF BeginFlush, TypeOK
<1>3. /\ since'[r] = clock
      /\ \A a \in Alerts : batch'[r][a] = pendingWrites[home[r]][a]
      /\ \A q \in Runs : q # r => batch'[q] = batch[q]
  BY <1>1 DEF TypeOK
<1>4. \A q \in Runs, a \in Alerts : batch[q][a] = None
  BY <1>1, OthersIdle DEF QueueWritten
<1>5. Punctual'
  BY <1>1, <1>2, <1>3 DEF Punctual, timeVars, isolateVars
<1>6. QueueWritten'
  <2>1. \A j \in Isolates : j = home[r]
    BY <1>1 DEF Durable, Alone
  <2>2. ASSUME NEW a \in Alerts, NEW j \in Isolates, pendingWrites[j][a] # None
        PROVE  /\ stateCache[j][a] = pendingWrites[j][a]
               /\ batch'[r][a] # None
    BY <1>3, <2>1, <2>2 DEF QueueWritten
  <2>3. pc'[r] = "put"
    BY <1>2
  <2>4. ASSUME NEW q \in Runs, NEW a \in Alerts, batch'[q][a] # None
        PROVE  pc'[q] = "put" /\ pendingWrites'[home'[q]][a] = batch'[q][a]
    <3>1. q = r
      BY <1>3, <1>4, <2>4
    <3> QED
      BY <1>1, <1>3, <2>3, <3>1 DEF isolateVars
  <2> QED
    BY <1>1, <2>2, <2>3, <2>4 DEF QueueWritten, isolateVars
<1>7. CacheIsKv'
  BY <1>1, <1>2 DEF CacheIsKv, Listing, isolateVars, tableVars
<1>8. LoadSees'
  BY <1>1, <1>2 DEF LoadSees, Listing, isolateVars, tableVars
<1>9. FlushJudged'
  <2>1. \A a \in Alerts : Unwritten(r, a)' = Unwritten(r, a)
    BY <1>1, <1>2, <1>3 DEF Unwritten
  <2>2. ASSUME NEW a \in Alerts, Unwritten(r, a) # None
        PROVE  Evaluated(a, Unwritten(r, a), a \in todo[r])
    BY <1>1, <2>2 DEF FlushJudged
  <2>3. ASSUME NEW a \in Alerts, Unwritten(r, a)' # None
        PROVE  Evaluated(a, Unwritten(r, a), a \in todo[r])'
    <3>1. Evaluated(a, Unwritten(r, a), a \in todo[r])
      BY <2>1, <2>2, <2>3
    <3> QED
      BY <1>1, <2>1, <3>1 DEF Evaluated, timeVars
  <2> QED
    BY <1>2, <2>3 DEF FlushJudged
<1> QED
  BY <1>5, <1>6, <1>7, <1>8, <1>9

(* One state reaches KV.                                                    *)
LEMMA PutDurable ==
    ASSUME TypeOK, WarmInv, DurableInv, Durable, NEW r \in Runs, NEW a \in Alerts,
           PutSettles(r, a)
    PROVE  DurableInv'
<1> USE DEF DurableInv
<1>1. /\ pc[r] = "put" /\ home[r] \in Isolates /\ batch[r][a] # None
      /\ kv' = [kv EXCEPT ![a] = batch[r][a]]
      /\ batch' = [batch EXCEPT ![r][a] = None]
      /\ UNCHANGED <<tableVars, timeVars, isolateVars, pc, home, listed, seen, toRead, since, todo>>
  BY DEF PutSettles, Durable, Punctual, TypeOK, inputVars
<1>2. \A q \in Runs : q # r => pc[q] = "idle"
  BY <1>1, OthersIdle
<1>3. /\ \A b \in Alerts : kv'[b] = IF b = a THEN batch[r][a] ELSE kv[b]
      /\ \A b \in Alerts : batch'[r][b] = IF b = a THEN None ELSE batch[r][b]
      /\ \A q \in Runs : q # r => batch'[q] = batch[q]
  BY <1>1 DEF TypeOK
<1>4. \A j \in Isolates : j = home[r]
  BY <1>1 DEF Durable, Alone
<1>5. pendingWrites[home[r]][a] = batch[r][a]
  BY <1>1 DEF QueueWritten
<1>6. Punctual'
  BY <1>1 DEF Punctual, timeVars, isolateVars
<1>7. QueueWritten'
  <2>1. ASSUME NEW j \in Isolates, NEW b \in Alerts, pendingWrites[j][b] # None
        PROVE  /\ stateCache[j][b] = pendingWrites[j][b]
               /\ batch'[r][b] = None => kv'[b] = pendingWrites[j][b]
    <3>1. stateCache[j][b] = pendingWrites[j][b]
      BY <2>1 DEF QueueWritten
    <3>2. b # a /\ batch[r][b] = None => kv[b] = pendingWrites[j][b]
      BY <1>1, <1>2, <2>1 DEF QueueWritten
    <3> QED
      BY <1>3, <1>4, <1>5, <3>1, <3>2
  <2>2. ASSUME NEW q \in Runs, NEW b \in Alerts, batch'[q][b] # None
        PROVE  pc[q] = "put" /\ pendingWrites[home[q]][b] = batch'[q][b]
    <3>1. batch'[q][b] = batch[q][b]
      BY <1>3, <2>2
    <3> QED
      BY <2>2, <3>1 DEF QueueWritten
  <2> QED
    BY <1>1, <2>1, <2>2 DEF QueueWritten, isolateVars
<1>8. CacheIsKv'
  <2>1. \A q \in Runs : ~Listing(q)'
    BY <1>1, <1>2 DEF Listing
  <2>2. stateCache[home[r]][a] # None
    BY <1>1, <1>5 DEF QueueWritten
  <2> QED
    BY <1>1, <1>3, <1>4, <1>5, <2>1, <2>2 DEF CacheIsKv, isolateVars, tableVars
<1>9. LoadSees'
  <2>1. a \in issued
    BY <1>1, <1>5 DEF LoadSees
  <2>2. \A q \in Runs : ~Listing(q)' /\ pc'[q] # "load"
    BY <1>1, <1>2 DEF Listing
  <2> QED
    BY <1>1, <1>3, <2>1, <2>2 DEF LoadSees, isolateVars, tableVars
<1>10. FlushJudged'
  <2>1. \A b \in Alerts : Unwritten(r, b) = batch[r][b] /\ Unwritten(r, b)' = batch'[r][b]
    BY <1>1 DEF Unwritten
  <2>2. ASSUME NEW b \in Alerts, batch'[r][b] # None
        PROVE  Evaluated(b, Unwritten(r, b), b \in todo[r])'
    <3>1. batch'[r][b] = batch[r][b] /\ kv'[b] = kv[b]
      BY <1>3, <2>2
    <3>2. Evaluated(b, Unwritten(r, b), b \in todo[r])
      BY <1>1, <2>1, <2>2, <3>1 DEF FlushJudged
    <3> QED
      BY <1>1, <2>1, <3>1, <3>2 DEF Evaluated, timeVars
  <2> QED
    BY <1>1, <1>2, <2>1, <2>2 DEF FlushJudged
<1> QED
  BY <1>6, <1>7, <1>8, <1>9, <1>10

(* A flush that ends has written what it takes off the queue.               *)
LEMMA EndFlushDurable ==
    ASSUME TypeOK, WarmInv, DurableInv, Durable, NEW r \in Runs, EndFlush(r)
    PROVE  DurableInv'
<1> USE DEF DurableInv
<1>1. /\ pc[r] = "put" /\ home[r] \in Isolates /\ batch[r] = NoStates
      /\ pendingWrites' = [pendingWrites EXCEPT ![home[r]] = NoStates]
      /\ lastKvWriteTime' = [lastKvWriteTime EXCEPT ![home[r]] = since[r]]
      /\ pc' = [pc EXCEPT ![r] = "send"]
      /\ UNCHANGED <<tableVars, kv, timeVars, stateCache, cacheLoadedAt, home, listed, batch>>
  BY DEF EndFlush, Punctual, TypeOK, inputVars
<1>2. \A q \in Runs : pc'[q] = IF q = r THEN "send" ELSE "idle"
  BY <1>1, OthersIdle DEF TypeOK
<1>3. \A j \in Isolates : j = home[r]
  BY <1>1 DEF Durable, Alone
<1>4. /\ \A j \in Isolates, a \in Alerts : pendingWrites'[j][a] = None
      /\ \A j \in Isolates : lastKvWriteTime'[j] = clock
      /\ firedAt = clock
  BY <1>1, <1>3 DEF Punctual, TypeOK, NoStates
<1>5. \A q \in Runs, a \in Alerts : batch'[q][a] = None
  BY <1>1, OthersIdle DEF QueueWritten, NoStates
<1>6. ASSUME NEW j \in Isolates, NEW a \in Alerts, stateCache[j][a] # None
      PROVE  kv[a] = stateCache[j][a]
  <2>1. CASE pendingWrites[j][a] = None
    BY <1>6, <2>1 DEF CacheIsKv
  <2>2. CASE pendingWrites[j][a] # None
    <3>1. \A q \in Runs : pc[q] \in {"flush", "put"} => q = r
      BY <1>1, OthersIdle
    <3>2. batch[r][a] = None
      BY <1>1 DEF NoStates
    <3> QED
      BY <1>1, <2>2, <3>1, <3>2 DEF QueueWritten
  <2> QED
    BY <2>1, <2>2
<1>7. Punctual'
  BY <1>1, <1>2, <1>4 DEF Punctual, timeVars, TypeOK
<1>8. QueueWritten'
  BY <1>4, <1>5 DEF QueueWritten
<1>9. CacheIsKv'
  BY <1>1, <1>2, <1>6 DEF CacheIsKv, Listing, tableVars
<1>10. LoadSees'
  BY <1>1, <1>2, <1>4 DEF LoadSees, Listing, tableVars
<1>11. FlushJudged'
  BY <1>2 DEF FlushJudged
<1> QED
  BY <1>7, <1>8, <1>9, <1>10, <1>11

(* A flush is skipped when there is nothing to write.                       *)
LEMMA SkipDurable ==
    ASSUME TypeOK, WarmInv, DurableInv, Durable, NEW r \in Runs, SkipFlush(r)
    PROVE  DurableInv' /\ todo[r] = {}
<1> USE DEF DurableInv
<1>1. /\ pc[r] = "flush" /\ home[r] \in Isolates
      /\ pc' = [pc EXCEPT ![r] = "send"]
      /\ UNCHANGED <<tableVars, kv, timeVars, isolateVars, home, listed, batch, todo>>
  BY DEF SkipFlush, TypeOK, inputVars
<1>2. \A q \in Runs : pc'[q] = IF q = r THEN "send" ELSE "idle"
  BY <1>1, OthersIdle DEF TypeOK
<1>3. ~Queued(home[r])
  <2>1. \A n \in Intervals : Due(home[r], n)
    <3>1. lastKvWriteTime[home[r]] < clock
      BY <1>1 DEF Punctual
    <3> QED
      BY <1>1, <3>1 DEF Durable, Due, TypeOK
  <2> QED
    BY <2>1 DEF SkipFlush
<1>4. \A j \in Isolates, a \in Alerts : pendingWrites[j][a] = None
  BY <1>1, <1>3 DEF Queued, Durable, Alone
<1>5. todo[r] = {}
  BY <1>1, <1>4 DEF FlushJudged, Unwritten, TypeOK
<1>6. \A q \in Runs, a \in Alerts : batch'[q][a] = None
  BY <1>1, OthersIdle DEF QueueWritten
<1>7. Punctual'
  BY <1>1, <1>2 DEF Punctual, timeVars, isolateVars
<1>8. QueueWritten'
  BY <1>1, <1>4, <1>6 DEF QueueWritten, isolateVars
<1>9. CacheIsKv'
  BY <1>1, <1>2 DEF CacheIsKv, Listing, tableVars, isolateVars
<1>10. LoadSees'
  BY <1>1, <1>2 DEF LoadSees, Listing, tableVars, isolateVars
<1>11. FlushJudged'
  BY <1>2 DEF FlushJudged
<1> QED
  BY <1>5, <1>7, <1>8, <1>9, <1>10, <1>11

(* A run with a fresh cache finds in it what KV holds.                      *)
LEMMA FreshIsDurable ==
    ASSUME TypeOK, WarmInv, DurableInv, Durable, NEW r \in Runs, pc[r] = "prices", Warm(home[r])
    PROVE  \A a \in Alerts :
              /\ listed[r][a] # None => stateCache[home[r]][a] = kv[a]
              /\ kv[a] # None /\ alerts[a] # None => stateCache[home[r]][a] # None
<1> USE DEF DurableInv
<1>1. home[r] \in Isolates /\ Listing(r)
  BY DEF TypeOK, Listing
<1>2. cacheLoadedAt[home[r]] > 0
  BY <1>1, WarmIsLoaded
<1>3. \A a \in Alerts : pendingWrites[home[r]][a] = None
  <2>1. \A q \in Runs : pc[q] \notin {"flush", "put"}
    BY OthersIdle
  <2> QED
    BY <1>1, <2>1, NothingQueued
<1> QED
  BY <1>1, <1>2, <1>3 DEF CacheIsKv

(* Every step of the cron keeps DurableInv.                                 *)
LEMMA DurableStep ==
    ASSUME TypeOK, TypeOK', WarmInv, DurableInv, Durable, [Next]_vars
    PROVE  DurableInv'
<1>1. CASE UNCHANGED vars
  BY <1>1 DEF vars, tableVars, timeVars, isolateVars, runVars, inputVars, DurableInv, Punctual,
     QueueWritten, CacheIsKv, LoadSees, Listing, FlushJudged, Unwritten, Evaluated
<1>2. CASE Tick \/ FireInVain
  BY <1>2, TickDurable
<1>3. CASE Users
  BY <1>3, TableDurable
<1>4. ASSUME NEW r \in Runs, NEW i \in Isolates, NewsFlush(r, i) PROVE FALSE
  <2>1. \A q \in Runs : pc[q] = "idle"
    BY <1>4 DEF NewsFlush, CanStart, Durable, Alone, AllIdle
  <2>2. \A a \in Alerts : pendingWrites[i][a] = None
    BY <2>1, NothingQueued DEF DurableInv
  <2> QED
    BY <1>4, <2>2 DEF NewsFlush, Queued
<1>5. ASSUME NEW r \in Runs, NoQuoteArrives(r) \/ Finish(r) \/ AbortSend(r) \/ NewsFlushDropped(r)
      PROVE  DurableInv'
  <2>1. /\ pc[r] \in {"prices", "send"} /\ EndRun({r})
        /\ UNCHANGED <<tableVars, kv, timeVars, isolateVars>>
    BY <1>5 DEF NoQuoteArrives, Finish, AbortSend, NewsFlushDropped, DurableInv, Punctual
  <2>2. \A q \in Runs : pc[q] \notin {"flush", "put"} /\ pc'[q] = "idle"
    BY <2>1, OthersIdle DEF EndRun
  <2>3. \A q \in Runs, a \in Alerts : batch'[q][a] = None
    BY <2>1, <2>2, NothingQueued DEF EndRun, DurableInv, NoStates
  <2>4. clock' = clock /\ firedAt' >= firedAt
    BY <2>1 DEF timeVars, TypeOK
  <2> QED
    BY <2>1, <2>2, <2>3, <2>4, EndDurable
<1>6. ASSUME NEW r \in Runs, EvaluateFromCache(r) PROVE DurableInv'
  <2>1. PICK p \in Quotes(r) : Evaluate(r, p, stateCache[home[r]])
    BY <1>6 DEF EvaluateFromCache
  <2>2. /\ Listing(r) /\ pc[r] = "prices" /\ Warm(home[r]) /\ home[r] \in Isolates
        /\ p \in [Symbols -> Prices \cup {None}]
        /\ stateCache[home[r]] \in [Alerts -> Snapshot \cup {None}]
        /\ UNCHANGED <<tableVars, kv, timeVars, lastKvWriteTime, home, batch>>
    BY <1>6 DEF EvaluateFromCache, Quotes, Listing, TypeOK
  <2>3. PICK i \in Isolates : home[r] = i
    BY <2>2
  <2>4. /\ Evaluate(r, p, stateCache[i])
        /\ stateCache[i] \in [Alerts -> Snapshot \cup {None}]
        /\ \A a \in Alerts :
              /\ listed[r][a] # None => stateCache[i][a] = kv[a]
              /\ kv[a] # None /\ alerts[a] # None => stateCache[i][a] # None
    BY <2>1, <2>2, <2>3, FreshIsDurable
  <2> QED
    BY <2>2, <2>3, <2>4, EvaluateDurable
<1>7. ASSUME NEW r \in Runs, EvaluateLoaded(r) PROVE DurableInv'
  <2>1. /\ Listing(r) /\ pc[r] = "load" /\ home[r] \in Isolates /\ toRead[r] = {}
        /\ prices[r] \in [Symbols -> Prices \cup {None}]
        /\ seen[r] \in [Alerts -> Snapshot \cup {None}]
        /\ Evaluate(r, prices[r], seen[r])
        /\ UNCHANGED <<tableVars, kv, timeVars, lastKvWriteTime, home, batch>>
    BY <1>7 DEF EvaluateLoaded, Listing, TypeOK
  <2>2. \A a \in Alerts : listed[r][a] # None => seen[r][a] = kv[a]
    BY <2>1 DEF DurableInv, LoadSees
  <2>3. PICK i \in Isolates : home[r] = i
    BY <2>1
  <2>4. ASSUME NEW a \in Alerts, kv[a] # None, alerts[a] # None
        PROVE  stateCache[i][a] # None
    <3>1. listed[r][a] # None
      BY <2>1, <2>4 DEF DurableInv, LoadSees
    <3>2. seen[r][a] # None
      BY <2>2, <2>4, <3>1
    <3> QED
      BY <2>3, <3>2 DEF WarmInv, SeenIsCached
  <2> QED
    BY <2>1, <2>2, <2>3, <2>4, EvaluateDurable
<1>8. ASSUME NEW r \in Runs, NEW a \in Alerts, Deliver(r, a) PROVE DurableInv'
  <2>1. /\ pc[r] = "send" /\ \A q \in Runs : q # r => todo'[q] = todo[q]
        /\ UNCHANGED <<tableVars, kv, timeVars, isolateVars, pc, home, listed, seen, toRead,
                       since, batch>>
    BY <1>8 DEF Deliver, TypeOK, inputVars
  <2>2. Punctual' /\ QueueWritten' /\ CacheIsKv' /\ LoadSees'
    BY <2>1 DEF tableVars, timeVars, isolateVars, DurableInv, Punctual, QueueWritten, CacheIsKv,
       LoadSees, Listing
  <2>3. \A q \in Runs : pc'[q] \notin {"flush", "put"}
    BY <2>1, OthersIdle
  <2>4. FlushJudged'
    BY <2>3 DEF FlushJudged
  <2> QED
    BY <2>2, <2>4 DEF DurableInv
<1> QED
  BY <1>1, <1>2, <1>3, <1>4, <1>5, <1>6, <1>7, <1>8, EvictDurable, FireDurable, LoadDurable,
     BeginFlushDurable, PutDurable, EndFlushDurable, SkipDurable DEF Next, RunStep

(* Where every flush is due and no KV operation fails, what runs know and    *)
(* what they queue is what KV holds and will hold.                          *)
THEOREM DurableInvariant == ASSUME Durable PROVE Spec => []DurableInv
<1>1. Init => DurableInv
  BY TimeAssumption
     DEF Init, DurableInv, Punctual, QueueWritten, CacheIsKv, LoadSees, Listing, FlushJudged,
         NoStates
<1>2. TypeOK /\ TypeOK' /\ WarmInv /\ DurableInv /\ [Next]_vars => DurableInv'
  BY DurableStep
<1>3. Spec => []WarmInv
  BY WarmInvariant DEF Durable
<1> QED
  BY <1>1, <1>2, <1>3, TypeCorrect, PTL DEF Spec

(* Where every flush is due and no KV operation fails, a run that evaluates   *)
(* from a fresh cache finds in it what KV holds (loadAllStatesFromKV serving  *)
(* from stateCache), also after evictions, edits and aborted loops.         *)
THEOREM CacheAnswersAsKv == ASSUME Durable PROVE Spec => []EvaluatesDurable
<1>1. TypeOK /\ WarmInv /\ DurableInv => EvaluatesDurable
  BY FreshIsDurable DEF EvaluatesDurable
<1>2. Spec => []WarmInv
  BY WarmInvariant DEF Durable
<1> QED
  BY <1>1, <1>2, DurableInvariant, TypeCorrect, PTL
-----------------------------------------------------------------------------
(* The cron implements PriceAlertPromise.                                   *)

(* The promise evaluates as the cron does.                                  *)
LEMMA SameEvaluation ==
    ASSUME NEW alert, NEW price, NEW prev, NEW t
    PROVE  /\ Promise!NextState(alert, price, prev, t) = NextState(alert, price, prev, t)
           /\ Promise!Notifies(alert, price, prev, t) <=> Notifies(alert, price, prev, t)
BY DEF Promise!NextState, Promise!Notifies, Promise!FirstTime, Promise!MovedAgain,
       Promise!ConditionMet, Promise!AlreadyReported, Promise!HasNotifiedPrice,
       Promise!MovedEnough, Promise!Distance, Promise!CooledDown,
       NextState, Notifies, FirstTime, MovedAgain, ConditionMet, AlreadyReported,
       HasNotifiedPrice, MovedEnough, Distance, CooledDown

(* A step that evaluates nothing settles some of what is owed, or nothing.  *)
LEMMA SettleStep ==
    ASSUME UNCHANGED <<kv, clock>>,
           \A q \in Runs, a \in Alerts :
              pc'[q] \in {"put", "send"} /\ a \in todo'[q] /\ batch'[q][a] = None
              => pc[q] \in {"put", "send"} /\ a \in todo[q] /\ batch[q][a] = None
    PROVE  Promise!Settle
<1>1. Owed' \subseteq Owed
  BY DEF Owed
<1>2. Owed' = Owed \ (Owed \ Owed') /\ (Owed \ Owed') \in SUBSET Owed
  BY <1>1
<1> QED
  BY <1>2 DEF Promise!Settle

(* A write that is stored is the evaluation the promise speaks of.          *)
LEMMA ObserveStep ==
    ASSUME TypeOK, WarmInv, DurableInv, Durable, NEW r \in Runs, NEW a \in Alerts,
           PutSettles(r, a)
    PROVE  Promise!Observe(a)
<1>1. /\ pc[r] = "put" /\ batch[r][a] # None
      /\ kv' = [kv EXCEPT ![a] = batch[r][a]]
      /\ batch' = [batch EXCEPT ![r][a] = None]
      /\ UNCHANGED <<clock, pc, todo>>
  BY DEF PutSettles, Durable, DurableInv, Punctual, timeVars
<1>2. Evaluated(a, batch[r][a], a \in todo[r])
  BY <1>1 DEF DurableInv, FlushJudged, Unwritten
<1>3. PICK alert \in AlertRecords, price \in Prices :
        /\ batch[r][a] = NextState(alert, price, kv[a], clock)
        /\ a \in todo[r] <=> Notifies(alert, price, kv[a], clock)
  BY <1>2 DEF Evaluated
<1>4. \A q \in Runs : pc[q] \in {"put", "send"} <=> q = r
  BY <1>1, OthersIdle
<1>5. /\ \A b \in Alerts : b \in Owed <=> b \in todo[r] /\ batch[r][b] = None
      /\ \A b \in Alerts : b \in Owed' <=> b \in todo[r] /\ batch'[r][b] = None
      /\ Owed \subseteq Alerts /\ Owed' \subseteq Alerts
  BY <1>1, <1>4 DEF Owed
<1>6. \A b \in Alerts : batch'[r][b] = IF b = a THEN None ELSE batch[r][b]
  BY <1>1 DEF TypeOK
<1>7. Owed' = IF a \in todo[r] THEN Owed \cup {a} ELSE Owed
  BY <1>1, <1>5, <1>6
<1>8. kv' = [kv EXCEPT ![a] = Promise!NextState(alert, price, kv[a], clock)]
  <2>1. batch[r][a] = Promise!NextState(alert, price, kv[a], clock)
    BY <1>3, SameEvaluation, Zenon
  <2>2. kv' = [kv EXCEPT ![a] = batch[r][a]]
    BY <1>1
  <2> QED
    BY <2>1, <2>2, Zenon
<1>9. Owed' = IF Promise!Notifies(alert, price, kv[a], clock) THEN Owed \cup {a} ELSE Owed
  <2>1. a \in todo[r] <=> Promise!Notifies(alert, price, kv[a], clock)
    BY <1>3, SameEvaluation
  <2> QED
    BY <1>7, <2>1
<1> QED
  BY <1>1, <1>8, <1>9 DEF Promise!Observe

LEMMA PromiseStep ==
    ASSUME TypeOK, WarmInv, DurableInv, Durable, [Next]_vars
    PROVE  [Promise!PromiseNext]_(Promise!promiseVars)
<1>1. ASSUME UNCHANGED <<kv, clock>>,
             \A q \in Runs : pc'[q] \in {"put", "send"} =>
                pc'[q] = pc[q] /\ todo'[q] \subseteq todo[q] /\ batch'[q] = batch[q]
      PROVE  Promise!Settle
  BY <1>1, SettleStep
<1>2. CASE UNCHANGED vars \/ Users \/ FireInVain
  <2>1. UNCHANGED <<kv, clock, pc, todo, batch>>
    BY <1>2 DEF vars, Users, CreateAlert, UpdateAlert, DeleteAlert, FireInVain, timeVars, runVars
  <2>2. Promise!Settle
    BY <2>1, SettleStep
  <2> QED
    BY <2>2 DEF Promise!PromiseNext
<1>3. CASE Tick
  <2>1. \A q \in Runs : pc[q] = "idle" /\ pc'[q] = "idle"
    BY <1>3 DEF Tick, Durable, Alone, AllIdle, runVars
  <2>2. Owed = {} /\ Owed' = {}
    BY <2>1 DEF Owed
  <2> QED
    BY <1>3, <2>2 DEF Tick, Promise!PromiseNext, Promise!Pass
<1>4. ASSUME NEW R, EndRun(R), UNCHANGED <<kv, timeVars>> PROVE Promise!Settle
  BY <1>1, <1>4 DEF EndRun, timeVars
<1>5. ASSUME NEW r \in Runs, NEW i \in Isolates, Fire(r, i) PROVE Promise!Settle
  BY <1>1, <1>5 DEF Fire, TypeOK
<1>6. ASSUME NEW r \in Runs, NEW i \in Isolates, NewsFlush(r, i) PROVE Promise!Settle
  BY <1>1, <1>6 DEF NewsFlush, StartWrites, timeVars, TypeOK
<1>7. ASSUME NEW r \in Runs, BeginLoad(r) \/ \E a \in Alerts : ReadState(r, a)
      PROVE  Promise!Settle
  BY <1>1, <1>7 DEF BeginLoad, ReadState, timeVars, TypeOK
<1>8. ASSUME NEW r \in Runs, EvaluateFromCache(r) \/ EvaluateLoaded(r) PROVE Promise!Settle
  BY <1>1, <1>8 DEF EvaluateFromCache, EvaluateLoaded, Evaluate, timeVars, TypeOK
<1>9. ASSUME NEW r \in Runs, SkipFlush(r) PROVE Promise!Settle
  <2>1. todo[r] = {}
    BY <1>9, SkipDurable
  <2> QED
    BY <1>9, <2>1, SettleStep DEF SkipFlush, timeVars, TypeOK
<1>10. ASSUME NEW r \in Runs, BeginFlush(r) PROVE Promise!Settle
  <2>1. /\ pc[r] = "flush" /\ pc' = [pc EXCEPT ![r] = "put"]
        /\ batch' = [batch EXCEPT ![r] = pendingWrites[home[r]]]
        /\ UNCHANGED <<kv, clock, todo>>
    BY <1>10 DEF BeginFlush, StartWrites, timeVars
  <2>2. \A a \in todo[r] : batch'[r][a] # None
    BY <2>1 DEF DurableInv, FlushJudged, Unwritten, TypeOK
  <2> QED
    BY <2>1, <2>2, SettleStep DEF TypeOK
<1>11. ASSUME NEW r \in Runs, EndFlush(r) PROVE Promise!Settle
  <2>1. CASE EndRun({r})
    BY <1>4, <1>11, <2>1 DEF EndFlush
  <2>2. CASE /\ pc[r] = "put" /\ pc' = [pc EXCEPT ![r] = "send"]
             /\ UNCHANGED <<home, inputVars, batch, todo>>
    BY <1>11, <2>2, SettleStep DEF EndFlush, timeVars, TypeOK
  <2> QED
    BY <1>11, <2>1, <2>2 DEF EndFlush
<1>12. ASSUME NEW r \in Runs, NEW a \in Alerts, Deliver(r, a) PROVE Promise!Settle
  BY <1>1, <1>12 DEF Deliver, timeVars, TypeOK
<1>13. ASSUME NEW r \in Runs,
              NoQuoteArrives(r) \/ Finish(r) \/ AbortSend(r) \/ NewsFlushDropped(r)
       PROVE  Promise!Settle
  BY <1>4, <1>13 DEF NoQuoteArrives, Finish, AbortSend, NewsFlushDropped
<1>14. ASSUME NEW i \in Isolates, Evict(i) PROVE Promise!Settle
  BY <1>4, <1>14 DEF Evict
<1> QED
  BY <1>2, <1>3, <1>5, <1>6, <1>7, <1>8, <1>9, <1>10, <1>11, <1>12, <1>13, <1>14, ObserveStep
     DEF Next, RunStep, Promise!PromiseNext

(* The cron implements the promise where every flush is due and no KV        *)
(* operation fails: a notification is decided once per crossing, or per      *)
(* cooled-down move, of the state in KV, and nothing is handed over twice,   *)
(* whatever is evicted, aborted or edited meanwhile.                        *)
THEOREM PromiseKept == ASSUME Durable PROVE Spec => KeepsPromise
<1>1. Init => Promise!PromiseInit
  BY TimeAssumption DEF Init, Promise!PromiseInit, Owed, NoStates
<1>2. TypeOK /\ WarmInv /\ DurableInv /\ [Next]_vars
        => [Promise!PromiseNext]_(Promise!promiseVars)
  BY PromiseStep
<1>3. Spec => []WarmInv
  BY WarmInvariant DEF Durable
<1> QED
  BY <1>1, <1>2, <1>3, DurableInvariant, TypeCorrect, PTL
     DEF Spec, KeepsPromise, Promise!PromiseSpec
=============================================================================
