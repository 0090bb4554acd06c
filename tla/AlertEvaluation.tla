--------------------------- MODULE AlertEvaluation ---------------------------
(***************************************************************************)
(* The pure evaluation of price alerts: evaluateAlerts in                  *)
(* src/src/alerts/evaluate-alerts.ts, for one alert at a time (the loop    *)
(* body touches nothing but its own alert).                                *)
(*                                                                         *)
(* Prices are integers: only their order and the percentage between two of *)
(* them matter.  A clock unit is one period of the alert cron.  None stands *)
(* for JavaScript's undefined or null.  lastTriggeredAt is left out: no    *)
(* decision reads it, and it changes only in a step that also changes      *)
(* lastConditionMet.                                                       *)
(***************************************************************************)
EXTENDS Integers

CONSTANTS
    None,           \* undefined / null / no entry
    Prices,         \* the prices the quote API may answer
    Symbols,        \* stock symbols
    AlertRecords,   \* rows an alert may have in the alerts table
    ChangePercent,  \* PRICE_CHANGE_THRESHOLD_PERCENT
    Cooldown        \* PRICE_CHANGE_COOLDOWN_MS, in cron periods

(* AlertStateSnapshot: what is remembered of the last evaluation.          *)
Snapshot == [met      : BOOLEAN,             \* lastConditionMet
             price    : Prices,              \* lastPrice
             notPrice : Prices \cup {None},  \* lastNotifiedPrice
             notAt    : Nat \cup {None}]     \* lastNotifiedAt

Directions == {"above", "below"}
Statuses   == {"active", "paused"}

ASSUME NoneAssumption ==
    /\ None \notin Int
    /\ None \notin Snapshot
    /\ None \notin AlertRecords

ASSUME PriceAssumption == Prices \subseteq Int

ASSUME RecordAssumption ==
    AlertRecords \subseteq [symbol    : Symbols,
                            direction : Directions,
                            threshold : Int,
                            status    : Statuses]

ASSUME EvaluationConstants == ChangePercent \in Nat /\ Cooldown \in Nat

Distance(x, y) == IF x >= y THEN x - y ELSE y - x

ConditionMet(alert, price) ==
    IF alert.direction = "above" THEN price >= alert.threshold
                                 ELSE price <= alert.threshold

AlreadyReported(prev) == prev # None /\ prev.met

(* |price - last| / |last| * 100 >= ChangePercent, without the division.    *)
MovedEnough(price, last) ==
    100 * Distance(price, last) >= ChangePercent * Distance(last, 0)

(* A notified price of 0 is falsy in JavaScript, like a missing one.        *)
HasNotifiedPrice(prev) == prev.notPrice \notin {None, 0}

CooledDown(prev, now) == prev.notAt \in {None, 0} \/ now - prev.notAt >= Cooldown

FirstTime(alert, price, prev) ==
    ConditionMet(alert, price) /\ ~AlreadyReported(prev)

(* Mutant: the cooldown is forgotten.                                       *)
MovedAgainAtOnce(alert, price, prev, now) ==
    /\ ConditionMet(alert, price)
    /\ AlreadyReported(prev)
    /\ HasNotifiedPrice(prev)
    /\ MovedEnough(price, prev.notPrice)

MovedAgain(alert, price, prev, now) ==
    /\ ConditionMet(alert, price)
    /\ AlreadyReported(prev)
    /\ HasNotifiedPrice(prev)
    /\ MovedEnough(price, prev.notPrice)
    /\ CooledDown(prev, now)

Notifies(alert, price, prev, now) ==
    \/ FirstTime(alert, price, prev)
    \/ MovedAgain(alert, price, prev, now)

(* Mutant: the first notification does not record its price.                *)
NextStateUnpriced(alert, price, prev, now) ==
    LET notifies == Notifies(alert, price, prev, now)
        moved    == MovedAgain(alert, price, prev, now)
    IN  [met      |-> ConditionMet(alert, price),
         price    |-> price,
         notPrice |-> IF moved THEN price
                      ELSE IF prev = None THEN None ELSE prev.notPrice,
         notAt    |-> IF notifies THEN now
                      ELSE IF prev = None THEN None ELSE prev.notAt]

NextState(alert, price, prev, now) ==
    LET notifies == Notifies(alert, price, prev, now)
    IN  [met      |-> ConditionMet(alert, price),
         price    |-> price,
         notPrice |-> IF notifies THEN price
                      ELSE IF prev = None THEN None ELSE prev.notPrice,
         notAt    |-> IF notifies THEN now
                      ELSE IF prev = None THEN None ELSE prev.notAt]

ShouldStore(alert, price, prev, now) ==
    prev # NextState(alert, price, prev, now)

=============================================================================
