-------------------------- MODULE PriceAlertPromise --------------------------
(***************************************************************************)
(* What the price alerts promise, without caches, queues, runs or          *)
(* isolates: each alert has one state; an evaluation moves it to the state *)
(* evaluateAlerts computes from the current price, and owes the user a     *)
(* notification exactly when evaluateAlerts decides one; what is owed is    *)
(* settled at most once, by a push or by being lost.                       *)
(***************************************************************************)
EXTENDS AlertEvaluation

CONSTANT Alerts

VARIABLES
    now,    \* the time
    state,  \* per alert: what its last evaluation left, or None
    owed    \* alerts with a notification decided and not yet settled

promiseVars == <<now, state, owed>>

PromiseInit ==
    /\ now \in Nat
    /\ state = [a \in Alerts |-> None]
    /\ owed = {}

Pass == now' = now + 1 /\ UNCHANGED <<state, owed>>

Observe(a) ==
    \E alert \in AlertRecords, price \in Prices :
        /\ state' = [state EXCEPT ![a] = NextState(alert, price, state[a], now)]
        /\ owed' = IF Notifies(alert, price, state[a], now) THEN owed \cup {a} ELSE owed
        /\ UNCHANGED now

Settle == \E S \in SUBSET owed : owed' = owed \ S /\ UNCHANGED <<now, state>>

PromiseNext == Pass \/ Settle \/ \E a \in Alerts : Observe(a)

PromiseSpec == PromiseInit /\ [][PromiseNext]_promiseVars
=============================================================================
