---------------------------- MODULE MCAlertCron ----------------------------
(* Small instances of AlertCron for TLC.                                   *)
EXTENDS AlertCronPromise, TLC

CONSTANTS i1, i2, r1, r2, a1, a2, ACME

MCSymbols == {ACME}

Row(direction, status) ==
    [symbol |-> ACME, direction |-> direction, threshold |-> 100, status |-> status]

OneRow     == {Row("above", "active")}
ActiveRows == {Row("above", "active"), Row("below", "active")}
PausedRows == {Row("above", "active"), Row("above", "paused")}

(* Not met, met, met and moved by 2% for "above"; 0 is met for "below".     *)
TwoPrices   == {0, 100}
ThreePrices == {0, 100, 102}

Never == {}
EvictAbort == {"evict", "abort"}
PutFails == {"put_fails"}
EvictOnly == {"evict"}
AllButOverlap == KnownDisturbances \ {"overlap"}

AlertSymmetry == Permutations(Alerts)
=============================================================================
