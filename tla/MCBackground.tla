----------------------------- MODULE MCBackground -----------------------------
(* Small instances of the parts of Background for TLC.                       *)
EXTENDS Background, TLC

(* Any profile of one user with at most a token, and at most one trade; or    *)
(* two users who hold the stock and as many trades, of one type, as fit.     *)
Situations ==
    LET default == Senators!DefaultProfile
    IN  \/ /\ profile \in {[u \in Users |-> IF u = "u1" THEN p ELSE default] :
                              p \in Senators!Profiles}
           /\ Init
           /\ Len(trades) <= 1
           /\ \A u \in Users \ {"u1"} : device[u] = {}
           /\ \A u \in Users : device[u] \subseteq {"t1"}
        \/ /\ profile = [u \in Users |-> [default EXCEPT !.holds = TRUE]]
           /\ Init
           /\ \A i \in DOMAIN trades : trades[i] = "Purchase"

MCInit ==
    \/ part = "senators" /\ Situations
    \/ part \in {"sync", "news", "config", "select", "lists", "quotes"} /\ Init

(* The clock of the configuration ticks once, that of the others to MaxTime.  *)
(* Syncs overlap when at most two trades of the senate are listed, else they *)
(* take turns.  At most one request in progress is get-stocks, and the price *)
(* does not change at the last tick.                                         *)
Overlapping == \E r, q \in Runs : r # q /\ Sync!Working(r) /\ Sync!Working(q)
Batches     == {c \in Clients : req[c].st # "idle" /\ req[c].batch}
MCNext ==
    /\ Next
    /\ part = "config" => now' <= 1
    /\ part = "sync" => ~Overlapping' \/ (chamber = "senate" /\ Len(listed') <= 2)
    /\ part = "quotes" => Cardinality(Batches') <= 1 /\ market' < MaxTime
MCSpec == MCInit /\ [][MCNext]_vars

MCSymbolOf == [a \in Articles |-> IF a = "a3" THEN "s2" ELSE "s1"]
MCLowered  == [n \in Names |-> IF n = DefaultName THEN 0 ELSE 1]

(* Runs, Clients and Admins are the same two values, and so are TradeIds,     *)
(* Isolates and Readers: no part uses two of either.                         *)
Symmetry == Permutations(Runs) \cup Permutations(TradeIds)
===============================================================================
