------------------------------ MODULE QuoteCache ------------------------------
(***************************************************************************)
(* The quote of one symbol: a copy in the memory of every isolate, the rows  *)
(* of stock_prices, and the provider behind them.                            *)
(*                                                                         *)
(* get-stock and get-stocks answer from the copy, else ask the provider,     *)
(* insert a row, and then replace the copy.  When anything fails, get-stock   *)
(* answers from the newest row and marks the answer stale; when there is none, *)
(* or that read fails too, it answers "no price available".  Every await is a *)
(* step; requests of one isolate interleave there and share its copy.  What  *)
(* getConfig answers (AdminConfig) is any value at each read.                *)
(***************************************************************************)
EXTENDS Integers

CONSTANTS
    Isolates,
    Clients,
    Poll,       \* ticks a copy, or a row, is fresh (pollingIntervalSec)
    None,       \* no copy
    MaxTime     \* bound of the model: ticks

VARIABLES
    now,
    market,     \* when the price last changed, as the provider stamps it
    prices,     \* the stamps of the rows of stock_prices
    cache,      \* per isolate: its copy
    req,        \* per client: its request
    shown,      \* ghost: the newest stamp any answer carried
    last        \* ghost: the answer of this step if it comes from the table, or
                \* should have (failed: its SELECT threw), and shown before it

vars == <<now, market, prices, cache, req, shown, last>>

(* A quote without a stamp gets one when it is mapped to a row.               *)
Unstamped == -1
Stamps    == {Unstamped} \cup 0..MaxTime
Idle      == [st |-> "idle"]
Steps     == {"check", "simulated", "service", "repo", "db", "fetch", "profile", "insert",
              "stored", "fallback"}
FromTable == [how : {"other", "row", "missing"}, failed : BOOLEAN, stamp : Stamps, floor : Stamps]
Requests  == [st : Steps, home : Isolates, batch : BOOLEAN, stamp : Stamps]

TypeOK ==
    /\ {now, market} \subseteq 0..MaxTime
    /\ prices \subseteq 0..MaxTime
    /\ cache \in [Isolates -> {None} \cup [stamp : 0..MaxTime, at : 0..MaxTime]]
    /\ req \in [Clients -> {Idle} \cup Requests]
    /\ shown \in Stamps
    /\ last \in FromTable

NoAnswer == [how |-> "other", failed |-> FALSE, stamp |-> Unstamped, floor |-> Unstamped]

Init ==
    /\ now = 0
    /\ market = 0
    /\ prices = {}
    /\ cache = [i \in Isolates |-> None]
    /\ req = [c \in Clients |-> Idle]
    /\ shown = Unstamped
    /\ last = NoAnswer
-----------------------------------------------------------------------------
Tick ==
    /\ now < MaxTime
    /\ now' = now + 1
    /\ last' = NoAnswer
    /\ UNCHANGED <<market, prices, cache, req, shown>>

(* The price changes at the provider. *)
Trade ==
    /\ market' = now
    /\ last' = NoAnswer
    /\ UNCHANGED <<now, prices, cache, req, shown>>

(* The isolate is discarded, its requests with it. *)
Evict(i) ==
    /\ cache' = [cache EXCEPT ![i] = None]
    /\ req' = [c \in Clients |->
                 IF req[c].st # "idle" /\ req[c].home = i THEN Idle ELSE req[c]]
    /\ last' = NoAnswer
    /\ UNCHANGED <<now, market, prices, shown>>
-----------------------------------------------------------------------------
(* ORDER BY timestamp DESC LIMIT 1: none without rows. *)
getLatestFromDb == {p \in prices : \A q \in prices : q <= p}

Step(c, st) ==
    /\ req' = [req EXCEPT ![c].st = st]
    /\ last' = NoAnswer
    /\ UNCHANGED shown

Answer(c, stamp) ==
    /\ req' = [req EXCEPT ![c] = Idle]
    /\ shown' = IF stamp > shown THEN stamp ELSE shown
    /\ last' = NoAnswer

(* "No price available". *)
AnswerMissing(c, failed) ==
    /\ req' = [req EXCEPT ![c] = Idle]
    /\ last' = [how |-> "missing", failed |-> failed, stamp |-> Unstamped, floor |-> shown]
    /\ UNCHANGED shown

AnswerRow(c, newest) ==
    /\ req' = [req EXCEPT ![c] = Idle]
    /\ last' = [how |-> "row", failed |-> FALSE, stamp |-> newest, floor |-> shown]
    /\ shown' = IF newest > shown THEN newest ELSE shown

AnswerStored(c) ==
    \/ prices = {} /\ AnswerMissing(c, FALSE)
    \/ \E newest \in getLatestFromDb : AnswerRow(c, newest)

(* An error, or a list without the symbol. *)
AnswerNothing(c) == Answer(c, Unstamped)

(* What get-stock does with an error, also when the schema of the response    *)
(* refuses a quote, is look into the table; get-stocks just fails, or leaves *)
(* the symbol out.                                                           *)
OnError(c) ==
    IF req[c].batch THEN AnswerNothing(c)
    ELSE /\ req' = [req EXCEPT ![c].st = "fallback", ![c].stamp = Unstamped]
         /\ last' = NoAnswer
         /\ UNCHANGED shown

Begin(c, i, first, batch) ==
    /\ req[c] = Idle
    /\ req' = [req EXCEPT ![c] = [st |-> first, home |-> i, batch |-> batch,
                                  stamp |-> Unstamped]]
    /\ last' = NoAnswer
    /\ UNCHANGED <<now, market, prices, cache, shown>>

GetStock(c, i)  == Begin(c, i, "check", FALSE)
GetStocks(c, i) == Begin(c, i, "service", TRUE)

Copy(c) == cache[req[c].home]

getCacheIfValid(c) == Copy(c) # None /\ now - Copy(c).at < Poll

CheckCopy(c) ==
    /\ req[c].st = "check"
    /\ IF getCacheIfValid(c) THEN Answer(c, Copy(c).stamp)
       ELSE \E simulate \in BOOLEAN : Step(c, IF simulate THEN "simulated" ELSE "service")
    /\ UNCHANGED <<now, market, prices, cache>>

(* Within the hours, or not: then a copy of any age will do, and is not marked *)
(* stale; without one, or when its schema refuses it, this is an error.      *)
CheckHours(c) ==
    /\ req[c].st = "service"
    /\ \/ Step(c, "repo")
       \/ Copy(c) # None /\ Answer(c, Copy(c).stamp)
       \/ OnError(c)
    /\ UNCHANGED <<now, market, prices, cache>>

CheckCopyAgain(c) ==
    /\ req[c].st = "repo"
    /\ IF getCacheIfValid(c) THEN Answer(c, Copy(c).stamp) \/ OnError(c)
       ELSE Step(c, "db")
    /\ UNCHANGED <<now, market, prices, cache>>

isFresh(stamp) == now - stamp <= Poll

(* get-stocks reads the row and asks the provider all the same.              *)
ReadLatest(c) ==
    /\ req[c].st = "db"
    /\ IF ~req[c].batch /\ \E newest \in getLatestFromDb : isFresh(newest)
       THEN AnswerStored(c) \/ OnError(c)
       ELSE Step(c, "fetch")
    /\ UNCHANGED <<now, market, prices, cache>>

Fetch(c) ==
    /\ req[c].st = "fetch"
    /\ \E stamp \in {market, Unstamped} :
          req' = [req EXCEPT ![c].st = "profile", ![c].stamp = stamp]
    /\ last' = NoAnswer
    /\ UNCHANGED <<now, market, prices, cache, shown>>

FetchFails(c) ==
    /\ req[c].st = "fetch"
    /\ OnError(c)
    /\ UNCHANGED <<now, market, prices, cache>>

Mapped(c) == IF req[c].stamp = Unstamped THEN now ELSE req[c].stamp

(* Mutant: the copy is replaced before the row is there. *)
CachedFirst(c) ==
    /\ req[c].st = "profile"
    /\ req' = [req EXCEPT ![c].st = "insert", ![c].stamp = Mapped(c)]
    /\ cache' = [cache EXCEPT ![req[c].home] = [stamp |-> Mapped(c), at |-> now]]
    /\ last' = NoAnswer
    /\ UNCHANGED <<now, market, prices, shown>>

(* The profile fetched after the quote never fails.                          *)
FetchProfile(c) ==
    /\ req[c].st = "profile"
    /\ req' = [req EXCEPT ![c].st = "insert", ![c].stamp = Mapped(c)]
    /\ last' = NoAnswer
    /\ UNCHANGED <<now, market, prices, cache, shown>>

insertQuote(c) ==
    /\ req[c].st = "insert"
    /\ prices' = prices \cup {req[c].stamp}
    /\ Step(c, "stored")
    /\ UNCHANGED <<now, market, cache>>

(* Also a quote without a price: the column is NOT NULL.                     *)
InsertFails(c) ==
    /\ req[c].st = "insert"
    /\ prices' \in {prices, prices \cup {req[c].stamp}}
    /\ OnError(c)
    /\ UNCHANGED <<now, market, cache>>

setCache(c) ==
    /\ req[c].st = "stored"
    /\ cache' = [cache EXCEPT ![req[c].home] = [stamp |-> req[c].stamp, at |-> now]]
    /\ Answer(c, req[c].stamp) \/ OnError(c)
    /\ UNCHANGED <<now, market, prices>>

Simulated(c) ==
    /\ req[c].st = "simulated"
    /\ AnswerStored(c)
    /\ UNCHANGED <<now, market, prices, cache>>

handleProviderFailure(c) ==
    /\ req[c].st = "fallback"
    /\ AnswerStored(c)
    /\ UNCHANGED <<now, market, prices, cache>>

(* The fallback answers a failed read of its own as it does a missing row.   *)
ReadFails(c) ==
    /\ \/ req[c].st \in {"simulated", "db"} /\ OnError(c)
       \/ req[c].st = "fallback" /\ AnswerMissing(c, TRUE)
    /\ UNCHANGED <<now, market, prices, cache>>

Next ==
    \/ Tick \/ Trade
    \/ \E i \in Isolates : Evict(i)
    \/ \E c \in Clients :
          \/ \E i \in Isolates : GetStock(c, i) \/ GetStocks(c, i)
          \/ CheckCopy(c) \/ CheckHours(c) \/ CheckCopyAgain(c) \/ ReadLatest(c)
          \/ Fetch(c) \/ FetchFails(c) \/ FetchProfile(c)
          \/ insertQuote(c) \/ InsertFails(c) \/ setCache(c)
          \/ Simulated(c) \/ handleProviderFailure(c) \/ ReadFails(c)

Spec == Init /\ [][Next]_vars
-----------------------------------------------------------------------------
(* A quote is stored before anybody sees it: an answer from the table, be it *)
(* fresh, marked stale or simulated, is never older than one that any client *)
(* got before from any isolate, and a price once shown is answered as "no    *)
(* price available" only when the read of the table has itself failed,       *)
(* whatever else fails or is discarded in between.                           *)
StaleIsNewestShown ==
    /\ last.how = "row" => last.stamp >= last.floor
    /\ last.how = "missing" /\ last.floor # Unstamped => last.failed
=============================================================================
