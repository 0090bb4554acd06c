------------------------------ MODULE MarketLists ------------------------------
(***************************************************************************)
(* A list of the market behind its KV cache: each method of MarketService    *)
(* and of CalendarService.                                                   *)
(*                                                                         *)
(* A request reads the cache, asks the provider, hands the answer to a put   *)
(* nobody waits for, and falls back when the provider fails.  Such a put may *)
(* be applied late, after a later one, or never: the answer has been sent by *)
(* then and the isolate may be gone.  An entry carries its own expiry, set   *)
(* when the provider answered; KV drops it a TTL after the put was applied,  *)
(* or somewhat later.                                                        *)
(***************************************************************************)
EXTENDS FiniteSets, Integers

CONSTANTS
    Clients,
    Ttl,        \* ticks a list is fresh
    MaxTime,    \* bound of the model: ticks
    MaxPuts     \* bound of the model: puts under way

VARIABLES
    list,       \* the list this behaviour is about
    now,
    closed,     \* outside the working hours KV is neither read nor written
    kv,         \* per key: the entry
    puts,       \* puts under way
    req,        \* per client: its request
    last        \* ghost: the last answer, and its age

vars == <<list, now, closed, kv, puts, req, last>>

(* Rankings have two keys and a calculated fallback; timed lists are not      *)
(* fetched outside the hours; the status has no TTL in KV.                   *)
Rankings  == {"gainers", "losers", "actives"}
Timed     == {"screener", "sectors"}
Calendars == {"earnings", "dividends", "ipos", "splits"}
Lists     == Rankings \cup Timed \cup Calendars \cup {"status", "sentiment", "crypto"}
Keys      == {"top50", "full"}

Missing == [gone |-> 0]
Entries == [made : 0..MaxTime, expires : 0..(MaxTime + Ttl)]
Held    == [entry : Entries, gone : Ttl..(MaxTime + Ttl)]
Puts    == [key : Keys, entry : Entries]
Idle    == [st |-> "idle"]
Steps   == {"top50", "full", "fetch", "calculate", "stale"}
Requests == [st : Steps, hours : BOOLEAN]
Answers == [how : {"none", "cache", "provider", "calculated", "stale", "empty"},
            age : 0..MaxTime]

TypeOK ==
    /\ list \in Lists
    /\ now \in 0..MaxTime
    /\ closed \in BOOLEAN
    /\ kv \in [Keys -> {Missing} \cup Held]
    /\ puts \subseteq Puts
    /\ req \in [Clients -> {Idle} \cup Requests]
    /\ last \in Answers

Init ==
    /\ list \in Lists
    /\ now = 0
    /\ closed \in BOOLEAN
    /\ kv = [k \in Keys |-> Missing]
    /\ puts = {}
    /\ req = [c \in Clients |-> Idle]
    /\ last = [how |-> "none", age |-> 0]
-----------------------------------------------------------------------------
Tick ==
    /\ now < MaxTime
    /\ now' = now + 1
    /\ UNCHANGED <<list, closed, kv, puts, req, last>>

Turn ==
    /\ closed' = ~closed
    /\ UNCHANGED <<list, now, kv, puts, req, last>>

(* KV applies the put, also when a later one was applied before.             *)
ApplyPut(p) ==
    /\ puts' = puts \ {p}
    /\ kv' = [kv EXCEPT ![p.key] = [entry |-> p.entry, gone |-> now + Ttl]]
    /\ UNCHANGED <<list, now, closed, req, last>>

LosePut(p) ==
    /\ puts' = puts \ {p}
    /\ UNCHANGED <<list, now, closed, kv, req, last>>

Drop(k) ==
    /\ list # "status"
    /\ kv[k] # Missing /\ kv[k].gone <= now
    /\ kv' = [kv EXCEPT ![k] = Missing]
    /\ UNCHANGED <<list, now, closed, puts, req, last>>
-----------------------------------------------------------------------------
Step(c, st) ==
    /\ req' = [req EXCEPT ![c].st = st]
    /\ UNCHANGED last

Answer(c, how, age) ==
    /\ req' = [req EXCEPT ![c] = Idle]
    /\ last' = [how |-> how, age |-> age]

Ask(c, first) ==
    /\ req[c] = Idle
    /\ req' = [req EXCEPT ![c] = [st |-> first, hours |-> ~closed]]
    /\ UNCHANGED <<list, now, closed, kv, puts, last>>

(* A small first page of a ranking is looked for in its own key first.       *)
AskRanking(c) == \E first \in Keys : Ask(c, first)

getGainers(c)            == list = "gainers"   /\ AskRanking(c)
getLosers(c)             == list = "losers"    /\ AskRanking(c)
getActives(c)            == list = "actives"   /\ AskRanking(c)
getScreener(c)           == list = "screener"  /\ Ask(c, "full")
getSectorsPerformance(c) == list = "sectors"   /\ Ask(c, "full")
getMarketStatus(c)       == list = "status"    /\ Ask(c, "full")
getSocialSentiment(c)    == list = "sentiment" /\ Ask(c, "full")
getCryptoQuotes(c)       == list = "crypto"    /\ Ask(c, "full")
getEarningsCalendar(c)   == list = "earnings"  /\ Ask(c, "full")
getDividendCalendar(c)   == list = "dividends" /\ Ask(c, "full")
getIPOCalendar(c)        == list = "ipos"      /\ Ask(c, "full")
getStockSplitCalendar(c) == list = "splits"    /\ Ask(c, "full")

Request(c) ==
    \/ getGainers(c) \/ getLosers(c) \/ getActives(c)
    \/ getScreener(c) \/ getSectorsPerformance(c) \/ getMarketStatus(c)
    \/ getSocialSentiment(c) \/ getCryptoQuotes(c)
    \/ getEarningsCalendar(c) \/ getDividendCalendar(c)
    \/ getIPOCalendar(c) \/ getStockSplitCalendar(c)

(* Mutant: what KV still holds is fresh. *)
FreshWhileStored(entry) == TRUE

(* The status compares the expiry strictly.                                  *)
Fresh(entry) == IF list = "status" THEN now < entry.expires ELSE now <= entry.expires

Found(k) == ~closed /\ kv[k] # Missing

(* A timed list whose request came outside the hours is not fetched.         *)
OnMiss(c) ==
    IF req[c].st = "top50" THEN "full"
    ELSE IF list \in Timed /\ ~req[c].hours THEN "stale" ELSE "fetch"

ReadCache(c) ==
    /\ req[c].st \in Keys
    /\ LET k == req[c].st
       IN  IF Found(k) /\ Fresh(kv[k].entry)
           THEN Answer(c, "cache", now - kv[k].entry.made)
           ELSE Step(c, OnMiss(c))
    /\ UNCHANGED <<list, now, closed, kv, puts>>

(* A read that throws, or an entry that cannot be read, is a miss.           *)
ReadFails(c) ==
    /\ req[c].st \in Keys
    /\ Step(c, OnMiss(c))
    /\ UNCHANGED <<list, now, closed, kv, puts>>

(* The screener reads its TTL between the answer and the put; that time is   *)
(* taken to be none.                                                         *)
Entry == [made |-> now, expires |-> now + Ttl]

PutAll(keys) ==
    LET more == IF closed THEN {} ELSE {[key |-> k, entry |-> Entry] : k \in keys}
    IN  /\ Cardinality(puts \cup more) <= MaxPuts
        /\ puts' = puts \cup more

CacheKeys == IF list \in Rankings THEN Keys ELSE {"full"}

ProviderAnswers(c) ==
    /\ req[c].st = "fetch"
    /\ PutAll(CacheKeys)
    /\ Answer(c, "provider", 0)
    /\ UNCHANGED <<list, now, closed, kv>>

ProviderFails(c) ==
    /\ req[c].st = "fetch"
    /\ Step(c, IF list \in Rankings THEN "calculate" ELSE "stale")
    /\ UNCHANGED <<list, now, closed, kv, puts>>

(* The ranking of the common stocks, stored like the provider's.             *)
Calculate(c) ==
    /\ req[c].st = "calculate"
    /\ PutAll(Keys)
    /\ Answer(c, "calculated", 0)
    /\ UNCHANGED <<list, now, closed, kv>>

CalculateFails(c) ==
    /\ req[c].st = "calculate"
    /\ Step(c, "stale")
    /\ UNCHANGED <<list, now, closed, kv, puts>>

(* Whatever the full key still holds, or, when it holds nothing or the read   *)
(* throws, an empty list or an error.                                        *)
ReadStale(c) ==
    /\ req[c].st = "stale"
    /\ \/ Found("full") /\ Answer(c, "stale", now - kv["full"].entry.made)
       \/ Answer(c, "empty", 0)
    /\ UNCHANGED <<list, now, closed, kv, puts>>

Next ==
    \/ Tick \/ Turn
    \/ \E p \in puts : ApplyPut(p) \/ LosePut(p)
    \/ \E k \in Keys : Drop(k)
    \/ \E c \in Clients :
          \/ Request(c) \/ ReadCache(c) \/ ReadFails(c)
          \/ ProviderAnswers(c) \/ ProviderFails(c)
          \/ Calculate(c) \/ CalculateFails(c) \/ ReadStale(c)

Spec == Init /\ [][Next]_vars
-----------------------------------------------------------------------------
(* An answer from the cache is at most a TTL old, however late its put was   *)
(* applied and however long KV kept the entry; only the fallback, when the   *)
(* provider failed or the hours forbid a fetch, answers with an older one.   *)
ListRecent == last.how = "cache" => last.age <= Ttl
=============================================================================
