------------------------------ MODULE Background ------------------------------
(***************************************************************************)
(* The scheduled jobs and the cached or selected data behind the requests.   *)
(* The parts share no state: a behaviour is one of one part, chosen at the   *)
(* start, and the variables of the others stay Unused.                       *)
(* Two parts with a variable of the same name use the same variable here.    *)
(***************************************************************************)
EXTENDS Integers, Sequences, FiniteSets

CONSTANTS
    Runs, TradeIds, NoId, PageSize, MaxPages, MaxListed, MaxChanges,
    Users, Tokens, OldTokens, MaxTrades, MaxEdits,
    Readers, Symbols, Articles, SymbolOf, OldDates, BadDates, MaxFeed, MaxRuns,
    Isolates, Clients, CacheTtl, None, MaxTime, MaxUpdates,
    Lakes, DefaultLake, Names, DefaultName, Lowered, Admins,
    Askers, Ttl, MaxPuts,
    Poll,
    Unused

(* What the parts take for granted about their constants.                    *)
ASSUME BackgroundAssumption ==
    /\ NoId \notin TradeIds
    /\ {PageSize, MaxPages} \subseteq Nat \ {0}
    /\ {MaxListed, MaxChanges, MaxTrades, MaxEdits, MaxFeed, MaxRuns} \subseteq Nat
    /\ {CacheTtl, MaxTime, MaxUpdates, Ttl, MaxPuts, Poll} \subseteq Nat
    /\ IsFiniteSet(Users) /\ IsFiniteSet(Symbols)
    /\ OldTokens \subseteq Tokens
    /\ SymbolOf \in [Articles -> Symbols]
    /\ OldDates \subseteq Articles /\ BadDates \subseteq Articles \ OldDates
    /\ DefaultLake \in Lakes /\ DefaultName \in Names

VARIABLES
    part,
    chamber, listed, changes, trades, run,
    profile, device, moved, edits, st, rows, at, saw, queue, handed, log, failed, steady,
    likes, active, marks, runs, found, todo, owed, excused,
    stored, lastIn, now, closed, updates, cache, req,
    lakes, mapping, expected,
    list, kv, puts, last,
    market, prices, shown

Sync     == INSTANCE TradeSync
Senators == INSTANCE SenatorAlerts
News     == INSTANCE NewsAlerts
Config   == INSTANCE AdminConfig
Select   == INSTANCE Datalakes
Lists    == INSTANCE MarketLists WITH Clients <- Askers
Quotes   == INSTANCE QuoteCache

syncOnly    == <<chamber, listed, changes, run>>
senatorOnly == <<profile, device, moved, rows, at, saw, log, failed, steady>>
jobs        == <<edits, st, queue, handed>>
newsOnly    == <<likes, active, marks, runs, found, todo, owed, excused>>
configOnly  == <<stored, lastIn, updates>>
selectOnly  == <<lakes, mapping, expected>>
listsOnly   == <<list, kv, puts>>
quotesOnly  == <<market, prices, shown>>

(* The variables a part does not use.                                        *)
besidesSync     == <<senatorOnly, jobs, newsOnly, configOnly, now, closed, cache, req,
                     selectOnly, listsOnly, last, quotesOnly>>
besidesSenators == <<syncOnly, newsOnly, configOnly, now, closed, cache, req,
                     selectOnly, listsOnly, last, quotesOnly>>
besidesNews     == <<syncOnly, trades, senatorOnly, configOnly, now, closed, cache, req,
                     selectOnly, listsOnly, last, quotesOnly>>
besidesConfig   == <<syncOnly, trades, senatorOnly, jobs, newsOnly,
                     selectOnly, listsOnly, last, quotesOnly>>
besidesSelect   == <<syncOnly, trades, senatorOnly, jobs, newsOnly, configOnly, now, closed,
                     cache, listsOnly, last, quotesOnly>>
besidesLists    == <<syncOnly, trades, senatorOnly, jobs, newsOnly, configOnly, cache,
                     selectOnly, quotesOnly>>
besidesQuotes   == <<syncOnly, trades, senatorOnly, jobs, newsOnly, configOnly, closed,
                     selectOnly, listsOnly>>

NoSync     == chamber = Unused /\ listed = Unused /\ changes = Unused /\ run = Unused
NoTrades   == trades = Unused
NoSenators ==
    /\ profile = Unused /\ device = Unused /\ moved = Unused /\ rows = Unused /\ at = Unused
    /\ saw = Unused /\ log = Unused /\ failed = Unused /\ steady = Unused
NoJobs     == edits = Unused /\ st = Unused /\ queue = Unused /\ handed = Unused
NoNews     ==
    /\ likes = Unused /\ active = Unused /\ marks = Unused /\ runs = Unused
    /\ found = Unused /\ todo = Unused /\ owed = Unused /\ excused = Unused
NoConfig   == stored = Unused /\ lastIn = Unused /\ updates = Unused
NoNow      == now = Unused
NoHours    == closed = Unused
NoCache    == cache = Unused
NoReq      == req = Unused
NoSelect   == lakes = Unused /\ mapping = Unused /\ expected = Unused
NoLists    == list = Unused /\ kv = Unused /\ puts = Unused
NoLast     == last = Unused
NoQuotes   == market = Unused /\ prices = Unused /\ shown = Unused

(* What only requests have. *)
NoRequests == NoConfig /\ NoNow /\ NoHours /\ NoCache /\ NoReq
              /\ NoSelect /\ NoLists /\ NoLast /\ NoQuotes

(* What only jobs have. *)
NoRuns == NoSync /\ NoTrades /\ NoSenators /\ NoJobs /\ NoNews

Init ==
    \/ part = "sync" /\ Sync!Init /\ NoSenators /\ NoJobs /\ NoNews /\ NoRequests
    \/ part = "senators" /\ Senators!Init /\ NoSync /\ NoNews /\ NoRequests
    \/ part = "news" /\ News!Init /\ NoSync /\ NoTrades /\ NoSenators /\ NoRequests
    \/ part = "config" /\ Config!Init /\ NoRuns /\ NoSelect /\ NoLists /\ NoLast /\ NoQuotes
    \/ /\ part = "select" /\ Select!Init /\ NoRuns
       /\ NoConfig /\ NoNow /\ NoHours /\ NoCache /\ NoLists /\ NoLast /\ NoQuotes
    \/ part = "lists" /\ Lists!Init /\ NoRuns /\ NoConfig /\ NoCache /\ NoSelect /\ NoQuotes
    \/ part = "quotes" /\ Quotes!Init /\ NoRuns /\ NoConfig /\ NoHours /\ NoSelect /\ NoLists

SyncNext     == part = "sync"     /\ Sync!Next     /\ UNCHANGED <<part, besidesSync>>
SenatorsNext == part = "senators" /\ Senators!Next /\ UNCHANGED <<part, besidesSenators>>
NewsNext     == part = "news"     /\ News!Next     /\ UNCHANGED <<part, besidesNews>>
ConfigNext   == part = "config"   /\ Config!Next   /\ UNCHANGED <<part, besidesConfig>>
SelectNext   == part = "select"   /\ Select!Next   /\ UNCHANGED <<part, besidesSelect>>
ListsNext    == part = "lists"    /\ Lists!Next    /\ UNCHANGED <<part, besidesLists>>
QuotesNext   == part = "quotes"   /\ Quotes!Next   /\ UNCHANGED <<part, besidesQuotes>>

Next ==
    \/ SyncNext \/ SenatorsNext \/ NewsNext
    \/ ConfigNext \/ SelectNext \/ ListsNext \/ QuotesNext

vars == <<part, syncOnly, trades, senatorOnly, jobs, newsOnly, configOnly, now, closed, cache,
          req, selectOnly, listsOnly, last, quotesOnly>>

Spec == Init /\ [][Next]_vars
-----------------------------------------------------------------------------
(* The state of every part is well formed: trades are stored once per id,     *)
(* names of datalakes are distinct and mapped datalakes exist.               *)
TypeOK ==
    /\ part = "sync"     => Sync!TypeOK
    /\ part = "senators" => Senators!TypeOK
    /\ part = "news"     => News!TypeOK
    /\ part = "config"   => Config!TypeOK
    /\ part = "select"   => Select!TypeOK
    /\ part = "lists"    => Lists!TypeOK
    /\ part = "quotes"   => Quotes!TypeOK

(* See the modules of the parts for what these say.                          *)
CountedMeansStored == part = "sync" => Sync!CountedMeansStored
SyncComplete       == part = "sync" => Sync!SyncComplete
AlertsWanted       == part = "senators" => Senators!AlertsWanted
LossExplained      == part = "news" => News!LossExplained
ServedIsRecent     == part = "config" => Config!ServedIsRecent
SelectionKept      == part = "select" => Select!SelectionKept
ListRecent         == part = "lists" => Lists!ListRecent
StaleIsNewestShown == part = "quotes" => Quotes!StaleIsNewestShown

(* No user is pushed the same thing twice: a trade at most once per run, user *)
(* and token (and per token unless it moved to another user meanwhile), an   *)
(* article of the day at most once for ever.                                 *)
PushedOnce ==
    /\ part = "senators" => Senators!OncePerRun
    /\ part = "news" => News!HandedOnce
=============================================================================
