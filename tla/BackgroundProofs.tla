--------------------------- MODULE BackgroundProofs ---------------------------
(***************************************************************************)
(* Every part of Background keeps its invariant, and with it the properties  *)
(* stated of it, for every value of the constants.                           *)
(***************************************************************************)
EXTENDS RequestProofs, JobProofs

(* The invariants of the parts. *)
BackgroundInv ==
    /\ part = "sync"     => SyncInv
    /\ part = "senators" => SenatorInv
    /\ part = "news"     => NewsInv /\ NewsTyped
    /\ part = "config"   => ConfigInv
    /\ part = "select"   => SelectInv
    /\ part = "lists"    => ListInv
    /\ part = "quotes"   => QuoteInv

(* What the parts' proofs take for granted of the constants. *)
LEMMA BoundsAssumed ==
    /\ SyncBounds /\ NewsBounds /\ ListBounds
    /\ MaxEdits \in Nat /\ MaxTrades \in Nat /\ IsFiniteSet(Users)
    /\ MaxTime \in Nat /\ MaxUpdates \in Nat /\ DefaultLake \in Lakes /\ DefaultName \in Names
BY BackgroundAssumption DEF SyncBounds, NewsBounds, ListBounds

(* A behaviour is of one part, and each of its steps is one of that part.     *)
LEMMA StepOfPart ==
    ASSUME [Next]_vars
    PROVE  /\ part' = part
           /\ part = "sync"     => [Sync!Next]_(Sync!vars)
           /\ part = "senators" => [Senators!Next]_(Senators!vars)
           /\ part = "news"     => [News!Next]_(News!vars)
           /\ part = "config"   => [Config!Next]_(Config!vars)
           /\ part = "select"   => [Select!Next]_(Select!vars)
           /\ part = "lists"    => [Lists!Next]_(Lists!vars)
           /\ part = "quotes"   => [Quotes!Next]_(Quotes!vars)
<1>1. CASE UNCHANGED vars
  <2>1. UNCHANGED <<part, syncOnly, trades, senatorOnly, jobs, newsOnly, configOnly, now, closed,
                    cache, req, selectOnly, listsOnly, last, quotesOnly>>
    BY <1>1 DEF vars
  <2>2. UNCHANGED Sync!vars
    BY <2>1 DEF Sync!vars, syncOnly
  <2>3. UNCHANGED Senators!vars
    BY <2>1 DEF Senators!vars, Senators!work, Senators!people, senatorOnly, jobs
  <2>4. UNCHANGED News!vars
    BY <2>1 DEF News!vars, News!world, News!work, newsOnly, jobs
  <2>5. UNCHANGED Config!vars
    BY <2>1 DEF Config!vars, configOnly
  <2>6. UNCHANGED Select!vars
    BY <2>1 DEF Select!vars, selectOnly
  <2>7. UNCHANGED Lists!vars
    BY <2>1 DEF Lists!vars, listsOnly
  <2>8. UNCHANGED Quotes!vars
    BY <2>1 DEF Quotes!vars, quotesOnly
  <2> QED
    BY <2>1, <2>2, <2>3, <2>4, <2>5, <2>6, <2>7, <2>8
<1>2. CASE Next
  BY <1>2 DEF Next, SyncNext, SenatorsNext, NewsNext, ConfigNext, SelectNext, ListsNext, QuotesNext
<1> QED
  BY <1>1, <1>2

LEMMA BackgroundInitially == Init => BackgroundInv
<1> SUFFICES ASSUME Init PROVE BackgroundInv
  OBVIOUS
<1>1. part = "sync" => SyncInv
  BY BoundsAssumed, SyncInitially DEF Init
<1>2. part = "senators" => SenatorInv
  BY BoundsAssumed, SenatorInitially DEF Init
<1>3. part = "news" => NewsInv /\ NewsTyped
  BY BoundsAssumed, NewsInitially, NewsTypedInitially DEF Init
<1>4. part = "config" => ConfigInv
  BY BoundsAssumed, ConfigInitially DEF Init
<1>5. part = "select" => SelectInv
  BY BoundsAssumed, SelectInitially DEF Init
<1>6. part = "lists" => ListInv
  BY BoundsAssumed, ListInitially DEF Init
<1>7. part = "quotes" => QuoteInv
  BY BoundsAssumed, QuoteInitially DEF Init
<1> QED
  BY <1>1, <1>2, <1>3, <1>4, <1>5, <1>6, <1>7 DEF BackgroundInv

LEMMA BackgroundNextKeeps == ASSUME BackgroundInv, [Next]_vars PROVE BackgroundInv'
<1>1. part' = part
  BY StepOfPart
<1>2. CASE part = "sync"
  <2>1. SyncInv'
    BY <1>2, BoundsAssumed, StepOfPart, SyncNextKeeps DEF BackgroundInv
  <2> QED
    BY <1>1, <1>2, <2>1 DEF BackgroundInv
<1>3. CASE part = "senators"
  <2>1. SenatorInv'
    BY <1>3, BoundsAssumed, StepOfPart, SenatorNextKeeps DEF BackgroundInv
  <2> QED
    BY <1>1, <1>3, <2>1 DEF BackgroundInv
<1>4. CASE part = "news"
  <2>1. NewsInv' /\ NewsTyped'
    BY <1>4, BoundsAssumed, StepOfPart, NewsNextKeeps, NewsTypedKeeps DEF BackgroundInv
  <2> QED
    BY <1>1, <1>4, <2>1 DEF BackgroundInv
<1>5. CASE part = "config"
  <2>1. ConfigInv'
    BY <1>5, BoundsAssumed, StepOfPart, ConfigNextKeeps DEF BackgroundInv
  <2> QED
    BY <1>1, <1>5, <2>1 DEF BackgroundInv
<1>6. CASE part = "select"
  <2>1. SelectInv'
    BY <1>6, BoundsAssumed, StepOfPart, SelectNextKeeps DEF BackgroundInv
  <2> QED
    BY <1>1, <1>6, <2>1 DEF BackgroundInv
<1>7. CASE part = "lists"
  <2>1. ListInv'
    BY <1>7, BoundsAssumed, StepOfPart, ListNextKeeps DEF BackgroundInv
  <2> QED
    BY <1>1, <1>7, <2>1 DEF BackgroundInv
<1>8. CASE part = "quotes"
  <2>1. QuoteInv'
    BY <1>8, BoundsAssumed, StepOfPart, QuoteNextKeeps DEF BackgroundInv
  <2> QED
    BY <1>1, <1>8, <2>1 DEF BackgroundInv
<1>9. CASE part \notin {"sync", "senators", "news", "config", "select", "lists", "quotes"}
  BY <1>1, <1>9 DEF BackgroundInv
<1> QED
  BY <1>2, <1>3, <1>4, <1>5, <1>6, <1>7, <1>8, <1>9

(* The invariants of the parts hold in every reachable state.                 *)
THEOREM PartsKeepTheirInvariants == Spec => []BackgroundInv
<1>1. BackgroundInv /\ [Next]_vars => BackgroundInv'
  BY BackgroundNextKeeps
<1> QED
  BY <1>1, BackgroundInitially, PTL DEF Spec
-----------------------------------------------------------------------------
(* The state of every part is well formed in every reachable state: in       *)
(* particular the rows of senator and house trades are at most one per       *)
(* fmp_id, as their UNIQUE index promises, two datalakes never have the   *)
(* same name, and a mapping is to a datalake that exists.                    *)
THEOREM WellFormed == Spec => []TypeOK
<1>1. BackgroundInv => TypeOK
  <2> SUFFICES ASSUME BackgroundInv PROVE TypeOK
    OBVIOUS
  <2>1. part = "sync" => Sync!TypeOK
    BY SyncHolds, BoundsAssumed DEF BackgroundInv
  <2>2. part = "senators" => Senators!TypeOK
    BY DEF BackgroundInv, SenatorInv, SenatorCore
  <2>3. part = "news" => News!TypeOK
    BY NewsTypedHolds, BoundsAssumed DEF BackgroundInv
  <2>4. part = "config" => Config!TypeOK
    BY DEF BackgroundInv, ConfigInv
  <2>5. part = "select" => Select!TypeOK
    BY DEF BackgroundInv, SelectInv, SelectTyped, Select!TypeOK
  <2>6. part = "lists" => Lists!TypeOK
    BY DEF BackgroundInv, ListInv
  <2>7. part = "quotes" => Quotes!TypeOK
    BY DEF BackgroundInv, QuoteInv
  <2> QED
    BY <2>1, <2>2, <2>3, <2>4, <2>5, <2>6, <2>7 DEF TypeOK
<1> QED
  BY <1>1, PartsKeepTheirInvariants, PTL

(* A trade that a sync counted as added or updated is in the table, in one   *)
(* row, also when an overlapping run of the job inserted it between the      *)
(* SELECT and the INSERT.                                                    *)
THEOREM CountedTradeStored == Spec => []CountedMeansStored
<1>1. BackgroundInv => CountedMeansStored
  BY BoundsAssumed, SyncHolds DEF BackgroundInv, CountedMeansStored
<1> QED
  BY <1>1, PartsKeepTheirInvariants, PTL

(* A sync that ended stored every trade that was listed when it began and    *)
(* that later disclosures did not push out of the pages it reads, for any    *)
(* page size, any number of pages, any number of runs, and however the list  *)
(* shifts between its fetches.                                               *)
THEOREM SyncStoresWhatItOwes == Spec => []SyncComplete
<1>1. BackgroundInv => SyncComplete
  BY BoundsAssumed, SyncHolds DEF BackgroundInv, SyncComplete
<1> QED
  BY <1>1, PartsKeepTheirInvariants, PTL

(* A user whose profile did not change while a trade was held against it is  *)
(* alerted only when its profile, as documented, wants the trade, and is     *)
(* declined only when it does not, when a type turned off in a follow        *)
(* silenced a stock it holds, or when a read of the run failed.              *)
THEOREM AlertsAsPreferred == Spec => []AlertsWanted
<1>1. BackgroundInv => AlertsWanted
  BY DEF BackgroundInv, AlertsWanted, SenatorInv, SenatorCore
<1> QED
  BY <1>1, PartsKeepTheirInvariants, PTL

(* No token is pushed a trade twice in a run unless it moved to another user *)
(* meanwhile, and no reader an article twice by any run, for any number of   *)
(* devices, tokens, feeds and runs.                                          *)
THEOREM NothingPushedTwice == Spec => []PushedOnce
<1>1. BackgroundInv => PushedOnce
  BY SenatorNotTwice DEF BackgroundInv, PushedOnce, NewsInv
<1> QED
  BY <1>1, PartsKeepTheirInvariants, PTL

(* A reader found for an article whose device was active was handed it once  *)
(* the run is past it, unless the tokens could not be read or the run was    *)
(* cut off between the mark and the last push.                               *)
THEOREM HiddenNewsExplained == Spec => []LossExplained
<1>1. BackgroundInv => LossExplained
  BY DEF BackgroundInv, LossExplained, NewsInv
<1> QED
  BY <1>1, PartsKeepTheirInvariants, PTL

(* A configuration that an isolate has cached was in KV since the time it is *)
(* dated, or since the update asked whose answer it is; with CACHE_TTL for   *)
(* any number of units.                                                      *)
THEOREM ConfigurationServedRecent == Spec => []ServedIsRecent
<1>1. BackgroundInv => ServedIsRecent
  BY DEF BackgroundInv, ServedIsRecent, ConfigInv
<1> QED
  BY <1>1, PartsKeepTheirInvariants, PTL

(* What an endpoint is answered by is a selection the code's steps account   *)
(* for: a confirmed one stays until the next one begins or its datalake is   *)
(* deleted.                                                                  *)
THEOREM SelectionsKept == Spec => []SelectionKept
<1>1. BackgroundInv => SelectionKept
  BY DEF BackgroundInv, SelectionKept, SelectInv
<1> QED
  BY <1>1, PartsKeepTheirInvariants, PTL

(* An answer from the cache of market lists is at most a TTL old, however    *)
(* late its put was applied; older ones come from the fallback only.         *)
THEOREM MarketListRecent == Spec => []ListRecent
<1>1. BackgroundInv => ListRecent
  BY DEF BackgroundInv, ListRecent, ListInv
<1> QED
  BY <1>1, PartsKeepTheirInvariants, PTL

(* A quote from the table is never older than one that a client got before,  *)
(* and a price once shown is never answered as unavailable.                  *)
THEOREM StaleQuoteNewest == Spec => []StaleIsNewestShown
<1>1. BackgroundInv => StaleIsNewestShown
  BY DEF BackgroundInv, StaleIsNewestShown, QuoteInv
<1> QED
  BY <1>1, PartsKeepTheirInvariants, PTL
=============================================================================
