------------------------------- MODULE TradeSync -------------------------------
(***************************************************************************)
(* The six-hourly sync of congress trades: pages of the provider's list of   *)
(* disclosures, newest first, are stored in a table, one row per trade.      *)
(*                                                                         *)
(* The senate and the house have each a cron job, a service and a table with *)
(* the same steps and nothing shared; a behaviour is about one chamber,      *)
(* chosen at the start.  Every awaited fetch and D1 statement is an action.  *)
(* Two runs of one job overlap when a trigger is delivered twice.            *)
(***************************************************************************)
EXTENDS Integers, Sequences, FiniteSets, Filtering

CONSTANTS
    Runs,       \* invocations of the cron job
    TradeIds,   \* the provider's ids of trades (fmp_id)
    NoId,       \* of a trade the provider lists without an id
    PageSize,   \* trades asked per page (100 in the code)
    MaxPages,   \* pages read per sync (5 in the code)
    MaxListed,  \* bound of the model: trades the provider lists
    MaxChanges  \* bound of the model: listings and corrections after the start

VARIABLES
    chamber,    \* whose trades this behaviour is about
    listed,     \* the provider's list
    changes,    \* how often it changed
    trades,     \* the table
    run         \* per run: the state of its sync

vars == <<chamber, listed, changes, trades, run>>

(* What a listed trade is to the code: "office" gives the member's name only *)
(* where the senate's mapping looks for it, "unreadable" lacks a field both  *)
(* mappings require, "invalid" is refused by the checks of upsertTrade.      *)
Kinds == {"good", "office", "unreadable", "invalid"}
Items == [fid : TradeIds \cup {NoId}, kind : Kinds, ver : 0..1]
Rows  == [id : Nat \ {0}, fid : TradeIds \cup {NoId}, ver : 0..1]
Steps == {"fetch", "find", "check", "insert", "update", "ended", "aborted"}

SenateReadable(item) == item.kind # "unreadable"
HouseReadable(item)  == item.kind \notin {"unreadable", "office"}
Readable(item) ==
    IF chamber = "senate" THEN SenateReadable(item) ELSE HouseReadable(item)

RowOf(f) == {t \in trades : t.fid = f /\ f # NoId}

(* One run: its step, page, the trades fetched and still to store, the ids    *)
(* counted as added or updated.  Ghosts: the trades listed when it began that *)
(* it still owes (due: not those a failed statement was about), whether a page *)
(* ended the pagination though more was listed (cut), and whether no other run *)
(* overlapped (alone).                                                       *)
NoRun == [st |-> "idle", page |-> 0, got |-> <<>>,
          counted |-> {}, due |-> {}, cut |-> FALSE, alone |-> TRUE]

Working(r) == run[r].st \in {"fetch", "find", "check", "insert", "update"}

TypeOK ==
    /\ chamber \in {"senate", "house"}
    /\ listed \in Seq(Items) /\ Len(listed) <= MaxListed
    /\ changes \in 0..MaxChanges
    /\ trades \subseteq Rows
    /\ \A t, u \in trades : t.id = u.id \/ (t.fid # NoId /\ t.fid = u.fid) => t = u
    /\ \A r \in Runs :
          /\ run[r].st \in Steps \cup {"idle"}
          /\ run[r].page \in 0..(MaxPages - 1)
          /\ run[r].got \in Seq({item \in Items : Readable(item)})
          /\ run[r].counted \subseteq TradeIds \cup {NoId}
          /\ run[r].due \subseteq Items
          /\ {run[r].cut, run[r].alone} \subseteq BOOLEAN

(* Ids are listed once. *)
Listings ==
    {s \in UNION {[1..n -> Items] : n \in 0..MaxListed} :
        \A i, j \in DOMAIN s : i # j => s[i].fid # s[j].fid}

Init ==
    /\ chamber \in {"senate", "house"}
    /\ listed \in {s \in Listings : \A i \in DOMAIN s : s[i].ver = 0}
    /\ changes = 0
    /\ trades = {}
    /\ run = [r \in Runs |-> NoRun]
-----------------------------------------------------------------------------
(* The provider: a new disclosure heads the list, a listed one is corrected. *)
Publish ==
    /\ changes < MaxChanges /\ Len(listed) < MaxListed
    /\ \E item \in Items :
          /\ item.ver = 0 /\ item.kind \in {"good", "unreadable"}
          /\ \A i \in DOMAIN listed : listed[i].fid # item.fid
          /\ listed' = <<item>> \o listed
    /\ changes' = changes + 1
    /\ UNCHANGED <<chamber, trades, run>>

Correct ==
    /\ changes < MaxChanges
    /\ \E i \in DOMAIN listed : listed' = [listed EXCEPT ![i].ver = 1]
    /\ changes' = changes + 1
    /\ UNCHANGED <<chamber, trades, run>>
-----------------------------------------------------------------------------
Begin(r) ==
    /\ run[r].st = "idle"
    /\ LET others == {q \in Runs \ {r} : Working(q)}
           due == {listed[i] : i \in {j \in DOMAIN listed :
                                        Readable(listed[j]) /\ listed[j].kind # "invalid"}}
       IN  run' = [q \in Runs |->
                     IF q = r THEN [NoRun EXCEPT !.st = "fetch", !.due = due,
                                                 !.alone = others = {}]
                     ELSE IF q \in others THEN [run[q] EXCEPT !.alone = FALSE]
                     ELSE run[q]]
    /\ UNCHANGED <<chamber, listed, changes, trades>>

(* Still within the pages a sync reads. *)
Window == {listed[i].fid : i \in {j \in DOMAIN listed : j <= MaxPages * PageSize}}

Page(p) ==
    LET end == (p + 1) * PageSize
    IN  SubSeq(listed, p * PageSize + 1, IF end <= Len(listed) THEN end ELSE Len(listed))

(* Trades that cannot be read are dropped before the page is counted. *)
SenatePage(p) == Kept(Page(p), {item \in Items : SenateReadable(item)})
HousePage(p)  == Kept(Page(p), {item \in Items : HouseReadable(item)})
MappedPage(p) == IF chamber = "senate" THEN SenatePage(p) ELSE HousePage(p)

FetchPage(r) ==
    LET mapped == MappedPage(run[r].page)
        short  == Len(mapped) < PageSize
        last   == short \/ run[r].page + 1 >= MaxPages
    IN  /\ run[r].st = "fetch"
        /\ run' = [run EXCEPT
              ![r].got  = @ \o mapped,
              ![r].st   = IF last THEN "find" ELSE "fetch",
              ![r].page = IF last THEN 0 ELSE @ + 1,
              ![r].due  = IF last THEN {d \in @ : d.fid \in Window} ELSE @,
              ![r].cut  = short /\ Len(listed) > (run[r].page + 1) * PageSize]
        /\ UNCHANGED <<chamber, listed, changes, trades>>

(* An answer that is neither a list nor holds one reads as an empty page. *)
FetchOdd(r) ==
    /\ run[r].st = "fetch"
    /\ run' = [run EXCEPT ![r].st  = "find", ![r].page = 0,
                          ![r].due = {d \in @ : d.fid \in Window},
                          ![r].cut = Len(listed) > run[r].page * PageSize]
    /\ UNCHANGED <<chamber, listed, changes, trades>>

(* Mutant: the pages fetched so far are synced. *)
FetchFailsPartial(r) ==
    /\ run[r].st = "fetch"
    /\ run' = [run EXCEPT ![r].st = "find"]
    /\ UNCHANGED <<chamber, listed, changes, trades>>

(* No page, no sync: nothing of the pages before it is stored. *)
FetchFails(r) ==
    /\ run[r].st = "fetch"
    /\ run' = [run EXCEPT ![r] = [NoRun EXCEPT !.st = "aborted"]]
    /\ UNCHANGED <<chamber, listed, changes, trades>>

Item(r)      == Head(run[r].got)
AtItem(r, s) == run[r].st = s /\ run[r].got # <<>>

Counted(s) == [s EXCEPT !.st = "find", !.got = Tail(@),
                        !.counted = @ \cup {Head(s.got).fid}]

(* The next trade after a failed one: the sync goes on. *)
Failed(s) == [s EXCEPT !.st = "find", !.got = Tail(@),
                       !.due = {d \in @ : d.fid # Head(s.got).fid}]

(* Of the two reads by fmp_id only the second decides what is written; the   *)
(* first decides whether the trade is counted as added or as updated.        *)
FindExisting(r) ==
    /\ AtItem(r, "find")
    /\ run' = IF Item(r).kind = "invalid"
              THEN [run EXCEPT ![r] = Failed(@)]
              ELSE [run EXCEPT ![r].st = IF Item(r).fid = NoId THEN "insert" ELSE "check"]
    /\ UNCHANGED <<chamber, listed, changes, trades>>

CheckExisting(r) ==
    /\ AtItem(r, "check")
    /\ run' = [run EXCEPT ![r].st =
                  IF RowOf(Item(r).fid) # {} THEN "update" ELSE "insert"]
    /\ UNCHANGED <<chamber, listed, changes, trades>>

(* Mutant: any error of the INSERT is taken for a UNIQUE conflict. *)
StatementFailsCounted(r) ==
    /\ \E s \in {"check", "insert", "update"} : AtItem(r, s)
    /\ run' = [run EXCEPT ![r] = IF @.st = "insert" THEN Counted(@) ELSE Failed(@)]
    /\ UNCHANGED <<chamber, listed, changes, trades>>

StatementFails(r) ==
    /\ \E s \in {"find", "check", "insert", "update"} : AtItem(r, s)
    /\ run[r].st = "find" => Item(r).fid # NoId
    /\ run' = [run EXCEPT ![r] = Failed(@)]
    /\ UNCHANGED <<chamber, listed, changes, trades>>

(* UPDATE ... WHERE fmp_id = ?: the row keeps its id. *)
Update(r) ==
    /\ AtItem(r, "update")
    /\ trades' = {IF t.fid = Item(r).fid THEN [t EXCEPT !.ver = Item(r).ver] ELSE t :
                     t \in trades}
    /\ run' = [run EXCEPT ![r] = Counted(@)]
    /\ UNCHANGED <<chamber, listed, changes>>

(* Mutant: fmp_id is indexed, not UNIQUE. *)
InsertUnindexed(r) ==
    /\ AtItem(r, "insert")
    /\ trades' = trades \cup {[id |-> Cardinality(trades) + 1, fid |-> Item(r).fid,
                               ver |-> Item(r).ver]}
    /\ run' = [run EXCEPT ![r] = Counted(@)]
    /\ UNCHANGED <<chamber, listed, changes>>

(* INSERT with a fresh id; a UNIQUE fmp_id already there is taken for success. *)
Insert(r) ==
    /\ AtItem(r, "insert")
    /\ trades' = IF RowOf(Item(r).fid) # {} THEN trades
                 ELSE trades \cup {[id |-> Cardinality(trades) + 1, fid |-> Item(r).fid,
                                    ver |-> Item(r).ver]}
    /\ run' = [run EXCEPT ![r] = Counted(@)]
    /\ UNCHANGED <<chamber, listed, changes>>

Finish(r) ==
    /\ run[r].st = "find" /\ run[r].got = <<>>
    /\ run' = [run EXCEPT ![r].st = "ended"]
    /\ UNCHANGED <<chamber, listed, changes, trades>>

Upsert(r) == CheckExisting(r) \/ StatementFails(r) \/ Update(r) \/ Insert(r)

SenateUpsert(r) == chamber = "senate" /\ Upsert(r)
HouseUpsert(r)  == chamber = "house" /\ Upsert(r)

Sync(r) ==
    \/ FetchPage(r) \/ FetchOdd(r) \/ FetchFails(r)
    \/ FindExisting(r) \/ SenateUpsert(r) \/ HouseUpsert(r) \/ Finish(r)

SenateSync(r) == chamber = "senate" /\ (Begin(r) \/ Sync(r))
HouseSync(r)  == chamber = "house" /\ (Begin(r) \/ Sync(r))

Next == Publish \/ Correct \/ \E r \in Runs : SenateSync(r) \/ HouseSync(r)

Spec == Init /\ [][Next]_vars
-----------------------------------------------------------------------------
(* A trade counted as added or updated is stored, in one row: also when an   *)
(* overlapping run of the job inserted it between the reads and the INSERT,  *)
(* which fails on the UNIQUE index and is still counted as added.            *)
CountedMeansStored ==
    \A r \in Runs : \A f \in run[r].counted \ {NoId} : Cardinality(RowOf(f)) = 1

(* A sync that ended has stored every trade that was listed when it began and *)
(* that later disclosures did not push out of the pages it reads, though the *)
(* list shifts between its fetches and statements about other trades fail;   *)
(* alone, in the version listed or a newer one.  Only a page that, or a trade *)
(* of which, cannot be read makes it miss trades.                            *)
SyncComplete ==
    \A r \in Runs :
        run[r].st = "ended" /\ ~run[r].cut =>
            \A d \in run[r].due : d.fid # NoId =>
                \E t \in trades : t.fid = d.fid /\ (run[r].alone => t.ver >= d.ver)

(* "If we got fewer trades than the limit, we've reached the end": no page   *)
(* that gave some trades, but fewer than asked, ends the fetching while a     *)
(* readable trade is listed after it.                                        *)
EndReached ==
    [][\A r \in Runs :
         /\ run[r].st = "fetch" /\ run'[r].st = "find"
         /\ Len(run'[r].got) - Len(run[r].got) \in 1..(PageSize - 1)
         => \A i \in DOMAIN listed :
               i > (run[r].page + 1) * PageSize => ~Readable(listed[i])]_vars
=============================================================================
