# Formal model of stockly-api

stockly-api is one Cloudflare Worker (`src/src/`): an HTTP API for stock data, users,
devices and price alerts, and cron jobs that evaluate alerts and send push notifications.
It keeps its state in a D1 database (SQL, one statement at a time), a KV namespace
(`alertsKv`) and module-level variables of each isolate the worker runs in. This directory
holds TLA+ models of the parts of it where those three interact, the TLC configurations
that check them and proofs checked by TLAPS. `PROJECT.json` lists the runs, the mutants
each property is known to catch, the source lines of every definition, the hazards and the
theorems.

## The system

| Component | State | Operations | Hard behaviour | What makes it correct | Here |
|---|---|---|---|---|---|
| Alert evaluation (`alerts/evaluate-alerts.ts`) | none (a snapshot per alert comes in and goes out) | `evaluateAlerts` | 0 and missing values | one notification per crossing, then only per 2% move after 15 minutes | `AlertEvaluation` |
| Alert state cache (`alerts/state-cache.ts`) | per isolate: states, queue, two timestamps; KV `alert:{id}:state` | load, update, flush | parallel reads and puts that fail one by one, expiry, eviction, several isolates | what a run evaluates is what the last run left; a queued state reaches KV | `AlertCron` |
| Price alert cron (`cron/alerts-cron.ts`) | local variables of a run | list, fetch quotes, load, evaluate, flush, notify | every await lets other runs, requests and evictions in | no repeat in the cooldown, nothing delivered twice, every run ends | `AlertCron`, `AlertDelivery` |
| Alerts table (`repositories/d1/AlertRepository.ts`) | rows `alerts` | create, update, delete | edited while a run works on its listing | evaluation survives edits | `AlertCron` |
| FCM sender (`notifications/fcm-sender.ts`) | attempt counter | prepare, post, classify, retry | an answer is lost after FCM accepted the push | bounded duplicates, a success is a success | `AlertDelivery` |
| Notification log, admin retry (`api/admin.ts`) | rows `notifications_log` | insert, resend a row | inserts throw, retries overlap the run | the log accounts for every push taken in hand | `AlertDelivery` |
| Devices and tokens (`api/push-token.ts`, `api/devices.ts`) | rows `devices`, `device_push_tokens` | `registerPushToken`, `deleteDevice` | several statements, no transaction | a stored token is on an active device of its user | `DeviceRegistry` |
| Admin configuration (`api/config.ts`) | KV key, copy per isolate trusted for 60 s | get, update | stale read-modify-write, failed reads, writes skipped outside working hours | a copy was in KV when it is dated | `AdminConfig` |
| Users and authentication (`api/auth.ts`) | rows `users`, tokens the client keeps | sign-in, availability check, `setUsername`, refresh, me, logout, profile update | concurrent first sign-ins, one name in two spellings, tokens minted from rows read before | one user per name, tokens for one's own names only | `UsernameRegister`, `Accounts` |
| Favorites, saved news, senator follows, settings, preferences | five tables keyed by user id, with a username beside it | replace, toggle, follow, read-modify-write | delete then insert without a transaction, conflicting INSERTs, exchanged usernames | rows of one user, confirmed means stored | `UserData` |
| News alerts (`cron/news-alert-cron.ts`) | KV mark per article | fetch, mark, select, push | marked before it is sent | pushed once, lost only for a stated reason | `NewsAlerts` |
| Senate and house trading (`services/*-trading.service.ts`) | trade rows by `fmp_id` | paged fetch, upsert | the list shifts between pages, syncs overlap, statements fail | a listed trade is stored once | `TradeSync` |
| Senator alerts (`alerts/evaluate-senator-alerts.ts`) | local variables of a run | three reads per trade and user, pushes | users edit between the reads, each failed read has its own default | alerted exactly when the user wants it | `SenatorAlerts` |
| Market lists (`services/market.service.ts`, `calendar.service.ts`) | KV entries with their own expiry | cache, provider, calculated, stale | puts nobody awaits | fresh means at most a TTL old | `MarketLists` |
| Quotes (`controllers/quotes.controller.ts`) | copy per isolate, rows `stock_prices` | get one, get many, fall back on the table | provider, INSERT or isolate fails between store and copy | the fallback is no older than what was shown | `QuoteCache` |
| Datalake selection (`DatalakeRepository.ts`) | `datalakes`, `datalake_api_mappings` | create, update, delete, select | unselect-all, look-up, select | the selection confirmed is in force | `Datalakes` |
| Stock, dividend, search, historical data, logging, routing, OpenAPI | caches and logs | fetch and transform | conversions, layout | | not modelled |

How they interact: the scheduler (`index.ts`, `scheduled`) starts `runAlertCron` under
`ctx.waitUntil`, so a run may overlap the next one and requests of the same isolate. A run
lists the alerts in D1, fetches quotes, loads states through the cache of its isolate,
evaluates, queues the new states, flushes the queue to KV when the configured interval has
passed, selects the tokens of each user to notify and hands each push to the FCM sender,
logging the result. Users edit alerts and register devices meanwhile; a news request
flushes the same queue without waiting; an administrator may resend a logged push. The same
trigger starts, in other hours, the news alerts and the trade syncs; a senate sync that
stored something is followed by the senator alerts, which read the favorites, settings and
follows of `UserData` and the devices of `DeviceRegistry`. Quotes and market lists read the
configuration, and everything provided from outside goes through the selected datalake.

## Modules

`AlertEvaluation` holds `evaluateAlerts` as operators on one alert, one price and one
previous snapshot. Prices are integers; `MovedEnough` multiplies out the division of the
code. `None` stands for `undefined`, and the falsy price 0 keeps its meaning
(`HasNotifiedPrice`). `lastTriggeredAt` is left out: nothing reads it to decide anything.

`AlertCron` is the cron, the cache and KV. A unit of the clock is the 5-minute trigger
period. Module variables are functions of the isolate, local variables functions of a run.
One action is what the code does between two awaits:

| Action | Code |
|---|---|
| `Fire`, `FireInVain` | the trigger, `listAlerts`, the filter on `active`, the early return |
| `NoQuoteArrives`, `EvaluateFromCache`, `BeginLoad` | after `fetchPrices`: no price; a warm cache; the start of a load |
| `ReadState` | one `kv.get` of the load is answered (found, missing or failed) |
| `EvaluateLoaded` | all reads answered, `evaluateAlerts`, the `updateStateInCache` loop |
| `SkipFlush`, `BeginFlush`, `PutSettles`, `EndFlush` | `flushPendingWritesToKV`, one `PutSettles` per put |
| `NewsFlush`, `NewsFlushDropped` | the same flush from a news request, nobody awaiting it |
| `Deliver`, `Finish`, `AbortSend` | the notification loop, one notification at a time |
| `Evict` | the isolate goes, with its memory and its runs |
| `CreateAlert`, `UpdateAlert`, `DeleteAlert` | `AlertRepository` |

What may go wrong is a parameter (`Disturbances`), so that a run of TLC can say under
which hypotheses a property holds. `lastNotice` is a history variable: when an alert was
last decided to be notified without its condition being evaluated as lapsed since.

`PriceAlertPromise` says what price alerts promise without caches, runs or isolates: a
state per alert, observations that move it as `evaluateAlerts` does, and a notification
owed exactly when it decides one. `AlertCronPromise` instantiates it: the state is the KV
entry, an observation takes place when its write is stored, and a notification is owed from
then until the run hands it over or is gone.

`AlertDelivery` details `Deliver`, `Finish` and `AbortSend`: the tokens of each
notification, old Expo tokens, the FCM sender with its attempts, the rows of
`notifications_log` and the administrator's retry, which shares the sender's steps. FCM is
external: it accepts a request, rejects it for good or for now, or never gets it; the answer
of an accepted request may be lost. Its history variables count pushes taken, handed to the
sender, accepted and accepted with a lost answer.

`DeviceRegistry` is `registerPushToken` and `deleteDevice`, one action per D1 statement,
with any statement allowed to throw (`Fail`). Only an administrator's delete gets past the
checks (`MayDelete`): the authentication of the endpoint returns no user id, so every other
user is refused as not the owner (`Forbidden`). A device is found by user and device_info, of
which `device_identifier` is a hash; no statement ever makes a token inactive, so a row
of `device_push_tokens` is an active token.

`UsernameRegister` is what the users table promises: an identity enters once, claims one
free username, and a profile update may exchange it for another free one. `Accounts` is the
code that provides it, one action per D1 statement: `LoginOrRegister` and its parts,
`CheckAvailability`, `SetUsername`, `Refresh`, `Me`, `Logout`, `UpdateProfile`; clients keep
the tokens they are given, and `ImplementsRegister` says the statements implement the
register. `UserData` takes the register's steps as its environment and models every handler
that writes one of the five tables of a user; no writing handler uses two of them, so a
behaviour is about one table. A row of settings or preferences has two columns of its PUT
(`first`, `second`) and one of the other endpoint (`other`); a PUT writes both of its
columns, `Null` into one its body leaves out (`PutSettings`), and `Sent` is what a
field of a body may hold.

`TradeSync` is `syncSenateTrades` and `syncHouseTrades`, which have the same steps over
different tables and mappings (`chamber`); the provider's list grows and is corrected
between the fetches. `SenatorAlerts` is `evaluateSenatorAlerts`, one action per read, push
and insert. `NewsAlerts` is `runNewsAlertCron`, cut off at any await; the put of a mark may
be applied although the run sees it throw, or never sees it (`PutUnseen`). `AdminConfig` is
`getConfig` and `updateConfig` in several isolates over one KV value. `Datalakes` is the
service and repository of the datalakes, for one endpoint. `MarketLists` is every cached
list: what the methods differ in (number of keys, calculated fallback, hours, KV expiry) is
decided by the variable `list`. `QuoteCache` is `get-stock` and `get-stocks` for one symbol
in several isolates; `last` is the answer the step gives, and whether it is "not available"
because the fallback's own SELECT threw (`AnswerMissing`).

`Filtering` is the `filter` that the syncs and the news alerts apply to what the provider
answers, as a recursive function.

These seven parts share no variable the code shares. `Background` instantiates each: a
behaviour is one of one part, and the variables of the other parts stay `Unused`. One run of
TLC so explores the union of seven small state spaces, each property speaks about its part,
and `BackgroundProofs` proves the same formulas for every value of the constants.
`MCBackground` narrows some parts as named under Bounds.

The other MC modules, `MCAlertCron`, `MCAlertDelivery`, `MCDeviceRegistry`, `MCAccounts` and
`MCUserData`, give TLC the model values of the modules they extend.

## Runs

| Run | Configuration | Result |
|---|---|---|
| `durable` | 1 isolate, 2 alerts (above, below), prices 0/100/102, evictions, aborts; `kvWriteIntervalSec` set to a trigger period, no KV failure, no overlap | `KeepsPromise` (refinement of `PriceAlertPromise`) and `EvaluatesDurable` hold |
| `warm` | 1 isolate, 2 alerts, everything may go wrong except overlap | `WarmInv`, `NoRepeatWhileWarm` hold |
| `hostile` | 2 isolates, 2 overlapping runs, 1 alert, everything may go wrong | `TypeOK`, `NoticeRecorded`, `RunsEnd` hold |
| `repeat` | the code's default periods (cooldown 3, cache 12, writes 12), no failure | `NoRepeat` is violated |
| `clear` | one failing put | `ClearedWhenWritten` is violated |
| `delivery` | 2 notifications, an FCM and an Expo token, 1 retry request, all faults | `TypeOK`, `AtMostOneUnlogged`, `SuccessWasAccepted`, `RepeatsExplained`, `AttemptsBounded`, `LoopEnds` hold |
| `registry` | 2 users (one an administrator), 2 infos, 2 tokens, 2 requests in progress, 3 device ids; administrators' deletes alone | `TypeOK`, `RegistryInv`, `RegisteredIsReachable` hold |
| `registry_race` | the same, an administrator's deletes overlap | `MarkedInactiveOnlyWhenEmpty` is violated |
| `accounts` | 2 identities, 2 clients, 3 usernames of which two differ in case, at most 2 per identity | `TypeOK`, `NamesUnique`, `TokensAreOwn`, `TokensCurrent`, `TakenExplained`, `AlreadySetExplained` and the refinement `ImplementsRegister` hold |
| `userdata` | 2 users, 2 clients, 2 usernames, each of the five tables | `TypeOK`, `RowsOwned`, `ListingsAgree`, `ConfirmedListStored`, `SavedMeansSaved`, `ConflictIsTransient`, `OwnRowsOnly` hold |
| `background` | the seven parts of `Background`, below | `TypeOK`, `CountedMeansStored`, `SyncComplete`, `AlertsWanted`, `PushedOnce`, `LossExplained`, `ServedIsRecent`, `SelectionKept`, `ListRecent`, `StaleIsNewestShown` hold |
| `pages` | one sync, pages of 2, up to 3 trades | `EndReached` is violated |

What the passing runs say together. When an administrator has set `kvWriteIntervalSec` to
a trigger period or less and no KV operation fails, the state in KV is the state every run
evaluates from, and alerts keep their promise through evictions and aborted loops
(`durable`): at most one delivery per decision, decisions only as the evaluation says. This
says nothing of the default interval of an hour, under which the promise breaks (`repeat`),
nor of the flush of a news request, which finds no queue between such runs. When KV is not
reliable, an isolate that stays up still does not repeat what it decided since its last load (`warm`).
With several isolates or overlapping runs neither holds, and what is left is that no copy
of a state is malformed and that runs end (`hostile`).

The runs of the second half say, part by part:

- `accounts`: the UNIQUE index decides a race for a username and the loser gets neither the
  name nor tokens for it; no token carries a name that was only asked for. `setUsername`
  refuses only for a reason that holds.
- `userdata`: both columns of a row name one user even across a profile update, but the
  listings by name and by id agree only while no username has been exchanged: afterwards
  the rows stay under the old name, as the code leaves them. A statement touches rows of its
  own user, and of a row that stays the columns of its endpoint, those it resets included.
- `background`, `sync`: a trade counted is stored in one row also when two runs both insert
  it, and a sync that ended missed no trade it owed, unless a page was cut short.
- `senators`: three reads and three filters amount to the documented wish of a user who did
  not edit meanwhile, with one exception the property names (`TypeSilenced`): a type turned
  off in a follow silences also a stock the user holds, because the early return at
  `evaluate-senator-alerts.ts:122-134` comes before the comment at 145-147 (see below). In
  one run no token is pushed a trade twice, except one that moved to
  another user meanwhile, who then gets it too.
- `news`: an article is never pushed twice to a reader, and it is lost only when the put of
  its mark was applied unseen, the SELECT of the tokens failed or the run was cut off
  between the mark and the last push.
- `config`: a copy read or put was in KV at its date or later. A failed read leaves the
  default and a skipped put leaves a configuration KV never had; the property names both.
- `select`: the selection confirmed without meeting another is in force until the next one
  begins. Two selections that do overlap can leave two datalakes selected, a failed one none.
- `lists`: fresh means at most a TTL old. The calculated and stale fallbacks are older.
- `quotes`: an answer from the table is never older than what anybody was shown from any
  isolate. Once a price was shown, "no price available" is answered only when the fallback's
  own read of the table failed (`quotes.controller.ts:67-69`).

The four violations are divergences between a comment and the code, quoted in
`PROJECT.json`: the 15-minute cooldown is broken by the hourly reload (`repeat`), the queue
is cleared after failed writes (`clear`), an administrator's delete can mark a device
inactive with a token on it (`registry_race`), and a full page of which one trade is
unreadable is taken for the last (`pages`; the property leaves out answers that are no list,
which yield no trade at all).

Three more divergences are in the models as the code has them, without a run of their own:

- While a flush awaits its puts (`state-cache.ts:143`), what another run of the isolate
  queues is cleared with the entries that were written (147). With `"overlap"` in
  `Disturbances` and no failure TLC finds `ClearedWhenWritten` violated in that way too.
- `devices.ts:197` says that regular users delete their own device, but line 249 compares
  with a user id the authentication never returns, so that only administrators delete.
- A held stock gives no alert when a follow of the senator has the type turned off, against
  the comment at `evaluate-senator-alerts.ts:145-146` ("regardless of follow status") and
  `docs/senate-trading-api.md:331`. `AlertsWanted` names it as the one exception
  (`TypeSilenced`) to the documented wish (`Wants`).

### Bounds

- Two alerts suffice for `durable` and `warm`: the loop treats alerts independently, and
  the second is there for what they share (a warm cache, one queue, one batch).
- Three prices: 0 is met by "below" and falsy, 100 meets the threshold of both, 102 moves
  by exactly the 2% threshold.
- `MaxClock` allows a load, an expiry and a reload (`CacheTTL = 2`), and a cooldown of two
  periods to pass and not to pass. `repeat` runs the code's real ratios.
- Two isolates and two runs give every pairwise interleaving; the theorems have no bound.
- `MAX_RETRIES` is 3 in the code and 2 in `delivery`: a first and a last attempt. Two
  notifications show the loop going on after a failure, one retry request the overlap.
- `MaxDevices = 3` leaves a third id for a duplicated device.
- `accounts`: two identities and two clients give every pairwise race; `MaxNames = 2` allows
  one exchange of a username. The e-mails of the two identities differ, so the conflict on
  `users.email` is not exercised.
- `userdata`: two keys of favorites (a replace that deletes, keeps and inserts), one key
  where a request only touches one; a column holds its default, another value or `Null`.
- `background`: two runs of a sync, pages of one trade and two pages, three listed trades
  (one beyond the window), two ids and one change; runs overlap in the senate while at most
  two trades are listed and take turns otherwise (the house's steps are the senate's); two
  users and two tokens, one of them of the retired format, and either one user with any
  profile, one trade and one token, or two holders with two of each (`Situations`); two
  readers and two symbols, an article of another day and one whose date cannot be parsed,
  two runs; two isolates and two clients (a request each, in either isolate) for the
  configuration and the quotes, two updates, a clock of two ticks for the quotes and the
  lists and of one for the configuration; of the quotes at most one request in progress is
  get-stocks, and the price does not change at the last tick; two administrators, two
  datalakes and three names, two of them equal in lower case; one client and two puts under
  way for the lists; one symbol for the quotes. The theorems of `BackgroundProofs` have no
  bound. Runs, clients and administrators are the same two values, and so are trade ids,
  isolates and readers, which no part mixes: permuting them is sound in every part.
- CHECK_DEADLOCK is FALSE where the clock bound, the single run of the loop or the last
  device id lets the model stop.

### Fairness

`AlertCron` assumes weak fairness of `RunStep(r)`: the runtime keeps running what a live
isolate awaits under `ctx.waitUntil`, and every get and put settles. Nothing is assumed of
the trigger (outside working hours it does nothing), users, failures or evictions.
`AlertDelivery` assumes the same of the loop and of each retry request. `DeviceRegistry`
states no liveness and assumes no fairness, nor do the modules of `accounts`, `userdata` and
`background`: their requests and runs may stop anywhere, which is what a discarded isolate does.

### Abstractions

- KV is linearizable. Real KV may serve a read up to 60 s stale, well under the 5-minute
  period between two runs; with several isolates the model already has older states.
- A put in flight when its isolate is evicted either lands before the eviction or not at all.
- The interval of the flush is read from the configuration at each use; any value of
  `Intervals` may be found.
- Time is in whole periods, and without `"overlap"` a run ends within its period.
- A user's tokens are any set when they are read; `DeviceRegistry` says which sets exist.
- A failing insert into `notifications_log` includes a collision of its primary key (alert,
  millisecond, first 20 characters of the token).
- `Accounts` leaves the verification of a Google token and of a signed token to a choice, and
  `EmailOf` to a constant.
- `UserData` keeps lists as sets: the display order and timestamps are data.
- `TradeSync` keeps of a trade its id, a version and whether each mapping can read it.
- `SenatorAlerts` has one stock and one senator, so that a profile is one row of each table;
  the PUT of the preferences leaves the senator columns alone, though
  `docs/senate-trading-api.md:335-349` says it accepts them.
- `NewsAlerts` has one run at a time and a reader per device; a KV key per symbol makes an
  article about two symbols two articles.
- `AdminConfig` has two settings, one of them the working hours: enough to see an update
  lost and a put skipped by the configuration it replaces.
- `MarketLists` takes the read of the configuration between an answer and its put as no
  time, and `QuoteCache` what `getConfig` answers as any value; its quote that comes
  without a stamp is stamped when it is mapped, as the row is. `get-stocks` of several
  symbols fails as a whole when one INSERT does, which one symbol does not show; the saving
  of historical prices in the background is left out.
- Rows made by data migrations, and tokens marked inactive by them, are not initial states.

## Proofs

`AlertCronProofs` (any isolates, runs, alerts, prices, periods and disturbances):

- `TypeCorrect`: `Spec => []TypeOK`. The snapshots evaluation builds are snapshots, and the
  clock never falls behind a recorded instant.
- `NoticesRecorded`: `Spec => []NoticeRecorded`. `NoticeRecorded` is inductive with `TypeOK`:
  a snapshot that says "met" was either just notified (both fields set) or inherits the
  fields of a previous snapshot that says "met"; copies only move between kv, cache, queue,
  batch and `seen`, and the clock only grows.
- `WarmInvariant`, `WarmCacheKeepsQuiet`: under `Alone` (no overlap, at most one isolate),
  `Spec => []WarmInv` and `Spec => NoRepeatWhileWarm`. The property alone is not inductive:
  it needs that a notification decided since the load is the one the cache holds
  (`CacheRemembers`), which needs that what a load has read is in the cache (`SeenIsCached`),
  that a run evaluates at the instant its trigger fired, later than all notices
  (`FreshRun`, `NoticesPast`), and that runs take turns (`OneAtATime`). A decision then either
  follows a lapse, or is a cooled-down move, or concerns a notice older than the load.
- `CacheAnswersAsKv`, `PromiseKept`: `Spec => []EvaluatesDurable` and the refinement `Spec
  => KeepsPromise`, under `Durable`, which is the circumstances of the run `durable` without
  its bounds: one isolate whose runs take turns, `kvWriteIntervalSec` at most a trigger
  period so that every flush is due, no failing get or put, no paused alert, a cooldown.
  This is a narrow hypothesis: the default interval is an hour, a deployment has more
  isolates, and nothing keeps runs from overlapping. The two are therefore the proofs behind
  one run, not among the project's results, and `PROJECT.json` does not list them.
  Evictions, aborted loops, expiries, quotes that do not arrive and edits remain, for any
  alerts, prices, runs and periods; a news request finds no queue to flush. The invariant
  `DurableInv` says why KV and the cache agree at each evaluation: a run flushes in the
  period it was fired in and nobody flushed before it then (`Punctual`), so a queued state
  is the cached one and the run in hand writes it (`QueueWritten`); a cached state not
  queued is in KV, and a loaded cache has what KV has of every alert (`CacheIsKv`), because
  the load listed and read every alert with a state (`LoadSees`, which needs that an id is
  not issued twice). `FlushJudged` then maps the steps: a put that lands is the observation
  `NextState` of the state it overwrites, and a notification is owed exactly when `Notifies`
  said so. Without `Durable` the promise does not hold: see the runs `repeat` and
  `clear`.

`DeviceRegistryProofs` (any users, devices, tokens and requests):

- `TypeCorrect`: types, and no request or token refers to a missing device, races included.
- `RegistryInvariant`: with `~DeletesRace`, `Spec => []RegistryInv`. That tokens are on active
  devices needs that a register request past its device statement works on an active device
  (`RegistersOnActiveDevice`), which only an administrator's delete could spoil; a delete is
  alone and marks a device only when it is empty (`DeletesAlone`).
- `RegisteredStaysReachable`: with `~DeletesRace`, `Spec => []RegisteredIsReachable`.

`AlertDeliveryProofs` (any notifications, tokens, retry requests, attempts and faults):

- `TypeCorrect`: types, and a sender is idle exactly when it has no push.
- `DeliveryInvariant`: `Spec => []DeliveryInv`, the inductive strengthening. `StepKinds`
  reduces the actions to eight kinds of steps, and each conjunct is carried over them.
- `SuccessIsTrue` (`SuccessWasAccepted`) needs that a sender that waits for an answer, or
  will return success, has an accepted push (`ResultsKnown`).
- `RepeatsAreExplained` (`RepeatsExplained`) needs to count the senders that still have an
  attempt before them against the sends (`AcceptsCounted`, over the finite set `Open(p)`),
  and that the loop never comes back to a push (`TakenOnce`).
- `AttemptsAreBounded` (`AttemptsBounded`): a push is never accepted more often than the
  attempts granted to it less those its senders still have (`AttemptsCounted`). A send grants
  MAX_RETRIES, an acceptance uses one up, a sender that returns or is evicted gives up the
  rest; what is left is counted as the finite set of pairs of a sender and an attempt.
- `UnloggedAtMostOne` (`AtMostOneUnlogged`): the push without a row is the one in hand
  (`OneUnlogged`), so the set of them has at most one element.

`AccountsProofs` (any identities, usernames, clients): `AccountsCorrect` is the inductive
invariant, of which `AccountsTypes`, `UsernamesAreUnique` and `TokensOwned` are conjuncts and
from which `TokensUpToDate` follows. Uniqueness and ownership alone are not inductive: a
request carries a username it read or wrote to a later statement, so the invariant also says
that a name in the table was held (`NamesHeld`) and what each value in flight is worth
(`RowsRead`, `NamesWritten`, `ProfilesNamed`). `RegisterImplemented` is the refinement
`Spec => ImplementsRegister`, step by step from the same invariant. `TakenIsExplained` and
`AlreadySetIsExplained` are the two refusals of `setUsername`: only four of its statements
answer them (`RefusedBy`), a row it has read stays in the table (`RowsPresent`), and the token
it works on is kept until its row was sought (`TokensPresented`).

`UserDataProofs` (any users, usernames, clients, keys): `UserDataInvariant` says that the
register is consistent, that rows have a primary key and a username its owner has had, and
that a request past its look-up works for such an id; `RowsBelong`, `ListingsShowTheSame`,
`SavedIsSaved` and `ConflictsPass` follow from it. `ConfirmedIsStored` and
`OnlyOwnRows` are its two properties of steps that need more. While a list of favorites is
replaced by a client that is alone, the list is the request's less what is still to be
inserted (`ReplaceOK`): true of the table although an INSERT may replace a row of the same id
under an older username. And a favorite has nothing in its columns (`FavoritesPlain`), so
the rows it deletes and inserts again lose nothing. What a statement touches then depends on
one fact: without renames, a row under the username of a request belongs to its id
(`NameOwner`).

`RequestProofs` and `JobProofs` hold the lemmas of the parts of `Background`, and
`BackgroundProofs` its theorems. `PartsKeepTheirInvariants` is the conjunction of an
inductive invariant per part; each property follows from the invariant of its part:

- *Trade syncs* (`CountedTradeStored`, `SyncStoresWhatItOwes`; any page size, pages, runs,
  and growth of the list). What a run owes is in hand, listed past the pages it has fetched,
  or stored (`SyncOwing`). The list only grows at its front, so a trade can only move to a
  later page; and a full page lost nothing to the mapping, so nothing owed is skipped. That
  one trade is one row needs the UNIQUE index and ids handed out in turn (`SyncTable`); that
  a run which is alone stores no older version needs that what anybody has fetched is no
  older than what it owes (`SyncAlone`).
- *Senator alerts* (`AlertsAsPreferred`, `NothingPushedTwice`). What the reads of an
  unchanged profile saw is the profile, or what the failed read stands for
  (`SenatorReadAsIs`). What was handed over is about a trade before the one in hand, a user
  before the one in hand, or a token no longer queued (`SenatorPassed`); a token that has not
  moved is of the user it is queued for or was handed over for (`SenatorHeld`).
- *News alerts* (`HiddenNewsExplained`, `NothingPushedTwice`). What was handed over is
  marked, so an article whose mark is being put was handed to nobody, and one being sent to
  nobody who is still in the queue (`NewsHanding`). A reader owed the article in hand was
  handed it, is in the queue, or is excused (`NewsOwing`).
- *Configuration* (`ConfigurationServedRecent`; any isolates, clients, clock, updates). Copies
  and requests are dated in the past, and an update past its put holds what was in KV since
  it asked. Later puts keep both, because a put dates what it overwrites.
- *Datalakes* (`SelectionsKept`). Whatever the selections under way can still leave selected
  is already among the outcomes `expected` allows, and one that has met no other is the only
  one under way, has turned everything off and finds the mapping it looked up (`SelectSole`).
- *Market lists* (`MarketListRecent`). An entry in KV or on its way expires a TTL after it
  was made and was made in the past, so one that has not expired is recent whenever its put
  was applied.
- *Quotes* (`StaleQuoteNewest`). The stamp of each copy, of each quote past its INSERT and the
  newest one shown are stamps of rows, and rows are never deleted; a read of the table that
  answers therefore finds a row no older than any price shown.

The assumptions are those the modules declare (`DeliveryAssumption`, `TimeAssumption`,
`NamesAssumption`, `AccountsAssumption`, `UserDataAssumption` and so on), all evaluated by TLC
on the instances. `BackgroundAssumption` has what the parts take for granted: bounds are
naturals, pages hold at least a trade, the default datalake is one, an article is about one
symbol, and the sets of users and symbols are finite, which a table and a list of symbols are
(a run goes through them one by one).

What `Kept`, and the concatenation of the news of several symbols, contain is an induction
over their length. The library's induction theorems take an operator as a parameter, so
`JobProofs` first derives, from the well-foundedness of `<` on the naturals, forms that take
a set: a set of naturals that is not empty has a least element (`LeastExists`), and one that
has 0 and with each number the next has them all (`CountUp`).

Only model-checked: liveness (`RunsEnd`, `LoopEnds`), which is out of the prover's reach.
Every other property of a passing run is a theorem. The violations are counterexamples and
nothing more.

## Not modelled

- The throttled notification of all users about a provider failure
  (`quotes.controller.ts:73-109`): both callers of `handleProviderFailure` pass no context
  (214, 218), so it is never started.
- The prefetch of market lists (`cron/market-prefetch-cron.ts`) writes `alertsKv`, the service
  reads `marketKv`, which `wrangler.jsonc` does not bind; `refreshMarketCacheOnPriceUpdate`
  calls `getConfig`, which `market-cache-refresh.service.ts` does not import, and stops there.
  Neither changes what a request is answered. `MarketLists` models the service as it is
  written, for a bound namespace.
- Files nothing imports (`alerts/state.ts`, `alerts/storage.ts`, `alerts/validation.ts`,
  `notifications/expo-sender.ts`, `api/settings.ts`, `api/preferences.ts`).
- Fetching and transforming data of stocks, dividends, searches and prices; logging; routing;
  the OpenAPI document: conversions and layout, no protocol between actors.
- Several symbols in one `get-stocks`, overlapping news runs, and a KV that answers an older
  put: see Abstractions.

## Plan

1. Composition of `AlertDelivery` and `SenatorAlerts` with `DeviceRegistry`: tokens reassigned
   or deleted between the select and the send.
2. `UserData` as the environment of `SenatorAlerts` and `NewsAlerts`, so that preferences
   and favorites change by the statements that change them.
3. `AdminConfig` as the environment of `AlertCron`, `MarketLists` and `QuoteCache`, in place of
   any value at each read.
4. Theorems about these compositions, from the invariants of their parts; and how far
   `KeepsPromise` survives when an alert may be paused.
