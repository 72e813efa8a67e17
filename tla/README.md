# Verification of QuantHunt

TLA+ models of the parts of this repository that keep state while several things
happen at once, model-checked with TLC on small instances and, for the track record,
the investment cases, the caches, the synchronised documents, the client's screens and
what the client keeps, proved with TLAPS.
The program has two halves:

- the backend, one Python process (`server.py` and the modules it imports) with request
  threads, daemon threads and thread pools, a SQLite store and a handful of JSON files;
- the client, one React Native application (`mobile/src`) whose screens run in a single
  thread with many requests under way, and keep documents on the device.

Paths below are relative to the repository.

## 1. The system

### Parts, their state and operations

Backend:

| Part | State | Operations | Modules |
|---|---|---|---|
| Track record, `tradelog.py` | table `tradelog`; `_thread`, `_last_mark` | `record`, `open_trade`, `reconcile`, `settle`, `mark`, `ensure_marked`, the pass | `TradeLog`, `TrackRecord`, `LedgerProofs` |
| Historical replay, `backfill.py` | the same table; `_thread`; a completion marker | `ensure_started`, `_run` and its pool, `replay_symbol`, `walk_forward` | `Backfill`, `Replay`, `LedgerProofs`, `KeptProofs` |
| Investment cases, `cases.py` | three tables; `_thread`, `_last` | `ensure_built`, `_run`, `build_and_review`, `save_case`, `review_actions`, `apply_actions` | `Cases`, `LedgerProofs`, `SumsProofs` |
| Technical scan cache, `scanner.py` | `_CACHE`, `_inflight`, a bounded queue, a file | `scan`, `enqueue`, `_worker`, `_blocking_fill`, `_save`, `_load` | `ScanCache`, `CacheProofs` |
| Fundamentals cache, `fundamentals.py` | `_cache`, `_inflight`, `_pool`, `_warm`, `_dirty` | `get_one`, `enqueue`, `bulk`, `warm_start`, `warm_stop`, `_warm_run` | `FundCache`, `FundCacheProofs` |
| Its file | `fund_cache.json` and its `.tmp` | `_load`, `_save`, `_saver_loop` | `CacheFile`, `CacheProofs` |
| Documents, `users.py`, `server.user_data`, and `mobile/src/session.ts` | a document and its stamp, on the server and on each device | debounced push, pull, seeding, sign-in and out, deletion of the account, compare and put | `DocumentSync`, `ScreensProofs` |
| Sweeps, `momentum_screen.py`, `mb_screen.py`, `pattern_screen.py` | published state, a thread, a file | `ensure_started`, `_run`, `snapshot` | `SweepView` (as its pollers see it) |
| Alerts, API keys, push tokens, `alerts.py`, `apikeys.py`, `push.py` | lists in the key-value table | create, delete, arm, check; issue, verify, revoke; register, deliver | `Registry`, `PagesProofs` |
| Chat, `chat.py` | messages, read marks, handles | post, read since a cursor, mark, overview | `Chat` (with its screen), `BooksProofs` |
| Backtest jobs, `server.py` | a bounded table of jobs, the last result's file | launch, status, last | `Backtest` (with its screen) |
| Store, `store.py` | one SQLite connection behind one lock | `execute`, `query`, `kv_*` | one statement is one step |
| Company graphs, one-time codes, the server's small caches | a single flight; codes; limits | | left out (5.) |
| Indicators, scores, backtester, feeds, reference data, build | none that outlives a call, or remote | | left out (5.) |

Client:

| Part | State | Modules |
|---|---|---|
| Screener | rows, loads, scans, polls, filters, sort, pages; drafts in sheets; saved screens | `ScreenerTable`, `ScreenerSheets`, `Scoring` |
| Panels, stock page, option desk | a subject, its answers; legs of a strategy | `Panels`, `StockPage`, `OptionDesk` |
| Dossier | a symbol and the answers of fourteen sources | `Dossier` |
| Backtester's console | a configuration, kept lists, a polled job | `Backtest` |
| Sweeps and scans on screen | a loop of polls; four stores of scans that outlive their screens | `SweepView`, `ScanList` |
| Recommendation lists | mode, strategies, models, sectors, the open card | `Cards`, `ScanList`, `BooksProofs` |
| Tables | columns on show and kept, order, ticks, export | `Tables`, `BooksProofs` |
| Read cache, `swr.ts` | memory, disk, requests under way | `ClientCache` |
| Watchlists, paper trades, simulator, portfolio | documents on the device and the screens' copies | `Watchlists`, `PaperBook`, `Portfolio`, `KeptProofs` |
| Terminal | centre, trail, the embedded frame with its workspace | `Terminal`, `GraphView`, `PagesProofs` |
| Pages and history | the intents' stack beside the browser's history | `Navigation`, `Client`, `PagesProofs` |
| Chat | account, list, thread, cursor | `Chat`, `BooksProofs` |
| Calculators and charges | none | `Calculators` |
| Dashboard, news, printed reports, gates | ask once and draw | left out (5.) |

### How they interact

- The screens and `/recommendation` hand picks to `tradelog.record`; the ledger's mark
  pass asks the feed for quotes; `backfill` writes into the same table, and its rows are
  read by `record` like any others. `cases` strikes its baskets from the multibagger
  screen's snapshot.
- Clients poll: `scan` and `bulk` until nothing is pending, sweeps while they say running,
  backtest jobs until they end, chat threads at an interval. Many of these polls go
  through the client's read cache, which may answer with a snapshot from before.
- Everything that persists in SQLite goes through `store`, which locks and commits
  statement by statement: a read and the write that depends on it are two steps.
- On the device, screens hold copies of stored documents and write them back after
  awaits; writes to synchronised keys start the push timer of `session.ts`.
- One screen reaches another by an intent, which the shell, the tab hosts and the screen
  that mounts each look at on their own.

### What is hard, and what correct means

- *Ledger and replay.* A read of the open symbols and the inserts that rest on it; passes
  that settle rows from an older SELECT; restarts half way. Correct: one open call per
  engine and symbol, outcomes that match their exits, first touch wins and the stop
  before the target, nothing curated after the fact, every call settled in the end.
- *Cases.* Yearly strikes and reviews over months; a pass that dies between two
  statements; a dictionary made before the first move. Correct: no symbol held twice, no
  sale and purchase of one name in a pass, a ledger that tells what the holdings show.
- *Caches.* Marks taken and dropped by different threads, a queue at its bound, a stop
  that races the counters, savers that share a temporary file. Correct: marks that
  neither leak nor double the work, an answer for whoever keeps polling, a file that is
  always whole.
- *Documents.* Edits, pushes and pulls of several devices, lost requests, equal seconds.
  Correct: equal stamps mean equal copies, nothing is emptied, an edit reaches the server.
- *Lists in the key-value table.* Read, changed, written back whole around deliveries.
  Correct: deleted stays deleted, an alert tells once.
- *Screens.* Answers in any order, to a screen that has moved on; timers and polls that
  outlive their question; stale copies written back. Correct: what is shown is what was
  asked for last, a sign of loading has a request behind it, polls end, no write undoes
  another.

`PROJECT.json` lists each of these under "hazards", at its line.

## 2. Modules

Every variant definition (`WantedAlways` before `Wanted`, and so on) is a plausible
mistake in that place of the code; it is used by no action, and serves to confirm that
the properties notice it.

### Backend

**TradeLog, TrackRecord.** `rows` is the table in id order. A recorder is at `idle` or
`insert`: `RecordRead` is the SELECT of the open symbols (`have`), then each pick is
inserted (`RecordInsert`) or skipped. The mark pass is `EnsureMarked`, `MarkSymbols`,
`MarkPrices`, `MarkRead`, `MarkRow` per row, `MarkDone`, or `MarkFail` for an exception
anywhere; all end in the `finally`. `Restart` keeps the table and nothing else. Quotes,
picks and horizons are inputs. `TrackRecord` is the promise: a book to which a call is
published only while there is no open one about its engine and symbol, and resolved once.

**Backfill** extends `TradeLog` by the replay: `StartCheck` and `StartThread` are the two
halves of `ensure_started` (the marker is read outside the lock), then `Universe`,
`Take`, per trade `ReplayOpen` (the INSERT of an open row) and `ReplaySettle` or
`ReplayMark`, `SymbolDone` or `SymbolFail`, and `RunDone`, which writes the marker.

**Replay** is the loop of `replay_symbol` on one series of dated bars, with the loop of
`walk_forward` inside it: `Enter` opens a trade at the next bar; `WalkOn` and `WalkEnd` look
at one bar each (`Verdict`: stop, then target, then deadline), and the end of the walk
settles the trade and takes the bar it ended on as `busy`; `RunOut` is a walk that met no
end; `Pass` goes on. Which of these loops a worker of `Backfill` is in is left open there.

**Cases** is one case with its holdings and action ledger. A pass is a sequence of
committed statements: `Build`, `Upsert`, `CloseOld`, `InsertLeg`..., `LogStrike`; then
`Review` (all decisions at once, from one set of quotes), and per decision `Apply`,
`WriteMove`, `Refill` or `LeaveOpen`. `Fault` ends a pass anywhere. Weights are counted
in units of the whole.

**ScanCache.** `Poll` is one locked look of `scan`; then `Mark`, `Put` or `PutFull` per
symbol. Workers `Take`, `Store`, `Release`; the warm loop is `WarmScan` and `Fill`, which
stores with the time at which it began. `Save` and `Restart` keep what the code keeps.

**FundCache.** Openers (`get_one`, with the completion of partial rows, `GapFill`), a pool
fed by bulk requests (`Enqueue`, `Submit`, `PoolTake`) and a sweep's workers (`WarmTake`,
`WarmLook`, `WarmCount`, `WarmDone`) share `_fetch_one` and its in-flight set. The sweep
itself is `WarmStart`, `WarmStop`, `WarmEnd`, `WarmSaved`.

**CacheFile.** `_save` in its steps: `Copy` (under the lock, which clears `_dirty`),
`OpenSave` (empties the temporary file), `Write`, `Replace`. A thread's open file follows
the name when another saver moves it, as rename does. `Fail` is an exception in the
write, `Kill` the end of the process anywhere.

**DocumentSync.** `Edit` writes the copy and restarts the timer; `PushFire`, `DataCompare` and
`DataPut` are the sending, the route's look at the stamp and its put; the answer is
`Accepted`, or refused and taken over in two steps. A pull asks (`Pull`, `DataGet`), then
takes the server's copy or seeds it. `Lose`, `SignOut`, `DeleteAccount` and `Restart` are the
faults. `DeleteAccount` is the button, the route and `delete_user`: the document is purged
(`Purged`), the device is signed out or loses the answer, and the stamps, the copies, the
other devices' sessions and the requests under way stay.
`muddled` records the two cases in which stamps stop telling copies apart: a put over a
later or another copy of the same second, and two calls of one device under way.

**Registry.** The alerts, the keys and the devices, each as a list; an operation on the
first two reads in one step and writes all of it back in another, the third changes under
a lock around deliveries. A restart ends what is under way.

### Client

**Client** has what screens share: `ui` (the screen's state, a record), `calls` (requests and
timers under way) and `steps`, the bound of what a user does. A handler runs to its next
await in one action; answers and failures come in any order.

**Panels** are the 19 panels and single-question screens that ask about a subject: one set
of steps, and one record per panel for what its code does differently (does a new subject
clear what is shown, is an old answer dropped, what is shown for an error). **StockPage**
asks five sources at once. **OptionDesk** asks for a chain twice, without and with an
expiry, and edits legs.

**ScreenerTable** has the three stages of the screener (members of the universes, technicals
of a page and behind it of the rest, fundamentals polled until none is pending), each of
which a newer load may overtake; **ScreenerSheets** its drafts and saved screens;
**Scoring** its signal, filters, expressions, sentences and strategies, and the upside
assessment with the dossier's verdict, as operators on rows.

**SweepView** is a screen that polls a sweep through the read cache, with one record for
each of five such screens; the sweep runs beside it. **ScanList** is a scan
that analyses candidates a few at a time into a store that outlives the screen.
**Cards** is the page above those stores: modes, strategies, models, sectors that are
asked for, sheets and the printed list. **Tables** is the columns, order, ticks and
export of the six tables. **Dossier** and **Backtest** are those two screens, the second
with the server's jobs. **ClientCache** is `swr.ts` for one key.

**Watchlists**, **PaperBook** and **Portfolio** are the documents on the device with all
that writes them. **Navigation** is the intents' stack beside the browser's history, and
what each mounted screen takes from them. **Terminal** is the host, the frame that is
rebuilt whenever its key changes, and the answers to both; **GraphView** the four readings
of one graph (filters, sides, zones, blocks). **Chat** is the thread with its cursor
against the server's table. **Calculators** is every calculator and the charges of an
order, with growth factors in place of rates so that values are integers.

**Filters** is `Array.filter` and `Array.reduce`: `Places` keeps the elements at a set of
places, `Total` sums a function. They are recursive functions and not folds, because a
lemma cannot speak of an operator that is a parameter; the lists that are proved about
(watchlists, paper trades, cases, jobs, filter rows, saved screens) are cut with them.

### Composition

Three MC modules hold instances of several modules side by side, one per behaviour: the
variable `focus` says which is open, and nothing else moves. `MCLedger` has the replay
beside a live sweep, the replay's pool, and a case; `MCScreens` the ten screens that ask
and show; `MCBooks` what the client keeps, the terminal, the chat, the registry, the replay's
loop (`Replay`, which it extends) and the pure computations. Their properties are conjunctions of what the
instances promise, each under its `focus`. `MCScanCache` puts the file of the
fundamentals beside the scan cache. Real composition, on shared variables, is within
the modules: `Backfill` with `TradeLog`, `CacheFile` with its savers, `Backtest` and `Chat`
with their server, `DocumentSync` with several devices.

## 3. Runs

| Run | Instance | Shows |
|---|---|---|
| `TradeLog` | 2 recorders (one per source), 2 symbols, 3 prices, 2 rows, clock 0..1, 1 restart | `OneOpenPerSymbol`, `OutcomeSound`, `NeverCurated`, the refinement `ImplementsTrackRecord`, and `TheLedgerMovesOn`: passes end, every call is settled after its horizon |
| `TradeLogRequests` | 2 request threads of one source | counterexample to "One OPEN trade per (source, symbol)" (`tradelog.py:124`): both read, both insert |
| `Ledger` | live: 1 replay worker, 1 live sweep, the mark pass, 4 bars, 3 rows; pool: 2 workers, a boot thread and a route that forces, 2 symbols, 1 restart, 2 runs; case: baskets of 2, reserve of 2, 4 symbols, 2 years, 3 passes, 1 fault | `HeldOnce`, `RecordIsHonest`, `LiveNeverCurated` (replay and live calls); `LegsSound`, `AuditTrail`, `ClosedIsFinal` (the case); `RunsEnd` |
| `BackfillRestart` | one replay with a restart in the middle (`AgainSpec`) | counterexample to "Idempotent across restarts" (`backfill.py:271`): the replay starts over on top of what it wrote |
| `CasesRestrike` | the case without faults (`StruckSpec`) | counterexample to "Existing holdings for the case are closed" (`cases.py:386`): booked legs stay |
| `ScanCache` | 2 polling clients, 2 symbols, 1 worker, queue of 1, warm loop, saver, 1 restart; beside it the file with its saver loop, 3 versions, 1 failed write, 2 kills | `InflightExact`, `OneJobPerSymbol`, `RestoredIsUsable`; `Readable`, `NeverBackwards`; `WorkIsDone`: what is polled for is computed, what changed is saved |
| `FundCache` | 1 opener, 1 bulk client, 1 pool and 1 sweep worker, 2 symbols, 1 sweep, 1 stop, 1 restart | `InflightNotLeaked`, `PollSound` (the counters agree at every poll), `StoppedReadsStopped`, `SweepsEndAndBulkIsAnswered` |
| `CacheFileSweep` | the loop and a sweep's end, no failure, no kill | counterexample to "atomic" (`fundamentals.py:100`): the sweep empties the temporary file the loop then moves into place |
| `DocumentSync` | 2 devices, 1 push and 1 pull under way on each, 2 edits, 2 seconds, 2 pulls, 1 fault | `StampTellsCopy`, `NeverEmptied`, `EditReachesServer` |
| `SyncOffline` | the same | counterexample to the promise of `session.ts:5-8`: a pull overwrites an offline edit |
| `Screens` | the ten screens of `MCScreens`, 2 to 6 user steps each, 2 subjects | `ShownIsAsked`, `LoadingIsAsked`, `EachExactlyOnce`, `SheetsLeaveAScreen`, `Forward`, `PollsEnd` |
| `Books` | what `MCBooks` holds, 2 to 5 user steps each; every series of 4 bars over 3 levels, on 2 calendars, with 7 plans; every small input of the computations | `NothingLost`, `WhatIsPickedExists`, `ShownIsAsked`, `BooksBalance`, `ListsKeepTheirWord`, `ReplaySound`, `ReadingsAgree` |

`TradeLog` and `Ledger` also check the type invariants of their modules.

### Bounds, and why they are enough

- *Ledger*: two rows are what a doubled call takes; a clock of two values and a horizon of
  one tick have an open, an expiring and an expired call; three prices have one under, at
  and over a stop and a target.
- *Replay*: four bars hold two trades and a gap between them, or one that runs past the
  end; three levels put a bar's range on, inside and across both levels; a calendar with a day
  off tells a horizon in days from one in bars.
- *Cases*: two seats with two names in reserve and four symbols let an exit be refilled,
  refilled again by a name just sold, and find an empty bench. Two years have a strike on
  top of booked, added and replaced legs. Of `TARGET_N` and so on only the order matters.
- *Caches*: contention takes two parties on one symbol; the queue of one is always full
  when two ask. Two symbols make a sweep that can be stopped half way. Two savers are
  all the program has.
- *Documents*: two devices and two edits make a newer and an older copy; two seconds
  equal and unequal stamps; a device that seeds needs one pull, the other answer a second.
- *Screens*: a race of answers takes two subjects (A, then B, then A's answer), so two or
  three user steps; a sheet takes up to six (open, change, change, apply, open, reset).
  The polls' own bounds are constants of the code (`Rounds`, `MaxMisses`, 60 polls and so
  on), set to one or two. Of the chat, two messages with answers of one make a cursor that
  passes over something; of the registry, three operations make a read, a read by
  another and the two writes.

For the track record, the cases, the caches, the documents, the screens of `MCScreens` and
what `MCBooks` keeps, the proofs (6.) hold for every value of these bounds: each is a
constant, and the runs give it its value.

### Fairness

- `TradeLog` (`PolledSpec`): the steps of a started pass, because a daemon thread keeps
  running; the clock; and polls, because the page refreshes while it is open. None for
  restarts, failures or quotes: that every call settles assumes, in its antecedent,
  that from some time on passes run to their end on a full set of quotes.
- `Ledger`: the replay's run and workers, and the steps of a pass over the cases.
- `ScanCache`, `FundCache`: threads keep running, provider calls return (each has a
  timeout), clients keep polling, which the answers' `pending` list asks of them. The
  saver loop wakes every 30 seconds.
- `DocumentSync`: timers fire and requests are answered (`Step`), one condition for each
  device and each of its calls; a lost request is a fault, and `EditReachesServer` is
  about edits made while signed in.
- `Screens`: requests are answered, timers fire, a sweep of the server ends.
  Nothing is assumed of the user.

`CHECK_DEADLOCK FALSE` is set for `DocumentSync`, `SyncOffline`, `Screens` and `Books`, where
the user's steps are bounded and everything may come to rest.

## 4. Where the code and its words differ

With a run that shows it: the five counterexamples above.

Met while modelling, described here without a run.

Investment cases:

- `cases.py:214`: only legs with status `held` are reviewed, so a leg that was booked is
  not exited when its thesis breaks, although line 14 has the engine do that; it stays
  and is left over by every later strike.
- `cases.py:474`: a replacement is sized at the old minimum investment and may come out
  at zero shares, which lines 443-445 mean to avoid.
- `cases.py:530`: the overview's return is computed from the live rows only, although
  `basket_return` (line 182) counts on exited legs keeping theirs.
- `cases.py:389`: the vintage is written first, so a strike that dies is not made up
  for before the next year (line 574 takes the vintage as proof).
- `cases.py:437`: a fault between a move and its ledger entry leaves a move that is
  nowhere written down, although lines 15-16 say every move is; one before line 411 leaves
  a strike unwritten. `AuditTrail` says that this is all that can be missing: a pass that
  has ended is told whole, one that died is short of one move or of its strike.
- `cases.py:428`: when a symbol has two live rows (after `CasesRestrike`'s history) the
  dictionary reaches one of them.

Other backend parts:

- `tradelog.py:255`: a quote taken before a trade was opened may settle it, when another
  open trade in the same symbol made the pass ask for it.
- `backfill.py:165`: a mark pass may settle a replayed row between its INSERT and its
  settlement, which is then rewritten. `RecordIsHonest` holds of whichever is last,
  and `LiveNeverCurated` is stated of the live calls. The pass dates the row with the
  present, so `ReplayDisjoint` cannot ask of it on which bar its call ended.
- `scanner.py:558,677`: a failed refresh overwrites a row that was old but usable, which
  lines 621-625 would have gone on serving.
- `scanner.py:669`: the blocking fill stamps its rows with the time it began, and may
  put an older row over a newer one.
- `fundamentals.py:96`: a write that fails has already cleared `_dirty` and is not tried
  again before the next change. `fundamentals.py:552`: `get_one` completes a copy of an
  entry and writes it into whatever entry the cache has by then.
- `mb_screen.py:138`: a sweep empties the results at its start, although line 237 keeps
  "any previous results". `pattern_screen.py:64`: the sweeps of two indices share one
  temporary file (the protocol of `CacheFileSweep`).
- `ai_graph.py:74` says seeds are never written to the cache file; `_save` writes the whole
  cache. A waiter of line 284 times out while the flight it waits for goes on.
- `server.py:2213`: the movers' refresh looks at its flag and sets it without a lock, so
  two refreshes may run. `server.py:973`: the table of request limits is cleared whole
  when it is full, which forgets everybody's.
- `server.py:1035`: two backtests that finish at once write the last result through one
  temporary file; a job that was evicted from the table answers "unknown" to its poller.
- Alerts and keys: a write that began earlier brings back a deleted alert, undoes a
  re-arm or a stamp, and re-activates a revoked key (`apikeys.py:60`); two overlapping
  checks, or a restart between a delivery and its save, tell twice. A device that
  registers again during a delivery may be dropped as bad. `RemovedStaysRemoved` and
  `ToldOnce` are stated for histories without these overlaps.

Synchronised documents (`session.ts`, `server.py:1472`):

- the stamp is compared and the document put in two steps, so the older of two may end
  on top; stamps count seconds, and equal ones let copies diverge;
- a seed reads the copy before and the stamp after an await; a pulled copy is pushed
  back with a fresh stamp; a push that failed is repeated only by the next write;
- a pull whose request failed is taken for "the server has none" (lines 125, 133), and a
  seed that is refused leaves the local copy unsent;
- signing out leaves running timers, whose pushes the server then refuses;
- `server.py:1448`: a put that passed its comparison before the account was deleted lands
  after the purge, under an id nobody's address has any more; sessions of the account's
  other devices stay valid (`users.py:185` looks at the signature only) and go on storing
  under it. An account made again by its owner starts empty, and the devices' old stamps
  then decide what they seed it with.

Terminal (`screens/TerminalScreen.tsx`):

- a graph request that fails leaves its centre on the trail (1420); Back takes a centre off
  the trail before the selection can be refused or fail (1439-1444);
- an index that was asked for is opened again by every rebuilt frame (1291); late index
  messages overwrite whichever tab is active (903, 920, 938); of two comparisons under
  way the older may be drawn over the newer (1229).

Panels and stock page: a verdict that answers with an error never ends its spinner
(`TradeVerdict.tsx:57`); "Fundamentals unavailable" shows while they load
(`StockDetail`, 253); two screens say "pull to retry" without a control for it
(`EntityGraph`, 205, 232); the broker's live label stays when the scan's price replaces
the broker's.

Read cache and sweeps (`swr.ts`, the screens):

- a forced call joins an unforced request under way; `invalidate` and `clearAll` are
  called by nobody;
- a refresh has an address of its own, so the next poll reads the snapshot kept under the
  plain one (`MultibaggerScreen.tsx:358`): after a refresh an older snapshot may be on
  show, which `RefreshIsNewer` of `SweepView` states; the sector map polls for four
  minutes through entries that live for thirty.

Lists of recommendations and their scans:

- `swingStore.ts:3` says rebuilds skip what was scanned; only the long-term list does.
  A scan survives leaving its tab and a second may start beside it; changing the depth
  during a scan resets the list it fills.
- `RecommendationsScreen.tsx:411`: the host's check for a sector that arrives never fires,
  because the list's own mount effect (810-817) takes it first: the remembered list
  displaces the long-term one and the sector is lost. A sector that arrives by Back while
  the list is open waits, and is applied at a later, unrelated opening.
- Lines 417-438: a stock the server has not warmed is recorded as having no sector and
  never asked about again, nor is a request that failed.
- A chosen model whose matches vanish leaves a blank page; the printed list holds all
  of the list, each as a BUY; some rows and sheets show entries, stops and probabilities
  with the advisory flag off, against `flags.ts:3-9`; a card shows the gross reward to
  risk and its sheet the net one.

Chat (`ChatScreen.tsx`):

- sending sets the cursor to the id of one's own message, so messages of others with lower
  ids that were not yet fetched never are;
- polls overlap each other and the answer to a send, which doubles messages or moves the
  cursor back; a first answer that comes late wipes what was shown meanwhile; an answer
  after the thread was left marks messages read that were not shown;
- a late answer to opening a direct message replaces another open thread without a new
  mount, which then shows the old room's messages under the new name and cursor.

Tables: scores and probabilities of the multibagger table sort blanks first
(`MultibaggerScreen.tsx:622`), which `screener.ts:481-483` calls broken; so do the text
columns of the momentum table (655-664); its phone card shows columns that were hidden
(971-975); ticks made before the kept columns are read are undone; a sort by a column that
was then hidden stays in force.

Lists, paper trades, portfolio:

- a row screen's copy of the active list, once stale, overwrites the list at the next
  toggle; a tracked symbol that was removed by a row's button is put back when the page
  opens; removing a symbol from one list drops its entry price for the others;
- the simulator's reset works during an order, whose answer then writes the old account
  back; an order of a page that was left writes unseen; "realised" stops adding up once
  the log is trimmed to 500; the outcome tracker saves the list it had when it asked;
- a holding changed while the broker is asked is undone by the answer.

Pages: mounted screens that do not listen to intents keep their old symbol; Back pressed
twice before the browser answers can leave the application; Forward takes an entry off
the stack; two intents that differ in their sector count as the same (`navIntent.ts:43`).

Backtester and dossier:

- a configuration that was saved without costs keeps those on the screen, and one without
  symbols does not displace the universe (286-308); a late answer about the last run
  replaces the result of one that just finished; a result is labelled with the strategy
  that is selected now (407); what is saved before the stored lists are read is lost;
- the dossier's sign of work is cleared by the first of two runs to settle; asking again
  for the same symbol can drop the new report (185-190) or leave a spinner forever
  (209-212, 777); the answer of screener.in is not checked for its symbol (203); below 45
  a WATCH reads "Watch" but a BUY reads "Avoid" (91-103).

Screener and computations:

- `nlScreen.ts:101-120` maps words to sectors that `CANONICAL_SECTORS` does not have; "forward
  pe" is taken by "pe"; of two bounds on one figure the second is ignored; in "roe above 15 pe
  below 20" the first bound goes to the wrong figure; turning filters into an expression makes
  inclusive bounds strict;
- columns whose value is derived export as blanks (`ScreenerScreen.tsx:1554-1587`);
- a flat fee is charged on no turnover (`costs.ts:50`); SIP and goal ignore a negative rate
  that deposits compound; a put dearer than its strike has its break-even cut at 0 and a
  negative "max profit".

## 5. What is not modelled, and why

- Indicators, scores, valuations and the backtester's simulation on the server: arithmetic
  on one frame or row, with unit tests of its own; the models take their outcome as an
  input.
- Feeds, brokers, language models, mail and push delivery: remote calls. A call succeeds,
  fails or gives nothing, which the models leave open.
- Company graphs (`ai_graph.py`): a single flight with an event around one remote call;
  the client's side is in `Terminal`. One-time codes and cookies: a few statements, and a
  library's work. The server's own small caches (movers, universes, limits): 4. has what
  was found there.
- Reading views (ledger summaries, case overviews, cached lookups): they change nothing.
- On the client, drawing (canvas, charts, heat maps, printed layout), wording, number
  formats, and the screens that ask once and draw: dashboard, news, the cases' and the
  track record's pages, gates.
- Reference data, build scripts, the stand-in server and static pages: no state of the
  running program.
- The age of a fundamentals entry's schema (`SCHEMA_V`): an entry of another schema counts
  as absent. The start of pools and threads, which happens once at boot.

## 6. Proofs

Eight modules hold them, each by components and in this order:

| Module | Of |
|---|---|
| `SumsProofs` | the lists and sums of `Filters` |
| `LedgerProofs` | `Cases`, `TradeLog`, `Backfill`, `MCLedger` |
| `CacheProofs`, `FundCacheProofs` | `ScanCache` and `CacheFile`, `FundCache` |
| `ScreensProofs` | the ten screens of `MCScreens`, `DocumentSync` |
| `KeptProofs` | `Replay`, and of `MCBooks` `Watchlists`, `Portfolio`, `PaperBook` |
| `PagesProofs` | of `MCBooks` `Registry`, `Terminal`, `Navigation` |
| `BooksProofs` | of `MCBooks` `Tables`, `Cards`, `Chat`; what its parts keep to together |

The only assumptions are the named ones on the constants, which TLC evaluates in the runs,
and where a theorem says so that a source is serial or the saver is one. Modules that stand
beside others in an MC module state theirs as a definition (`BackfillAssumptions`,
`CasesAssumptions`, `ReplayAssumptions`, and the `...Assumptions` of the screens and of what the client
keeps), which `LedgerAssumptions`, `ScreensAssumptions` and `BooksAssumptions` assume of the
instances. They say what the code has by construction: ids are numbers, a basket's weights
divide the whole, a column is listed once, more jobs are kept than may run, an intent leads
to a page. Every proof rests on an inductive invariant of its module, `IInv` or its like;
each was checked by TLC on the instance of its run before it was proved.

### Lists and sums (`SumsProofs`)

For any list, any set of places and any function of finite domain. A lemma can have neither
an operator nor a predicate for a parameter, so induction is over a set of numbers or of
sets: `UpTo` is that a set of numbers that has 0 and with each its successor has all of
them, and is itself a consequence of the least element of such a set; `OneLess` the same of
finite sets. `PlacesPick` is that the list cut down has the elements at the places kept,
each once and in their order, from which `PlacesIn` and `PlacesLen` follow. `TotalSums`,
`TotalWithout` and `TotalChanged` are a sum taken apart at one of its figures. The function
in `Total` takes the figures in the order of a CHOOSE; `SumsAny` is that any order will do.

### The ledger (`LedgerProofs`)

For any sources, symbols, prices, recorders and picks, any horizon and any number of
restarts:

- `TypeCorrect`: `Spec => []TypeOK`
- `SerialSourceOneOpen`: `Spec => []OneOpenPerSymbol`
- `OutcomesSound`: `Spec => []OutcomeSound`
- `LedgerNeverCurated`: `Spec => NeverCurated`
- `SerialRecordImplementsTrackRecord`: with all sources serial, `Spec => ImplementsTrackRecord`

    IInv == TypeOK /\ HaveCovers /\ PendingOpen /\ OneOpenPerSymbol /\ OutcomeSound

`OneOpenPerSymbol` is not inductive as it stands: an insert is harmless only because the
recorder's `have`, read in an earlier step, still covers what is open in the table.
`HaveCovers` says so for serial sources: rows become open only through the recorder
itself, and others can only close them. `OutcomeSound` and `NeverCurated` need that the
rows a mark pass still has to visit are open although it read them earlier; `PendingOpen`
says so, and holds because there is one pass at a time and nobody else settles. The
refinement maps a row to a call of `TrackRecord`: an insert is a Publish, whose guard is
`OneOpenPerSymbol` in the next state, a settlement a Resolve, a mark a stutter.

### The replay in the ledger's table (`LedgerProofs`)

For any recorders, workers, callers, symbols, bars, runs and restarts, with the ledger's
lemmas on what each statement does to the table:

- `BackfillTypes`: `BSpec => []BTypeOK`
- `NothingHeldTwice`: `BSpec => []HeldOnce`
- `TheRecordIsHonest`: `BSpec => []RecordIsHonest`
- `LiveCallsNeverCurated`: `BSpec => LiveNeverCurated`

    BIInv     == BTypeOK /\ LiveInv /\ ReplayInv
    LiveInv   == LiveCovers /\ VisitQuoted /\ LiveOneOpen /\ OutcomeSound
    ReplayInv == WorkersOnRun /\ ReplayedRows /\ (runs <= 1 => OnceOnly /\ TakenOnce /\ InOrder)
                 /\ ReplayDisjoint

The ledger's own invariant does not survive the replay: its `HaveCovers` would have a
recorder cover replayed rows that appear after its read, and its `PendingOpen` would have
every row of the pass open, though a worker may have settled it. Each is weakened to the
live calls, `LiveCovers` and `VisitQuoted`, which is what `LiveOneOpen` and
`LiveNeverCurated` can be had for; that the exit of a row settled twice still matches its
outcome needs no more than that a settlement is judged by the row's fixed terms.

That replayed calls do not overlap is a fact about a worker's `busy_until`, a number of its
own that no row shows, while the mark pass settles the same rows and other workers write
between. `InOrder` ties the two: whatever is written of a worker's symbol lies behind
`busy_until`, but for the one trade it has open, and is settled unless that source has run
to the end of the history. It rests on `TakenOnce` (nobody else has the symbol, and no row
of a symbol still waiting exists) and `OnceOnly` (before the first run no row and no
marker). All three are claimed of the first run only, as `BackfillRestart` shows they must
be. The marker's half of `RecordIsHonest` follows from `WorkersOnRun` and `OnceOnly`.

### The replay's loop (`KeptProofs`)

For any number of bars, any dates in order, any ranges, any placing of the signals and any
plan for each:

- `ReplayTypes`: `Spec => []TypeOK`
- `ReplayIsSound`: `Spec => []ReplaySound`
- `ReplayImplementsTrackRecord`: `Spec => ImplementsTrackRecord`

    IInv == TypeOK /\ WalkStands /\ PastIsBusy /\ ReplaySound

The loop remembers one number of its past. `PastIsBusy` says why it is enough: every trade
that has ended did so by `busy_until`, and one of them on that very bar; the first gives
`Disjoint`, the second that a signal which is passed over fell while a trade was on.
`WalkStands` places the trade being walked right behind the loop's bar. The date that
`walk_forward` returns is turned back into a bar by `_index_at`, and `IndexOfBar` is the
lemma that this finds the bar it came from, which takes that dates increase. The
refinement is that of the ledger (`Enter` is a Publish, `WalkEnd` a Resolve, the rest
stutters); its guard is that nothing is open when a trade enters, and a trade that ran out
of history is open for ever, so it needs that `busy` is then beyond the last bar.

`Backfill` and `Replay` describe the same loop, one with the table and the threads around
it and the bars left open, the other with the bars and nothing around it; that the second
refines the first is not proved, and what each shows does not rest on it.

### The cases (`LedgerProofs`)

For any screens, quotes, basket sizes, numbers of passes, years and faults:

- `CasesTyped`: `CaseSpec => []CaseTypeOK`
- `NeverHeldTwice`: `CaseSpec => []NoSymbolHeldTwice`
- `NeverBoughtBack`: `CaseSpec => []NoRoundTrip`
- `LegsOwned`: `CaseSpec => []StruckLegsOwned`
- `SeatsFilled`: `CaseSpec => []EmptySeatOnlyWithoutBench`
- `LegsStaySound`: `CaseSpec => []LegsSound`, the four before together
- `ClosedStays`: `CaseSpec => ClosedIsFinal`
- `StoryTold`: `CaseSpec => []AuditTrail`
- `WeighsNoMore`: `CaseSpec => []WithinWhole`

    CInv == CaseTypeOK /\ Carried /\ Dated /\ Chosen /\ Found /\ Apart
            /\ NoSymbolHeldTwice /\ NoRoundTrip /\ StruckLegsOwned
    JInv == CInv /\ Story          Story == Exits /\ Told /\ One /\ Alive /\ HeldNew /\ Seats
    WInv == year = 1 => FirstStrike /\ SellsFirst /\ LiveWeight + SeatKept <= Whole

Each statement of a pass trusts what earlier ones left behind, and any of them may be the
last. `Chosen` carries a strike: its names are different, none is held once the old rows
are closed, and the minimum investment pays one share of every leg (which takes
that it is rounded up, and that the weights divide the whole). `Found` carries a review:
the dictionary has every live name, and each decision left is about the live row it finds
there, so a row that is closed is never touched. `Apart` says that a sold name stays in
the dictionary and a bought one has no decision left, which is why none is both sold and
bought. `Dated` separates the passes. For the action ledger, `Told` follows
each exit, booking and leg until it is written down or its pass dies, and each entry back to
the row it is about; `One` says that a pass has one row untold at a time, or is in its strike;
and `Seats` counts: unless the bench is exhausted, a pass
has bought for every seat it has emptied but the one it is at.

`WithinWhole` is about a sum over the live rows. The row a replacement is bought for is no
longer live when it is bought, so `WInv` keeps its weight apart (`SeatKept`) until the
replacement has it, and `SellsFirst` says that nothing else is bought. It is claimed of the
first year only: `CasesRestrike` shows why.

### The ledger's parts together (`LedgerProofs`)

- `LedgerTypes`: `LedgerSpec => []Types`
- `LedgerIsSound`: `LedgerSpec => [](HeldOnce /\ RecordIsHonest /\ LegsSound /\ AuditTrail)`, and the two action properties

The run `Ledger` has a replay beside a live sweep, the pool and a case; each behaviour is one of
its modules with the others still, so what they keep to holds of them side by side.

### The scan cache (`CacheProofs`)

For any clients, workers, symbols, requests and queue bound:

- `TypeCorrect`: `Spec => []TypeOK`
- `MarksExact`: `Spec => []InflightExact`
- `NoDuplicateWork`: `Spec => []OneJobPerSymbol`
- `RestartServesRows`: `Spec => RestoredIsUsable`

    IInv == TypeOK /\ Alone /\ Marked /\ DiskRows

`OneJobPerSymbol` counts the holders of a symbol, which no step can be judged by; what
each step keeps is that whoever has a symbol, a client putting it, a place of the queue
or a worker, has it alone (`Alone`). A step that marks a symbol keeps that only because
the marks are exact (`Marked`, which is `InflightExact`): an unmarked symbol is held by
nobody. `DiskRows` says what `_save` leaves out of the file.

### The fundamentals cache (`FundCacheProofs`)

For any openers, pool and sweep workers, symbols and requests:

- `TypeCorrect`: `Spec => []FTypeOK`
- `MarksNotLeaked`: `Spec => []InflightNotLeaked`
- `PollsSound`: `Spec => []PollSound`
- `StoppedNeverComplete`: `Spec => []StoppedReadsStopped`

    IInv == FTypeOK /\ Somewhere /\ InflightNotLeaked /\ WarmTally /\ OverMeansOver /\ Budget
    JInv == IInv /\ Recorded /\ WholeSweep /\ Losses

A mark here says less than in the scan cache: page views and the sweep mark a symbol
whether or not it is marked, and the first fetch to end drops the mark of all.
`InflightNotLeaked` holds as the mark is dropped together with the end of a fetch, and is
inductive once a busy thread is known to be at a symbol (`Somewhere`). That no counter runs
past its type needs `Budget`: the symbols done, those with a worker and those not yet
taken are together never more than the sweep began with. A stopped sweep must not reach
its total: `Losses` adds to that sum the symbols that have no entry and that nobody will
fetch (`Lost`), and a symbol that is counted has an entry (`Recorded`).

### The cache file (`CacheProofs`)

For one saver (`OneSaver`), and any number of changes, failed writes and kills:

- `OneSaverReadable`: `OneSaver /\ FileSpec => []Readable`
- `OneSaverForward`: `OneSaver /\ FileSpec => NeverBackwards`

    FileIInv == FileTypeOK /\ OwnFile /\ ReadyToMove /\ CopyNotOlder /\ Readable

The file changes by the move alone. What is moved is whole (`ReadyToMove`), because the
thread that writes the temporary file is the only one that ever has it open (`OwnFile`),
and is no older than what it replaces (`CopyNotOlder`). `CacheFileSweep` shows that the
hypothesis is needed: with two savers the first of these facts fails.

### The documents (`ScreensProofs`)

For any number of devices, calls, edits, pulls, seconds and faults, deletions included:

- `CopiesTyped`: `SyncSpec => []TypeOK`
- `CopyStays`: `SyncSpec => NeverEmptied`
- `EqualStampsEqualCopies`: `SyncSpec => []StampTellsCopy`

    IInv == Known /\ (Clear => \A d \in Devices : Tidy(d))

`Known` is what always holds: what is sent or stored was edited once and is a document,
so only `DeleteAccount` leaves the server without one. `InTime` is the rest of `NeverEmptied`:
the clock starts above zero, so a document that is stored or answered has a stamp above that
of a device that never synced, and such a device takes it. `Tidy` is what holds of a device while nothing was lost
or muddled (`Clear`): it has one call under way, which carries its copy unless its timer is
set to send another, and its stamp does not run ahead of the server's. `muddled` names the
cases in which a stamp stops telling; that they exist is the finding, that there are no
others is the theorem.

### The screens (`ScreensProofs`)

For any companies, universes, page size, markets, columns, presets, names, expiries, callers,
sources, bots and symbols, and any bounds on rounds, misses, mounts, jobs, saved lists and
steps of the user:

- `ScreensInvariant`: `Spec => []Inv`
- `ScreensShowWhatWasAsked`: `Spec => []ShownIsAsked`
- `ScreensLoadWhatIsAsked`: `Spec => []LoadingIsAsked`
- `ScreensAskExactlyOnce`: `Spec => []EachExactlyOnce`
- `SheetsLeaveScreens`: `Spec => []SheetsLeaveAScreen`
- `ScreensCacheForward`: `Spec => Forward`

`Inv` is one invariant for each screen, under its `focus`. What is shown is judged by what
was asked last, but answers carry only a number, a tick or a symbol, so each invariant says
what that tells:

- *table*: the requests that bear the newest number are for what is chosen, and the load
  they belong to has no job yet (`TableRows`); what scans of this load want is within
  what was asked for, and no two want the same (`TableOnce`); a row that has no technicals
  is in such a scan, or has not been asked for and the timer is still to fire
  (`TableDone`). The two passes of `Show` are folded into one lemma (`TableShow`): they
  add at most two scans of new symbols and leave the page in range. That a page in range
  has rows takes that `Rank` numbers what is in view without a gap, an injection between
  finite sets of one size (`TableRanks`).
- *panel*: the newest number is the subject's, and a guarded panel has no other request;
  *stock*: the newest token is the page's; *desk*: an answer that is not late is for what is
  chosen, even when it chooses the expiry itself, and legs are apart (`DeskLegs`).
- *read cache*: memory is behind the disk and the disk behind the server (`CacheOrder`),
  requests under way lie in between (`CacheGets`), and there is one at a time (`CacheAlone`).
- *sweep*: a loop that loads has the request or timer that its tick names; *backtester*: a
  console that runs has exactly one launch, poll or timer.
- *lists*: unless two mounts of one screen overlapped, there is one scan, and what it still has
  to read is not yet in the record, or the record's own copy (`ListOnce`).
- *dossier*: an answer goes only to the dossier of its symbol, and a new run clears what the last one had.
- *sheets* (`SheetInv`): the stored order and the draft each have every column once, whatever
  was stored, toggled and moved before; each filter row has an id below the next one, and
  the row a picker was opened for is among them; no two saved screens have one name. That
  the table then has the symbol beside the number is `SheetShown`: the order is completed,
  two columns are brought to the front and the hidden ones left out, which are four lists
  cut from each other (`Places`).
- *backtester's lists and jobs* (`TestKept`): the form, what was loaded, and every list there is
  (on the device, on the screen, in a request under way) hold configurations the form can
  have; a list on the screen is the one on the device unless it was not read yet or was written
  ahead of being read; one applied to the form is built of it again, but for the cases
  `LeftOut` names. A server that has one job too many has one that ended, because fewer may
  run than are kept, so the eviction always finds its victim.

Where a screen does not guard its answers, its history variable (`overtaken`, `overlap`,
`emptied`, `ahead`) names the case; that these are all the cases is what is proved.

### What the client keeps (`KeptProofs`)

For any symbols, groups, prices, bounds of the logs, mounts and steps, of `MCBooks`:

- `WatchlistsKeepTheirWord`: `BooksSpec => ListsKeepTheirWord`

and, with the next two sections, the theorems on `MCBooks` as a whole. The screens keep
copies and write them back, so each invariant speaks of all the copies there are:

- *watchlists* (`ListsInv`): ids are distinct and one of them is active; until a stale copy was
  written, the lists hold what was asked for and nothing that was removed, and neither do the
  calls that opening the page folds in.
- *portfolio* (`FolioInv`): every list of holdings, the page's, the stored one and the one each
  request was given, has a symbol once in a group (`Holds`); until one was merged into an older
  list, groups are those there are and the quantities add up to what was bought (`Adds`).
- *tracked trades* (`TrackInv`): in every log, those of requests too, an id and an open
  trade of a symbol occur once (`LogOk`), which is why the log written last is sound
  whichever it is; what was added and settled is in it until a copy was written late or
  the log was cut (`LogKept`).
- *simulator* (`SimInv`): in every account, the one each order under way was pressed with too,
  cash and costs are the start and what was realised (`Balanced`), a sum over the positions
  and one over the log, until the log was cut.

### Registry, terminal, pages (`PagesProofs`)

- *registry* (`RegInv`): alerts and keys each change by a read and a write of the whole list, so
  the invariant speaks of the lists that requests have read. `Due` counts deliveries: an alert
  has been told as often as it was armed, or once less if it waits or one request is still to
  deliver it. An alert or a key that is being created is in no list and no other request
  (`AlertNew`, `KeyNew`), which is why a deleted one cannot come back through its own
  creation; `raced` names those that come back through another's.
- *terminal* (`TermInv`): the workspace is sound and has the comparison's tab just if something is
  compared (`WorkOk`); the frame shows the active tab, and a comparison under way is of the
  companies compared, unless a late index message moved the body (`BodyInv`); no company follows
  itself on the trail, and the last is neither the one awaited nor the one centred (`TrailInv`).
- *pages* (`NavInv`): what is shown is where the top of the stack leads (`AtTop`), and the browser
  is as deep as the stack, with one step back under way at most (`NavDepth`); `twice`,
  `forward` and `wandered` name the exceptions.

### Tables, cards, chat (`BooksProofs`)

- *tables* (`TabInv`): the choice being read is the one on the device until the user changes it, and
  afterwards the choice on screen is the one kept.
- *cards* (`CardInv`): what is not known is being asked for: a request for sectors under way has
  just the symbols that are missing, one for capitalisations those on show (`SectorsAsked`,
  `CapsAsked`), through every change of mode, strategy and sector.
- *chat* (`ChatInv`): a served answer is a stretch of its conversation without a gap behind its
  cursor (`FreshOk`); all up to the thread's cursor, and up to that of each poll under
  way, is on show or recorded as lost (`Stretch`, `OneSpot`); while no two requests overlapped,
  there is one at most and it goes on from the last message (`OneByOne`); a thread that has
  shown nothing has its first poll under way (`Waits`).

Together, for any values of their constants:

- `NothingIsLost`: `BooksSpec => []NothingLost`
- `PickedExists`: `BooksSpec => []WhatIsPickedExists`
- `AskedIsShown`: `BooksSpec => []ShownIsAsked`
- `TheBooksBalance`: `BooksSpec => []BooksBalance`

### Only model-checked

- Liveness everywhere (`PollsEnd`, `RunsEnd` and so on): fairness is out of the prover's reach.
- `ReadingsAgree`: what is computed in one go, of which nothing is kept: the calculators and
  charges, the screener's sentences and scores (powers, folds and searches), how tables and
  cards sort and cut what they read, and the links of a relation's graph.
- That `Replay` refines the loop of `Backfill` (above).

## 7. What is left

In the order of what it would add:

1. An abstract read cache (a register that never goes back) that `ClientCache` implements;
   `CacheOrder` and `CacheGets` are what its proof would need.
2. The single flight of `ai_graph.get_graph`, and one-time codes with their attempts.
3. `SweepView` next to the server's single-flight threads in detail, which would show where
   the assumption that a source of the ledger is serial comes from.
4. The pages of the client that ask once and draw.
