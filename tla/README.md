# A TLA+ verification of stok

stok is a C++20 daemon that polls news feeds, follows an exchange's market data,
scores and watches penny-stock stories, and sends tiered signals. This directory
models its core in TLA+, checks the models with TLC on small instances and proves
the central properties with TLAPS for every value of the constants. File and line
references are relative to the repository's `src/` unless they name another
directory.

    tlc -workers 2 -config MCCore.cfg MCCore        # one run; PROJECT.json lists them
    tlapm ServiceProofs.tla                         # one proof module

## 1. The system

### Threads and what joins them

    net thread    FeedPoller ──NewsEvent ring──────────┐
    market thread MoldUdp64 / file / bridge            ├─> engine thread ──Signal ring──> alerts thread
                    -> ItchBook -> MarketBoard (seqlock) ──reads──┘          └─JournalRecord ring─> journal thread
                    └──MarketEvent ring─────────────────┘
                    └──RawMsg ring──> recorder thread
    every thread ──log ring (MPSC)──> log thread;    dns thread refreshes the resolver's cache

Every ring is the same `SpscQueue`, except the logger's `MpscQueue`. A thread with
nothing to do sleeps in its `Waker`; the threads that feed it notify it. The engine
runs the watchlist and the paper trader without locks: it owns their state, and the
only thing that changes under it is the board.

### Inventory

| Component | State | Operations | What makes it correct |
|---|---|---|---|
| SPSC ring `core/spsc_queue.hpp` | slots, head, tail, a private copy of the other side's index | try_claim, publish, front, pop | whole values, once, in order; a slot read in place does not change; no side starves behind its copy |
| Waker `core/waker.hpp` and the loops that use it | `sleeping_`, an eventfd | notify, wait | no event is left in a ring with its consumer asleep and nobody about to wake it; shutdown ends |
| MoldUDP64 receiver `market/sources.hpp` | session, expected number, gap, buffered packets | on_packet, drain, tick, request_gap, poll | messages reach the book in sequence, none twice, losses counted; no gap holds the stream up for ever |
| Feed poller `feeds/poller.cpp` | connections (lanes), validator, seen set, primed, backoff | service_lane, on_lane_event, on_response | an item is reported once, the backlog never, and new items are found |
| Watchlist `engine/engine.cpp` | watches with tier, flags and outcomes; cooldowns | on_news, evaluate, emit, scan_movers | signals spaced, tiers announced, flags current, outcomes taken |
| Paper trader `engine/paper.cpp` | slots, daily loss, counters | on_signal, step (try_fill, check_exit, finish), close_all, roll_day | one position per ticker, every signal accounted for, positions closed, loss limit |
| Halt alerts `engine/engine.cpp:490` | last state and time per ticker | handle_halt | a halt is announced once, whoever reports it first |
| Order book `market/itch_book.*`, `level_book.hpp` | orders, price ladders, published top | one handler per ITCH message | a ladder level is the sum of the live orders at its price; the published top is the best level |
| Board `market/board.cpp`, `core/seqlock.hpp` | per symbol day statistics, bars, quote | on_trade, on_quote, ..., load | a copy is one version of the state |
| Logger `core/mpsc_queue.hpp`, `core/log.cpp` | cells with sequence numbers, `running_` | try_claim, commit, front, pop, start, stop | records whole and once; one consumer at a time |
| Hash map `core/flat_hash.hpp` | open addressing table | find, try_emplace, erase, rehash | a map from keys to values |
| Exhibit fetches, rate limit `feeds/poller.cpp:16-45, 369-499` | job queue, token bucket | take, service_jobs, on_job_event | a job ends; requests stay within the publisher's limit |
| Connection `net/connection.cpp`, `http_client.cpp` | state machine, parser, deadline | connect, send, do_read, check_timeout, recycle | one answer per request, none of an earlier exchange |
| Runner, recorder `market/runner.cpp`, `recorder.cpp` | ring, gzip file | run, push, stop | what is recorded is what the book was given, drops counted |
| Filings, baseline `ref/filings.cpp`, `market/baseline.cpp` | issuer histories, session rows | add, flags, merge, append_session, rebuild | windows, idempotent re-runs |
| Daemon `app/stokd.cpp` | stop flags | start, shutdown | producers stop before consumers; nothing accepted is lost |
| Backtest `research/backtest.cpp` | simulated clock | advance, run_day | events in time order, same engine |
| Parsers `feeds/parsers.cpp`, `tickers.cpp` | scratch buffers, the claimed slot | fill_event, extract_tickers, find_exhibit_href | an event says what its own item says and names the companies it is tagged with |
| Scorer `engine/scorer.cpp` | automaton, marks of rules counted | load_rules, build, scan, score_text, finalize | the score is that of the phrases that occur |
| Symbols `ref/symbols.cpp` | entries, aliases, CIK and name indices | load_*, find, primary_for_cik, find_by_name | one entry per security, however it is spelt, in whatever order it is loaded |
| Calendar `util/time.cpp` | none | civil dates, Eastern offsets, date texts | the calendar |
| Sinks' formatting, configuration, utilities, batch tools | none between calls, or loaded once | | unit tests |

### What is hard to test here

PROJECT.json lists the forty that matter most, at their lines. The kinds that matter: two threads at
a ring or in the waker (visibility of stores, a wake-up between a check and a sleep);
packets and answers that overtake each other; a cached value used after what it was
copied from has changed (the validator of a feed, the flags of a watch); limits
reached in the middle of something (ring full inside a document, buffer full inside a
gap, loss limit with an order out); a clock shared by two things (the gap timer);
what is left behind at a shutdown or a crash. Two more are not pursued: differences of
wall-clock times are unsigned (`engine.cpp:115`, `paper.cpp:128`), so a clock stepped
back passes every cooldown and every holding time; an ITCH add with a reference already
in use leaves the old order's shares in the ladder (`itch_book.hpp:64`).

## 2. Modules

| Module | Models | Checked against |
|---|---|---|
| `SpscQueue` | the ring, one step per access to shared memory | `Fifo`, by a refinement mapping |
| `SeqLock` | one symbol's lock, with stores that become visible late | the versions written |
| `Logger` | the MPSC queue and the logger's start, loop and stop | |
| `Waker` | notify, wait, the engine loop and the shutdown of `stokd` around it, with store buffers and fences | |
| `MoldReceiver` | the multicast receiver | `OrderedFeed`, by a refinement mapping |
| `ItchBook` over `MarketBoard` | orders, ladders, top of book; day statistics, bars, quote | the live orders and the prints |
| `HaltAlerts` | a stock's halts from three sources to an alert | the board's state |
| `Recorder` | the recorder's ring, thread and file, and the file reader | the messages pushed |
| `Baseline` | session history and volume baseline on disk | the sessions as last run |
| `Totals` | sums over finite sets, for `MarketBoard` and `Baseline` | |
| `FeedPoller` | one feed polled over several lanes | |
| `NewsEvents` | items and exhibits to events, in reused memory | the item alone; the tags of its text |
| `ExhibitJobs` | the exhibit fetches and the host's token bucket | |
| `ResponseParser`, `Connection`, `HttpClient` | an HTTP exchange from the bytes to the blocking call | a parse of the whole answer |
| `EngineWatch` | the watchlist | |
| `PaperTrader` | the simulated trades | |
| `Daemon` | threads, rings, sinks, filings file, shutdown, crash and restart | |
| `FlatMap` | the open-addressing table | a partial function |
| `Calendar` | the date formulas | `WallCalendar`, turned a day at a time |
| `Scorer` | phrase automaton and score | occurrences of the phrases |
| `Filings` | the filings history, its file, `stokd` and `stok-ref` | the facts each was told |
| `Symbols` | the security master from its five files | the rows loaded |
| `Backtest` | the simulated clock of a replayed day | |

`MC*` modules give TLC the instances; `*Proofs` modules hold the theorems.
PROJECT.json maps every definition to its lines.

The modules meet at the interfaces the code has. `FeedPoller` and the engine loop of
`Waker` use a ring as the bounded queue `Fifo` specifies, which `SpscQueue` is proved
to implement. `MoldReceiver` is proved to be the `OrderedFeed` that an order book may
rely on. `EngineWatch` and `PaperTrader` read the board as a choice of snapshot at
every read, one version of the state, which is what `SeqLock` shows a read to be.
`Daemon` puts the threads together with rings as `Fifo` and leaves their sleeping to
`Waker`; `HttpClient` runs over `Connection`, which runs over `ResponseParser`;
`ItchBook` writes to `MarketBoard`. `NewsEvents` refines what `FeedPoller` does with
one item, `ExhibitJobs` what becomes of the job it leaves.

**SpscQueue.** `try_claim()` is a fast path (room by the private copy) or a reload of
the consumer's index; the caller fills the slot in two steps, between which the slot
is `Torn`; `publish()`, `front()`, the read of the slot and `pop()` are steps of their
own. An acquire load returns any value between the one this side saw last and the
current one, which is what release/acquire allows. Indices are naturals: 2^64 pushes
do not happen.

**Waker.** Relaxed stores to `sleeping_` and the release store of a ring's head go
through a store buffer and become visible in a later step; a `seq_cst` fence waits
for it. The loop is `Engine::run`: drain each ring in turn, announce, fence, check
each ring, block in ppoll, wake, retract, clear the eventfd. The main thread joins the
producers, notifies, stores the stop flag and notifies again (`stokd.cpp:261-267`).
The alert and journal loops are the case of one ring.

**MoldReceiver.** A packet is a session, a first sequence number and a count. The
network is the choice of packet: any, in any order, any number of times. `on_packet()`
is split along its branches (duplicate, skip when no recovery is possible, buffer,
apply and drain); `tick()` gives the gap up, asks again, or does nothing. The variable
`server` says whether a re-request server is configured. Times are ages that stop one
past their limit, so nothing bounds how long a behaviour lasts.

**FeedPoller.** Lanes connect, fire a conditional GET with the validator stored at
that moment, and wait. The publisher (external) composes the answer when it gets the
request, and the answer is handled when it arrives, so two lanes' answers can overtake
each other. The validator is stored before the document is scanned; items are then
scanned one by one while the engine takes events out of the ring. Poll periods, the
token bucket and reconnect delays only postpone a request and are left to the choice
of step.

**EngineWatch.** `on_news()` is a chain of steps, one for each ticker of the event,
then `evaluate()`, with nothing else of the engine thread in between. Scores are the
levels the code distinguishes (below watch, watch, high), and of two stories of one level
either may be the stronger; the market is whether a
price exists and which tier its move confirms. Ages replace times; a cooldown and a
window are a few clock steps.

**PaperTrader.** Prices and money are integers, slippage and fees constants per fill.
`Step` runs over every slot, as `step()` does, with a snapshot for each; the exit
rules are those of `check_exit()` in their order. Midnight is an event that the next
`roll_day()` notices.

**SeqLock.** The writer's stores go into a pool and become visible one at a time, in
any order but for stores to one location and for release fences; the reader copies
field by field. That is weaker than x86 and is what the fences of `begin_write()` and
the release store of `end_write()` are there for. A prefix copy is a choice of fields.

**Logger.** `try_claim()` has its three outcomes (the cell is free, full, or claimed by
another), the fill and the commit are steps of their own. Who may consume changes with
`running_`; the life of main is that of `stokd`, which joins every thread that logs,
the dns thread among them, before it stops the logger.

**ItchBook, MarketBoard.** One action per message that touches the book. The stream may
lack messages, so orders are unknown or smaller than what is taken from them. The board
is written by the same action, as the code does under one lock.

**HaltAlerts.** One stock, the trading actions of the order feed or of the bridge, an
event ring that may be full, and RSS reports of any earlier halt. The two histories the
comparison needs (something missed, an old report handled last) are variables.

**Recorder.** Bytes carry the message they belong to, so a reader that loses the
framing shows it. What zlib does is external. A crash leaves a first part of the last
member's bytes, no less than the last sync, or no trace of the member. If nothing is
appended, `gzread()` delivers all of it and then reports the end. If the next start
appended a member, its header stands inside the unfinished one (`Broken`), and a
`gzread()` that decodes into it fails. Up to zlib 1.3.1 the failing call delivers
nothing, even what it decoded before the damage; later versions deliver a first part.
`refill()` takes the failure as the end of the file. The model has both behaviours: such
a read delivers any first part, from nothing to what was asked for. `Ahead` is how far
`gzread()` decodes beyond what it is asked for (it may decode an output buffer in
advance: up to 2 MB for the 1 MB set by `gzbuffer()`), `BufSize` the 8 MB of the
reader's buffer. Both behaviours were seen, with zlib 1.2.13 and 1.3.2.

**Baseline, Filings.** Files on disk are variables, each write is a step, and the
process may die between any two. `Filings` has both programs that share the file; they
take turns, as `deploy/stokd.service:19` makes them (`stok-ref` run by hand beside a
live `stokd` would be overwritten when it ends).

**Daemon.** A thread is its loop and its place in the order of joins. A crash at any
step drops what is in memory, keeps what was flushed and any first part of what is in
the file buffers, and starts a new life, `MaxLives` in all. What is kept may end inside
a line: `torn` has the kinds of line whose file does, and the next line of that kind
continues the part and cannot be read (`spoilt`). The journal's files are one sequence of
lines, the kind of a line naming its file. Saving the filings may fail at any of its
calls, which leaves the old file.

**ResponseParser, Connection, HttpClient.** A response is a sequence of the places
where a read may cut it. The server answers what it has received whole, in pieces, and
may close at any point; TLS may ask for the other direction. A deadline may pass at any
moment; the client is allowed to notice only where the code looks.

**ExhibitJobs.** Tokens are halves, so the threshold of 1.5 is exact. A job goes through
two stages with the retry mark of the code (stage + 10). The history `sent` counts the
requests of the last tick, of the last two, and so on up to `Window`, so the rate is
stated for every length of time at once.

**NewsEvents.** A text is a sequence of words; the symbol table is what its lookups
answer. The slot and the scratch buffers persist from item to item as in the code, and
history variables say which item a published slot was made for.

**FlatMap, Calendar, Scorer, Symbols, Backtest.** Algorithms, each as a state machine
whose steps feed it (an operation on the table, the next day, the next story, a row of
a file, a market message) with the reference definition as an invariant.

## 3. Runs

| Run | Bounds | Shows |
|---|---|---|
| `core` | ring: 2 slots, 2 values, 5 pushes; seqlock: 2 fields, 3 writes, 2 kinds of read; log: 2 cells, 3 threads, 4 records | a slot held does not change, the ring is a `Fifo`, neither side starves; a copy is one version (`SeqLockInv`) and the retry ends; one consumer, records in order, none left (`LoggerInv`), and stop() returns |
| `delivery` | receiver: 2 sessions, 5 messages, packets of up to 2, 2 packets buffered, timeout 1 step; waker: 2 rings, 2 events each | losses counted; `drain()` written as a set is its loop; the receiver is an `OrderedFeed`; held packets are released and recoveries end even if the server never answers (`RecoverySettles`); no lost wake-up; every event is consumed without the ppoll timeout; a stopped consumer ends, with the timeout |
| `feed_poller` | 2 lanes, 3 items, a page of 2, a ring of 1, the third item rejected or not | reported at most once, backlog never, a new item is met while it is shown |
| `engine_watch` | 2 tickers, 1 watch slot, 2 events, window 2, cooldown 3 | signals of a tier a cooldown apart also across eviction and return; `WatchInv`: no tier reached unsaid, offerings and effectiveness notices carried by the watch, outcomes at the first price after the horizon |
| `paper` | 2 tickers, 1 or 2 slots, 2 signals, 3 prices, a day of 4 steps | `TradesAddUp`: one position per ticker, signals, orders and trades add up; `TradesEnd`: an order on a halted stock is given up, a position is closed after its time limit |
| `market_data` | book: 2 locates, 2 prices, orders of up to 2 shares, 3 messages, 2 bars; halts: 4 trading actions, a ring of 2; recorder: 3 messages, a ring of 1, a buffer of 3 bytes and 1 decoded ahead, 3 lives; baseline: 2 tickers, 3 dates, 2 sessions kept | `BookInv`: ladders, top and statistics are the live orders and the prints; the engine's idea of a halt is the board's and no alert is repeated; `ReplayInv`: a recording reads back; `BaselineInv`: the files are the latest sessions |
| `services` | daemon: 2 events, rings of 1, 2 lives; client: 2 requests, 4 shapes of answer cut anywhere; jobs: 2, a queue of 1; items: one of about 1,000, then two more of 8 | `JournalInv`: the journal is complete behind the engine, in order, nothing twice; no filing lost, shutdown ends; `ClientInv`, every call returns; `JobsInv`, every job ends; `NewsInv` |
| `reference` | map: 4 keys, hashes that wrap; calendar: 2007 to 2036; texts of up to 4 and 3 letters; 3 days of filings with crashes; any subset of 12 rows in any order; 3 market messages with 5 news files | the algorithms equal their reference definitions |
| `recording_restart` (violated) | as `market_data` | see 6 |
| `feed_retry` (violated) | 1 lane, 2 items, a ring of 1 | see 6 |
| `engine_high_clean` (violated) | 1 ticker, 2 events | see 6 |
| `paper_daily_loss` (violated) | as `paper` | see 6 |

`core`, `delivery`, `market_data`, `services` and `reference` each hold several components that
share no state. The variable `part`, chosen in the first state, says which one runs;
the others stay in one initial state and are owed no step. The reachable states are
those of the components one by one, so nothing is hidden or added by checking them in
one run.

A property named after its module (`BookInv`, `ClientInv`, `ScorerInv`, ...) is the
conjunction of the module's invariants, each stated and explained there: `BookInv` is
`LadderIsSum`, `TopIsBest` and `BoardIsPrints`; `ClientInv` is `AnswerIsOwn`,
`ParsedAsWhole` and `ResentOnlyUnanswered`; and so on.

Why the bounds are enough. The ring of two slots wraps twice in five pushes and is
full, empty and half full at every offset; a third value adds nothing, since no step
looks at one. Two fields and three writes let a reader meet the stores of two later
writes in either order. Two cells and four records take each cell twice round, with a
claimed cell overtaken by a committed one. Two rings are the least for which the
waker's check of one can be overtaken by an event in the other, and two events let one
arrive before and one after the check. Five messages give two separate holes with a
packet between and after them, which is what the buffer's drain has to distinguish;
two sessions give a change with a gap open. Two lanes and a page of two make the three
relations between two documents (same, overlapping, older), and a ring of one is full
when two items are new. Two tickers and one watch slot make an eviction and a return.
Two paper slots are the least at which one could hold a second position in a ticker,
and one slot the least at which capacity rejects. Orders of two shares are reduced in
part, in whole and by more than is left; three messages add, change and replace an
order, or put two at one price. A buffer of three bytes cannot hold two messages, so
every refill cuts one; of the seven bytes of three messages the first message is far
enough before damage at the end that no failing read may take it. Two events of the
daemon fill a ring, cross a crash and tear a line, but it takes three to spoil two
lines in one life: the last conjunct of `JournalInv`, `TornOnce`, rests on its theorem
(`CrashSpoilsOneLine`). Two requests are the least for which the second could get the
first one's answer, and each of the four shapes (length, chunks, interim, until close)
is cut at every place. The table of the hash map wraps and grows with four keys; the
hashes make every cluster shape at its end. Texts of four letters over two letters and
a separator contain every overlap of the ten phrases. Three news items are one that
leaves something in the buffers, one that could take it over, and an exhibit of the
first after the second.

`CHECK_DEADLOCK FALSE` appears where the system stops: after a shutdown
(`core`, `services`), after `close_all()` (the paper runs), and at the end of bounded
inputs (`market_data`, `recording_restart`, `reference`).

### Fairness

- `SpscQueue`: the steps between claim and publish and between front and pop are
  straight-line code; a store becomes visible in finite time. Calling `try_claim()`
  is not assumed, except in the starvation property, which is about a producer that
  keeps asking.
- `Waker`: threads that can run do run, and buffers drain. The timeout of ppoll is not
  assumed for consumption; it is for `StopEnds`, whose hypothesis names it.
- `MoldReceiver`: the market thread polls and time passes. No packet is ever promised.
- `FeedPoller`: the net thread scans and handles what has arrived, the engine takes
  events, a backoff passes, and the network, which may fail at any step, lets a
  connection, a request and a good answer through again and again (strong fairness:
  the code retries for ever, the network must sometimes cooperate).
- `SeqLock`: the writer finishes what it began and stores become visible; the number of
  writes is bounded, as `LoadReturns` needs: against a writer that never pauses a
  seqlock's reader may retry for ever, and the code has no limit either.
- `Logger`: threads inside `vlog()` go on, and the log thread runs.
- `Daemon`: each thread that can go on does; a crash is never owed. The dns thread's
  wait has a time limit (`resolver.cpp:66`), which `DaemonStops` needs, since `stop()`
  notifies without the mutex and the notification can be missed.
- `HttpClient`: the calling thread runs and deadlines pass. The server promises nothing.
- `ExhibitJobs`: time passes, the connection is tried again, a request that was sent is
  answered or closed, and a job that can again and again be sent is sent (strong: the
  poller alternates between polls and jobs, and only a bucket above the threshold lets
  a job through); the hypothesis `Served` says that the bucket is full now and again.
- `PaperTrader`: the engine evaluates and time passes; for `PositionCloses` the
  hypothesis `TradesAgain` says that each slot is now and again evaluated with a price,
  since nothing can be sold during a halt.

## 4. Theorems

| Module | Theorem | Statement |
|---|---|---|
| `LockFreeProofs` | `RingInductive`, `TornReadFree`, `HeldSlotNeverChanges` | for any capacity and any set of values |
| | `RingIsFifo` | every behaviour of the ring is one of `Fifo` |
| `ServiceProofs` | `WakerInductive`, `WakeupsNotLost` | for any number of rings and events |
| `MoldReceiverProofs` | `InductiveInvariant`, `BookInOrder`, `LossesCounted`, `HeldIsChased` | for any stream, packet size, buffer and timeouts |
| | `ReceiverIsOrderedFeed` | every behaviour of the receiver is one of `OrderedFeed` |
| `FeedPollerProofs` | `InductiveInvariant`, `ItemsEmittedOnce`, `BacklogNotEmitted` | for any number of lanes, page depth and ring size |
| `LockFreeProofs` | `SeqLockInductive`, `CopiesAreWhole` (`SeqLockInv`) | for any fields, any number of writes, any order the fences leave open |
| | `LoggerInductive`, `LogIsComplete` (`LoggerInv`) | for any number of threads, cells and records |
| `EngineProofs` | `WatchInductive`, `WatchNotesTrue` (`WatchInv`), `SignalsAreSpaced` | for any tickers, list size, window, cooldown and horizons |
| | `HaltInductive`, `EngineIsUpToDate` (`EngineAgreesWithBoard`), `AlertsNotRepeated` | for any ring and any repeat window |
| `PaperTraderProofs` | `BooksAddUp` (`TradesAddUp`) | for any tickers, prices, limits and number of positions |
| `ServiceProofs` | `JobsInductive`, `JobsAreAccounted` (`JobsInv`) | for any number of filings, queue length, rate and length of time |
| | `DaemonInductive`, `CrashSpoilsOneLine`, `JournalIsKept` (`JournalInv`), `FilingsNotLost` (`FilingsKept`) | for any ring size, number of events and of lives |
| `MarketDataProofs` | `BookInductive`, `BookTellsOneStory` (`BookInv`) | for any codes, stocks, prices, sizes and number of minute bars, and any stream of messages |
| | `BaselineInductive`, `BaselineIsKept` (`BaselineInv`) | for any tickers, boards, dates and number of days kept, wherever the process dies |
| | `RecorderInductive`, `RecordingReadsBack` (`ReplayInv`) | for any messages, sizes, ring, reader's buffer, decoding ahead and number of lives |
| `ReferenceProofs` | `CalendarInductive`, `EveryDayOnTheWall` (`CalendarInv`) | for every day from 2007 to the end of 2069 and any clock times |
| | `FilingsInductive`, `FilingsAreKept` (`FilingsInv`) | for any issuers, items, windows, indexes and days |
| | `FlatInductive`, `LookupIsMap` (`FindIsMap`) | for any keys, any hash function and any first capacity |
| `ServiceProofs` | `RetriedOnlyUnanswered` (`ResentOnlyUnanswered` of `ClientInv`) | for any answers, buffers and number of calls |

The assumptions are those of the modules, each named where the constant is declared:
positive sizes, distinct special values, windows and rates that are natural numbers.
Some say more than a type. `LoggerAssumption` has at least two cells (`MpscQueue`
makes it so; with one cell the number of a free cell and that of a full one would
coincide). `JobsAssumption` has a queue of at least one (see 6).
`WatchAssumption` has at least one watch slot. `BookAssumption` says what a code or a
price is: prices are natural numbers, zero among them if need be, and `Invalid` is no
stock. `CalendarAssumption` ends the calendar with 2069, as `parse_rfc822()` reads years
of two digits as 1970 to 2069 and the property would be false of 2070, and takes hours
and minutes from a clock. `BaselineAssumption` says that there are finitely many
tickers and that volumes and the number of days kept are natural numbers,
`RecorderAssumption` that a message has at least one byte in the file, its length.
`FilingsAssumption` says that a day's index is finite, names
issuers or the CIK 0, which is no issuer, and that `NoItem` is none of the items flagged.
`FlatAssumption` says that `kEmpty` is not used as a key, which `flat_hash.hpp` asks of its
callers, and that a table has a slot. `DaemonAssumption` allows rings of any
size, even of none. TLC evaluates all of them in the runs: the MC modules extend the
modules they check, except the ones without a theorem.

The arguments:

- *Ring.* `IndexOrder` is the chain cachedHead <= head <= cachedTail <= tail <=
  cachedHead + Cap. It makes a claimed slot different, modulo Cap, from every
  published one (`SlotsDistinct`), so filling it disturbs neither what is published
  (`PublishedWhole`) nor what the consumer holds (`HeldIsFront`). The mapping takes the
  slots from head to tail as the queue; publish is Push, the read of the slot is Front.
- *Waker.* `NoLostWakeup` alone is not inductive: what matters is decided while the
  consumer walks along the rings. `Followed` says it for the part of the rings already
  looked at; `Announced` says that from its fence on the announcement is visible, so a
  producer that publishes later sees it; `Flushed` is the producer's half.
- *Receiver.* What is held is ahead of the book (`BufferedAhead`) and held only in
  recovery, an unsynced receiver holds nothing (`Unsynced`), and the numbers applied
  and lost add up to those passed (`Accounted`). `drain()` is written as the run up to
  the first number not covered, which needs the least natural with a property
  (`LeastNatural`) and not an induction; that this is what the loop computes is checked
  by TLC (`DrainIsLoop`).
- *Poller.* An item enters the ring only when it is not in the seen set and is there
  afterwards; `Remembered` says that what was reported or shown by the priming document
  stays there. No step takes anything out of it.

- *Seqlock.* That a copy is whole depends on the order in which stores become visible,
  so the invariant is about the stores still pending: they are exactly those not yet
  visible (`NothingLost`), ordered by the fence of their write and, for one location, by
  value (`BufferOrdered`). So the number in memory and the fields can differ only
  between two fences (`MemoryOrdered`), and while the number the reader began with is
  still visible, what it has copied is of that version (`CopyFollows`).
- *Log.* A cell's number says who has it (`CellNumbers`): free for the position it
  stands for, claimed by exactly one thread (`Owners`), or full. Who may drain follows
  from main's phase (`Handover`), which is why one consumer at a time holds across
  `start()` and `stop()`. Positions hold each thread's records in the order it logged
  them (`InOrder`); every record was dropped, has a position or is about to get one
  (`Found`), and the last to look drains what is left (`Emptied`).
- *Watchlist.* `WatchInv` needs three more facts: outcomes were taken no later than now
  (`SeenBefore`), an evaluation leaves nothing past the window (`NoneExpired`), and the
  stored times of the last signals are those of the signals, up to the cooldown
  (`LastIsTold`). The last one gives the spacing, as the times outlive the watch.
- *Halts.* The newest event in the ring is the board's state as far as it matters
  (`NewestIsBoard`), so the engine catches up by emptying the ring; an alert is no
  younger than the belief it was for (`SaidBefore`), so the test against the window also
  spaces the alerts.
- *Paper trader.* `TradesAddUp` is inductive as it stands. What takes work is that the
  day's loss, a sum over a set of positions, is a number: `MapThenSumSet` is a fold, and
  instead of an induction the proof takes a least set on which it would not be one.
  The counters move by the size of disjoint sets.
- *Exhibit jobs.* An open job is queued once or in flight, and a request is in flight
  exactly when the connection waits (`OnePlace`), which no step that moves a job
  disturbs, the eviction from a full queue included. A job's retry mark counts the
  requests for the page it is at (`MarksCount`). What was sent in the last k ticks and
  what is in the bucket now is no more than a full bucket and what k ticks bring
  (`Level`): a request moves a token from the one to the other, a tick adds one
  refill to both sides.
- *Daemon.* The journal is a pipe from the engine over the ring and stdio's buffer to
  the file; `JournalOrdered` says that its three parts are in order behind one another,
  so a crash, which keeps a first part, keeps the order. New records fit behind because
  what is journalled of a producer's events is older than what is still in its ring
  (`JournalOlder`), and the trades of a life are recorded when its engine ends.
  `StoriesKept` follows a story from ring to file or into the losses, and `InTurn` is
  the order of the joins: no sink ends before the engine, nor with a record in its ring.
  For the filings, the temporary file is what is in memory until the rename, as the
  engine has ended (`FilingsSafe`). That a crash spoils one line of a kind needs no more
  than that a file in which one was spoilt in this life does not end in a part of a line
  (`SpoiltSoFar`).
- *Order book.* The invariant relates values and not positions: a ladder `Represents`
  the function from prices to the shares of the live orders when it is sorted, has no
  empty level and has a level wherever the function is not zero. Then `add()` and
  `remove()` are updates of that function at one price (`AddRepresents`,
  `RemoveRepresents`), the binary search finds the one place a price can have
  (`PositionIs`), and every message is such an update of one side of one symbol and of
  nothing else (`Elsewhere`). An order is never removed by more than it has left, as
  the table and the ladder lose the same number (`RestTaken`), and it cannot move to
  another stock, as the directory names a code once (`OrdersKnown`). That the top is
  right although it is written only on a change needs what was last published to be
  what the board shows (`Quotes`). For the statistics, a bar is in the slot of its
  minute (`Ring`): what a trade pushes out of a slot is a whole ring older
  (`SameSlot`), hence in no answer about a minute the ring still covers (`RingAfter`).
  The sums over orders, prints and bars are folds over finite sets; `SumsExist` and
  `AnyFirst` show, by a least counterexample instead of an induction, that the order of
  the fold does not matter, from which a sum with one element more (`TotalGrown`) or
  one value changed (`TotalChange`) follows.
- *Baseline.* The history file is looked at as the set of its rows, no row twice: after
  every step they are exactly the rows of the sessions with these dates, as last run
  (`FileExact`), and the dates are among those run, the latest included (`LatestIn`).
  An append drops and adds the rows of one date (`SessionAppended`), also after a death
  before the trim of an earlier one, when the file has more dates than are kept; a date
  more pushes at most older ones out of the latest (`RecentMore`), and the latest of a file that
  has them all are the latest of all (`RecentWithin`), so a trim late is a trim in
  time (`TrimmedTo`). The loop over the lines is treated as those of the filings. What
  rebuild() adds up by row is the sum by session, as rows of a ticker and sessions it
  traded in correspond one to one (`TotalRenamed`, `RebuiltExact`).
- *Recorder.* Around every byte of the file stand the others of its message, and messages
  follow one another in the order of the feed (`Framed`). Each gzip member is framed, later
  ones hold later messages, and one that was ended stops at the end of a message
  (`FileOk`), so that the members up to the first unfinished one join into a framed whole
  (`MembersJoined`: the fold of `FlattenSeq` is followed to the first member at which it would
  not, there being none, instead of by induction). What is in the file was given, not
  counted as dropped, and comes before what is still in the ring (`Past`), and without a
  crash nothing is missing between dropped, ring and file (`NothingLost`); the last member
  is unfinished while the recorder runs, and ended before the reading unless a process died
  (`Phases`). The reader's
  buffer is the part of the file before its place (`Buffered`) and its position in the file is
  always the end of a message, everything before it decoded (`Done`): one message more is
  again such a place (`NextMessage`, `OneMore`), wherever the refills cut. It stops at the
  end, or after a failing read, which can happen only closer to the damage than one read
  asks for and decodes ahead (`Stops`). At the end what is
  left is shorter than its message, so everything that ends before the reader's place was
  decoded.
- *Calendar.* No table of days is walked: the proof is arithmetic. A year that begins
  in March is taken apart into eras, centuries, leap years and the rest (`YearParts`),
  so the number of a day is a linear form of these parts with their bounds
  (`CivilForm`, `DayOfEra`), and the divisions by which the other direction recovers
  them have one result each (`YearOfEra`, `DayOfYear`, `MonthOfYear`). Hence the two
  formulas undo each other for every year and every day number, without a bound
  (`CivilOfDays`, `DaysOfCivil`). Turning the
  page is one day more (`NextDate`); the Sundays counted so far follow from the day's
  number and weekday, so the switches the wall makes on the second and on the first
  Sunday are those the code computes (`SwitchIs`). The offset the code takes at midnight
  is the day's except on the two days of a switch (`DayOffset`).
- *Filings.* A history is looked at as the set of facts it was told (`FactsOf`): add()
  adds the facts of a row whether or not it merges them into an entry (`AddTells`), and
  the flags depend on the facts alone (`FlagsOf`), so neither the order of the rows nor
  the form of the entries matters. The loops (`AddAll`, `FlattenSeq`, `Earlier`) are
  recursive functions; `EachStep` and `LoopEnds` show by a least counterexample that such
  a function exists and keeps what each step keeps. Saving and loading loses nothing, as
  a day number survives being written as a date and read (`DaysOfCivil`). Across the two
  programs, one has the file at a time and knows at least what is saved (`OneProgram`),
  and stok-ref marks days only with their facts on disk (`DaysKept`).
- *Hash table.* `Path` says that no empty slot lies on the way from a key's ideal slot
  to the key, `Once` that a key has one slot, `Maps` that the entries are those of the
  caller's map; with fewer keys than slots one is empty (`EmptyLeft`, by counting), so a
  lookup stops, and at the right slot (`ProbeFinds`). A store in the slot where a lookup
  stops keeps all three (`Placed`), hence so does the growth, slot by slot (`Grown`). The
  backward shift of erase() is followed along a line: cut at an empty slot z the ring is a
  line (`OnLine`) that no way to a key leaves, on which the two cases of the test for
  moving an entry are one comparison. While the loop runs, only the entries not looked at
  yet may need the hole (`Shifting`); an entry pulled back (`LinePulled`), one that
  stays (`LineStays`) and the end at an empty slot (`LineOver`) keep it so.
- *HTTP client.* The retry is decided by `first_byte`, a local variable of one attempt.
  `RetryIInv` says that an answer was heard in the last attempt only, and that while the
  call waits `first_byte` remembers it; nothing that happens on the socket in between
  forgets it (`FirstByteKept`).

Each strengthening was first checked by TLC as an invariant of the module. All of them
are sets of named conjuncts; a proof has one lemma per action or group of actions that
disturb the same conjuncts.

Only model-checked, and why:

- every liveness property (`WF`, `SF` and `ENABLED` are beyond the prover);
- `DrainIsLoop`, whose reference definition is recursive, and `NewsInv`, as
  `NewsEvents` declares a recursive operator;
- properties whose statement is what a fold or a loop computes for every input, which
  would take an induction over data: `ScorerInv`, `SymbolsInv` (`primary_for_cik`), `BacktestInv` (`advance`),
  the first two conjuncts of `ClientInv` (the parse of the whole answer).

## 5. Mutants

Each property of a passing run has a mutant in PROJECT.json: a definition of the model
changed the way a bug in that code would (a fence dropped, an index published too
early, a buffer not cleared, a cooldown not recorded, a seen set forgotten), under
which TLC finds the property violated. The mutated operators stand before the
definitions they replace, marked `Mutant`; no specification uses them. Where a property
is a conjunction, PROJECT.json names a mutant that breaks one of its parts, and the
module has one for each of the others.

## 6. Where the code and its own words differ

Each of these is a run that TLC ends with a counterexample.

- `recording_restart`: after a crash, what the next start records is behind an unfinished
  gzip member (`recorder.cpp:15`), and the reader stops there (`sources.cpp:45-48`);
  `recorder.cpp:13-14` says a restart mid-day "adds a new gzip member, which readers
  (zlib's gzread) handle transparently". With zlib up to 1.3.1 up to a buffer of messages
  before the damage is lost as well, synced or not, although `recorder.cpp:56` flushes for
  "bounded loss if the process dies"; `ReplaySound` states what is left.
- `feed_retry`: the validator is stored before the items are offered to the ring
  (`poller.cpp:319`). An item that finds the ring full is not in the seen set, but
  the next polls are answered 304 until the publisher adds something; the comment at
  342 says "retried next poll".
- `engine_high_clean`: HIGH tests the flags copied with the story (`engine.cpp:571`);
  filings made while the ticker is watched do not stop it ("clean filings",
  `signals.hpp:16`).
- `paper_daily_loss`: an order pending when the limit is reached is still filled
  (`paper.cpp:52`; "stop opening new trades after this realized loss", `paper.hpp:22`).

Met while modelling, without a run that states them; the models do what the code does:

- `gap_since_` is not reset when the first of two holes is filled, so the second is
  given up when the first one's timeout runs out, even if it was found only then
  (`sources.hpp:289`; the comment at 98-99 promises `gap_timeout_ms`).
- A stronger story takes over the watch with the outcomes already taken
  (`engine.cpp:454`; "after every watched story", the repository's README, line 35).
- `close_all()` sells a halted stock at its last price although `paper.hpp:39` says a
  halt prevents exits; a mover is reported as "below threshold" after its qualifying
  story left the list (`signals.hpp:18`).
- A halt reported late by the RSS feed, after the order feed's resumption, is announced
  again and believed (`late` in `HaltAlerts`); a halt that finds the event ring full is
  never told to the engine (`missed`).
- A full bucket of 4 and a rate of 8 allow 12 requests in a second where
  `docs/ARCHITECTURE.md:21` promises 10; `WithinRate` states what the bucket gives.
- News in the engine's rings at a shutdown are not journalled although the repository's
  README, line 7, says every story is (`ShutdownComplete` excepts them).
- A line of the journal that a crash cut short takes the next life's first line of that
  file with it (`journal.cpp:105`; `TornOnce` bounds it).
- `write_file_atomic()` does not look at the close of the temporary file
  (`util/file.cpp:27`): content that stayed in the stream's buffer and cannot be written
  then is renamed into place cut short.
- "NASDAQ: AB, TSX: CD" reads TSX as a ticker of the first list (`tickers.cpp:128-150`)
  although foreign tickers are said to be informational only; `parsers.hpp` says the
  first EX-99 exhibit is taken, the code prefers EX-99.1.
- `scorer.hpp:88` says title matches count double; `scorer.cpp:340` adds 5.
- Days of a backtest run in the order given (`backtest.cpp:229`), not by date (the
  repository's README, line 185).
- With `exhibit_queue_max` 0, `pop_back()` is called on an empty queue
  (`poller.cpp:383-385`); TLS's wish to write is overwritten after a read
  (`connection.cpp:259`); Telegram messages sent during a back-off are dropped although
  the log says they will be retried; an index answered 404 is marked done
  (`stok_ref.cpp:219-220`); `parse_eastern_mdy_time()` is an hour off after 02:00 on the
  two days of the year on which the clock changes.

## 7. Not modelled, and the plan

Out of scope for good: byte layouts and text (ITCH decoding, XML, entities, JSON,
formatting, the digits of an amount), gzip and TLS inside, DNS answers, the
configuration, and the batch tools that read files and print. They keep no state
between calls and are covered by unit tests. Within the modelled components these are
left out: the bridge's text lines and the pacing of a replay; `load_baseline()`;
`FlatSet64`, which is the same table, and `reserve()`, which is a growth at another
moment (the table starts with 4 slots where the code has at least 8, so that it fills and
wraps sooner); the delivery of alerts; the limit on the size of the scorer's automaton;
time zones in digits other than those of the East coast; the journal's change of files at
midnight; the bytes a block cut short by a crash may still inflate to before the error is
noticed; a write that fails only when the file is closed, and files the operating system
loses in a power failure; the loop over the days of
a backtest. Assumed absent: two tickers of one alias spelling (`index_alias()` keeps
the last), an issuer whose CIK changes during a day.

What could still be proved of what TLC has checked: `HardBlocks` of `Scorer`, which does
not depend on a loop, by induction over steps; and what a loop computes, if the existence
of its recursive function is first shown by a least counterexample, as `MarketDataProofs`
does for sums and `ReferenceProofs` for the filings and the hash table. `OneEntry` of `Symbols` and
`AnswerIsOwn` of `HttpClient` hold for the rows and answers of the run's constants; a
theorem would have to say as an assumption what a consistent row or answer is.
