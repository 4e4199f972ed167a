# Polytope: a TLA+ development of the trading engine

TLA+ modules that model the engine in `src/`, TLC configurations that check them on
small instances, and proofs that the TLA+ proof system (TLAPS) checks for every
instance. `PROJECT.json` lists the components, the runs, the hazards and, for the
definitions, the source lines they stand for; of helpers that share their lines with the
operation they are part of, it names the operation.

Contents: [the system](#the-system) · [modules](#modules) · [runs](#runs) ·
[proofs](#proofs) · [disagreements](#disagreements-with-the-documentation) ·
[not modelled](#what-is-not-modelled) · [what could follow](#what-could-follow)

## The system

    oracle (offline) ----------------------\
                                            v
    feed -> raw log -> decode -> state -> signal -> order decision -> risk -> execution -> paper
                                  ^  \                                 ^            ^
                       chain_confirm  \-> market making -> quote risk -/-> maker ---/

`engine/feed` keeps the market's WebSocket alive and writes raw messages to a log;
`engine/decode` turns them into normalized events; `engine/state` applies the events to
order books and publishes snapshots; `oracle` compiles, offline, what is known of the
markets into bundles of positions with a guaranteed payout; `engine/signal` finds bundles
that cost less than they pay; `engine/order_decision` and `engine/decision_fastpath`
choose their size; `engine/risk` decides whether an intent may be executed and reserves
budget for it; `engine/execution` turns an approval into orders and follows them;
`engine/paper` keeps cash and positions; `engine/strategy/market_making` quotes both sides
of a market, driven by `tools/run_market_maker_dashboard_live.cpp`;
`engine/chain_confirm` matches trades seen on the WebSocket with fills read from the chain.

Within a component calls are sequential: the tools drive the pipeline from one thread or
under one mutex. Two places are concurrent in the code itself: the receive thread of the
feed beside its main loop, and readers of snapshots beside their writer. Those two are
modelled step by step; elsewhere one call is one step, and what interleaves are the calls,
the market, the clock, the venue, crashes and the delivery of reports.

### Inventory

| component | state | what is hard about it | properties |
|---|---|---|---|
| reservation book (`risk/ledger`) | vector of reservations, map of active keys, running totals | late releases, reused keys, totals that must not drift | LedgerIsSumOfActive; proved: ActiveKeysIndexTheActive, ClosedStaysClosed |
| risk engine (`risk/core`, `guards`, `reprice`) | seen keys, rate window, book | guards with side effects in a fixed order, stale books, limits at their boundary | ApprovalsAreReservations, ApprovedOnce, RateWithinLimit, ImplementsBudget |
| pricing (`common/math`, `state/book/DepthPrefix.h`, cost curves) | none | overflow, level boundaries, four algorithms for one price | PricedAtTheCheapest |
| order decision, fast path | three caches, rollout state | keys that leave things out; two implementations and a kernel for one decision | CacheIsTransparent, DecisionsAreBest, KernelAgrees, FastPathIsSound |
| execution gateway (`execution`) | plans, fill counts, pending reports, accepted venue orders | partial fills, lost answers, dispositions | OutcomeMatchesFills, AtomicAllOrNothing, AcknowledgedStaysCancellable |
| paper engine (`paper/core`, `pnl`) | ledger, portfolio, terminal state of plans, marks | repeated reports, completion counted by reports | AccountAddsUp, CompletePlansAreBought |
| paper maker (`execution` maker part, `paper/ledger`) | quotes and two indexes, account | five ways out of three maps; late, repeated, reordered reports; rounding | QuotesStayWhole, LedgerFollowsFills |
| live maker adapter | accepted venue orders per group | lost answers, group cancels that fail in part | OneOrderPerSide, RestingStaysCancellable |
| market making, quote risk, driver | active quotes, reduce quotes, averages, cooldowns | three parties that must agree on what rests; inventory used by three rules | RestingIsTracked, StrategyQuotesAreSound, InventoryIsBounded |
| chain confirmation | ring of hints, store of fills | repeated logs, reorganisations, expiry racing a late log, full ring | HintConcludedOnce, StoreFollowsChain |
| snapshot publication (`state/snapshot`) | two slots, index, flag, mutex | readers that overlap publications | ValidDuringOnePublish, BatchReadsWhole |
| feed connection (`feed`) | connection, heartbeat, back-off, receive thread | two threads on unlocked controllers, failing reconnects, silent peers | OldThreadGone, NoSilentStall |
| raw log, decode, market state | log file, books, hash cache, quality, chain and settlement state | one quality per shard for all assets; torn records; a replay by another path | ReadersSeeTheStore, ChainFillsAddUp, CacheKnowsTheBook, ReplayIsFaithful |
| signal (`signal`) | seen intents, rate window | ranking between evidence and publication; two guards for one book | OpportunitiesAreSound, NoRepeatWithinTtl, LimiterIsFair, ScanPathsAgree |
| oracle | files of four tools | a list that shifts while it is paged; exports that stop half-way; guarantees over all settlements | OnlyApprovedRulesCompile, CompilerIsExact, GuaranteedPayoutHolds, ArtifactLoadsWhole |

## Modules

Each specification module has its constants and their assumptions at the top, then the
state, one operator or action per operation of the code, the next-state relation, and the
properties with the code behaviour they are about. A component that others call inside
their own handlers is a value: its operations are operators from a record to a record. An
operator whose comment begins with "Faulty variant" is a plausible mistake in the
definition that follows it, kept to show that a property notices it; no specification uses
one. `MC…` modules give values to constants; `MCOrderDecision` also tries the pricing alone.
Hashes are taken to be injective: a hash is what it is the hash of.

**`PrefixSums`, `ReservationBook`.** The class is a record (`reservations`,
`active_keys`, `ledger`, `next_reservation_id`) and its operations are operators from a
book to a book, because the risk engine runs several of them inside one call. The
exposure and inventory ledgers are one function over accounts: two totals, a row per
asset and per market. Erased rows and rows that read zero are the same.

**`VwapMath`.** Fixed-width integers, the two ways the code prices a purchase (the walk
over the levels with checked arithmetic and the look-up in precomputed, saturated sums),
and the edge a purchase leaves. The largest integer is a constant, so that overflow
happens in a small instance; sizes count in parts of a lot because the code keeps doubles
and rounds them down.

**`RiskEngine`** extends the book and the arithmetic. `EvaluateView` and
`EvaluateDecision` run the guards of `RiskPipeline::evaluate_view` in their order, with
what the duplicate guard and the rate limit change on the way, reprice the intent against
the latest books or the ones the signal handed over, and reserve. The environment
publishes books and moves the clock. **`RiskBudget`** is what the engine promises the
execution side without any of that: grants that hold lots of assets, never two with one
key, never more of an asset than the limit, each taken back once and for good. The
refinement mapping (`Grants`) reads the grants off the vector of reservations.

**`PaperAdapter`, `ExecutionGateway`, `PaperTrading`.** The two state
machines, the fill tracker and the partial-fill policy; filling against a book; the
gateway with its planner, validator, plan store, report queue and the paper, sandbox and
live adapters; and the paper engine, which sees every plan before the adapter and every
report the gateway publishes. The reports of a cancellation carry no time. The live adapter talks to a venue (external to `src/`) that
refuses or accepts each order, may lose the answer to a submission or a cancel, and fills
open orders at any time.

**`PaperLedger`, `MakerTrading`, `LiveMaker`.** The paper account with average cost
rounded down; paper market making: the quote book with its two indexes, the fill model in
all its modes, and the reports, which reach the ledger later, twice or out of order; and
the live maker adapter, leg by leg, with the same kind of venue.

**`Quoting`, `MakerDriver`, `QuotingLoop`.** Fair value, spread, skew, size,
the reward constraint and the refresh policy; the guards of a quote; the driver's reducing
quotes and taker purchases; and `process_depth_update` as one composition of all of them
with the paper adapter and ledger of `MakerTrading`. The policies and the configuration of
the adapter are derived from the driver's options as the driver derives them. The two sides
of a quote are mirror images in the code and are written once. `StrategyQuotesAreSound` is
about the agreement of strategy and risk: each sizes a side that reduces the position for
itself (`reduce_qty_cap`, `reducible_qty_lots`), and the property says exactly where they
differ (`RiskStopsAtTarget`) and that they differ nowhere else.

**`EntityStore`, `Decode`, `Shard`, `MarketState`.** The store of books with its hash
cache; classification and normalization of payloads and the integrity checks of the replay;
the shard with its quality, chain and settlement writers and publications; and the whole
path from the wire through the raw log to the view, with crashes and replay. The integrity
checks are run by the replay tool over the log and not by the live path (`CheckReplay`). JSON is
abstracted to fields that are there, missing or unparsable, a record of the log to whole
or torn.

**`OrderDecision`, `DecisionFastPath`, `OrderDecisionPaths`.** Cost curves, candidate
quantities, the incremental sizing loop, limits and the three tables of the cache; the
registry, the kernel, the gate, the reference decision and the event-local pipeline; and
both used over and over while books, clock, budget and the policy's depth margin change.
The cache answers as an empty one would (`CacheIsTransparent`), unless it was filled under a
stricter margin, which no key names: then it may give a worse answer or none, never one too good.

**`OracleCompiler`, `OracleArtifact`, `OracleWorkflow`.**
Drafts, approval and constraints; components, enumeration, payoff matrix and semantic
oracles; baskets; the artifact directory file by file with the runtime's reader; and the
tools as one system that may stop between any two writes. `verify_oracle_workflow` opens its
inputs one after the other and the rulebook twice, to compile it and to copy its text, so
that the other tools may write between two reads. The enumerating oracle renumbers the
variables of its component (`Renumbered`).

**`SignalPricing`, `SignalEngine`.** The readers and their guards, pricing, edge and
intent; and `scan_once` with ranking, deduplication and rate limit, which outlive a scan.

**`ChainConfirm`.** The ring of hints, the store of fills and their reconciliation. A log
may be read any number of times, removed by a reorganisation and read again. Market,
asset, price and size, by which hints and fills are compared, are one value, the shape.

**`SnapshotPublication`.** One buffer, its writer and its readers. A snapshot is two words
that are written and copied one at a time, the least with which a copy can be torn.
`read()` copies without the mutex, `read_many` and `read_depth_many` hold it, and
`publish` passes through it. The atomics are sequentially consistent here; the
acquire/release pairs of the code order the same stores for the one writer it has.

**`FeedConnection`.** The loop of `RealtimeFeedEngine::run` at the granularity of the
calls that touch shared state, the receive thread of `WebSocketClient::run`, and the
heartbeat and reconnect controllers they share without a lock. `disconnect()` is two steps,
between which the receive thread may fail by itself and be the first to claim the close
callback; a message that was read before it may be handled after it. A timestamp is kept as
its age, so the state space is finite without a bound on time.

## Runs

Every passing run explores its whole state graph, and together they take every action.
Deadlock is not checked: every model bounds what its environment offers and then has
nothing left to do, or (feed) may end in the stopped state.

| run | bounds, and why they are enough | shows |
|---|---|---|
| `risk_engine` | 2 signals and 2 sized decisions, 3 reservations, 3 instants in 2 rate windows, 2 books of the first asset: an intent is approved, released or expired, and offered again while prices move | the totals are the sum of the active reservations, approvals are reservations, no hash is approved twice, the rate limit holds, the engine implements `RiskBudget` |
| `risk_edge` | as above, with a looser limit of drift | see [disagreements](#disagreements-with-the-documentation) |
| `execution_gateway` | 4 envelopes, 2 submissions, 2 cancels, deep, thin and missing books, 9 configurations of 3 adapters, one change of the marks: a plan is filled, filled in part, refused, submitted again, cancelled | dispositions and statuses agree with fills, atomic plans are all or nothing, acknowledged orders stay cancellable, the paper account adds up |
| `maker_trading` | 4 quotes, 3 activations, market events until 2 reports are out, 6 fill configurations, 3 calls of the live adapter: a quote is replaced, partly filled, cancelled and posted again while its reports are under way | the indexes agree, no quote is overfilled, the account counts every fill once and balances up to rounding; live, one order a side, and what rests can be cancelled |
| `chain_confirm` | ring of 2, 3 hints, 3 logs of 4 fills: the ring overflows, two hints match one fill, a log is removed and read again | a hint has one end, the store follows the chain |
| `snapshot_publication` | 4 publications, a single and a batch reader, 2 reads each: the writer comes round to the slot a reader copies | one overlapping publication never tears a read, batch reads never tear |
| `feed_connection` | timeouts in the proportions of the defaults, ages up to the longest, 2 attempts or unlimited | old threads are gone before a new connection, the feed never goes quiet for good |
| `market_state` | 2 assets and one outside the universe, every sequence of 4 inputs out of 10 payloads and 4 chain fills, 1 crash: a bad message for one asset between good ones for the other, a fill repeated or removed, a record torn | readers see what the store holds, chain fills add up, the hash cache knows the book, a replay rebuilds it |
| `order_decision` | 2 assets, 2 bundles, 3 configurations, books of 1 or 2 levels, 2 updates of books, budget or margin, 2 calls, 1 event; the pricing alone over up to 3 levels of 5 prices and 6 sizes with integers up to 12: empty, invalid, thin and overflowing books, and a cache that is asked again after a change | the algorithms give one price and it is the cheapest, the cache changes no answer, decisions are best among the candidates, the fast path never publishes what the reference would refuse |
| `oracle_workflow` | up to 3 markets in 4 lists, pages of 2, 4 variables: the list shifts between pages, rules are approved or not, the rulebook is rewritten between two reads of one verification, a tool stops between any two files | the exported constraints are those of one approved rulebook, components and payoffs are exact, the guaranteed payout holds in every allowed state, what loads is one export |
| `signal` | 5 configurations, one with a fee, a latency buffer, slippage and books that grow too old; 2 bundles over 3 assets in 2 markets, 3 scans, 1 update, 4 instants in 2 windows | opportunities are worth their edge, nothing is repeated within its life, the limiter keeps the best, both scan paths agree |
| `quoting` | 8 configurations of the driver, among them a target above zero, a position past it, and purchases within the cooldown of a quote; inventory from 0, the default; 4 updates of 2 assets, prices in cents: a quote is placed, refused, filled in part, reduced, bought against, quarantined | what rests is tracked, quotes are sound, inventory is bounded |

**Fairness.** Only `FeedConnection` has liveness. It assumes weak fairness of the main
loop's own steps, of the clock and of the end of a receive thread: the operating system
schedules both threads and time passes. Nothing is assumed of the peer: connecting may
fail, succeed or block, messages may stop. The other components do nothing until they are
called, so nothing is promised eventually. `NoSilentStall` counts a running connection
attempt as activity: `connect()` has no timeout that covers the handshake, and nothing in
the code bounds it.

## Proofs

TLAPS proves the following for every value of the constants; TLC checks the same formulas
on the instances above, where a run is named for them.

| theorem | statement |
|---|---|
| `ReservationBookProofs!TypeCorrect`, `KeysExact`, `LedgerExact`, `ClosedOnce` | TypeOK, ActiveKeysIndexTheActive, LedgerIsSumOfActive, ClosedStaysClosed |
| `RiskEngineProofs!RiskTypes`, `RiskLedgerExact`, `ApprovalsReserve`, `HashApprovedOnce`, `InventoryLimited`, `RateLimited` | RiskTypeOK, LedgerIsSumOfActive, ApprovalsAreReservations, ApprovedOnce, InventoryWithinLimit, RateWithinLimit |
| `RiskEngineProofs!RiskImplementsBudget` | RiskEngine implements RiskBudget |
| `ExecutionProofs!OutcomesMatchFills`, `AtomicIsAllOrNothing`, `AcknowledgedCancellable` | OutcomeMatchesFills, AtomicAllOrNothing, AcknowledgedStaysCancellable |
| `ExecutionProofs!CompletePlansBought` | CompletePlansAreBought |
| `MakerProofs!QuotesWhole`, `ReportsToldApart` | QuotesStayWhole, FillsToldApart |
| `MakerProofs!OnePerSide`, `RestingCancellable` | OneOrderPerSide, RestingStaysCancellable |
| `EdgeProofs!StoreIsTheChain`, `HintsEndOnce` | StoreFollowsChain, HintConcludedOnce |
| `EdgeProofs!OnePublishIsSafe`, `BatchReadsAreWhole`, `PubTypeCorrect` | ValidDuringOnePublish, BatchReadsWhole, PubTypeOK |
| `EdgeProofs!OldThreadIsGone`, `ReconnectBounded` | OldThreadGone, ReconnectIsBounded |
| `OracleProofs!OnlyApprovedRules` | OnlyApprovedRulesCompile |
| `OracleProofs!CheckedDirectory`, `LoadedExport` | CheckedDirectoryIsOneExport, LoadedFromOneExport |
| `SignalProofs!NoRepeats`, `RateBounded` | NoRepeatWithinTtl, RateIsBounded (the first half of LimiterIsFair) |

`EdgeProofs` holds the proofs of three components that share no state: the feed's
connection, chain confirmation and snapshot publication. `PrefixSumTheorems` has
the lemmas on sums, lists and induction that the others use. A leaf that is pure first-order
reasoning cites Zenon; the others are left to the SMT solver.

The assumptions are those of the modules, and TLC evaluates them on every run. Most are
types: of intents, envelopes, books, quotes, events, policies and configurations. The others:
the empty key is a key, a second has a positive length and a level a positive number of
parts of a lot; readers have distinct names; fills of the chain with one id are one fill;
two approved quotes with one id are of one group, because `compute_paper_maker_quote_id`
hashes the group; the delays of the feed are ordered as its constructor leaves them.

**The book.** `BookInv` adds to the type, the key index and the totals that
`ledger_reserved` is raised exactly while a reservation is active: release and expire_old
take amounts off the ledger only when the flag is up, so without it the totals are not
inductive. Totals are sums over the vector; `PrefixSumTheorems` proves how a sum changes
when one entry changes, by induction in the form "a set of naturals that contains 0 and is
closed under successor is Nat", which follows from the well-foundedness of `<`. Release and
expire_old are both closings of a set of active reservations (`ClosingInv`); expire_old's
loop is related to that set by induction over the vector (`ExpireStep`).

**The risk engine.** `RiskInv` is `BookInv` and the alignment of `approved` with the
vector of reservations, the duplicate guard's memory of every approved hash, the inventory
limit, and the number of approvals in the second of the rate window. Two arguments carry
it: what an approval has passed (`PassedChecks`, `InventoryPassed`), and that closing
reservations never raises a row of the ledger (`ClosingShrinks`). The rate limit needs the
clock not to go back, which `Tick` guarantees and `RateAt` uses: a second that the window
has left gets no more approvals. The refinement maps an evaluation to a grant, together
with the reservations that expire on its way, or to a stutter.

**Execution.** The argument follows a submission. Whatever the adapter (paper, atomic or
sequential, sandbox, live with any answers of the venue), its reports are `Honest`: one for
every order or none, each saying of its order what was bought of it. For the paper adapter
that is an induction over the levels of the book (`IsPurchase`), written as a table of the
loop's states. From honest reports the order machine and the fill tracker agree order by
order (`OrderAgrees`), and then no status that `apply_plan_lifecycle` can choose contradicts
the fills (`LifecycleSound`): HedgeRequired and PartiallyFilled never release, Filled is only
reached with everything filled. `GatewayInv` keeps this for all results, ties `runtime` to
the plan store, and says of the venue that each of its orders has one submission and one
place in a plan; that makes `AcknowledgedStaysCancellable` inductive through cancels that
are answered in part. It is about the latest submission of a plan: a plan that is submitted
again replaces its list of accepted orders, and those of the first are no longer named.

**The paper engine.** `CompletePlansAreBought` compares a counter with the fills of a plan.
It is inductive because submitting a plan starts its counter at zero before any of its
reports arrive, and the reports of one submission raise it at most once each: an induction
over the batch (`IsRun`, `CountedBy`). With partial fills allowed a part counts as a whole,
so the theorem, like the property, is about a gateway that does not allow them.

**Paper market making.** `MakerInv` needs the history as well as the book: every report says
what is left of its side after all the reports up to it (`History`), what the history adds up
to for an active quote is what the book counts as filled (`Counted`), no two active quotes
share an activation, and no activation has been reported beyond what was approved
(`Within`). An event fills a set of sides at once and appends their reports in some order;
`EventReports` shows that each side's sum grows by that side's fill alone, whatever the
order. `FillsToldApart` then follows without a clock: later reports of a side have less left.
The indexes are inductive with `Approved` because a replacement removes the old quote under
its own id before the new one is added.

**The live maker.** `AdapterInv` says that a group names at most one order of a side, and
names every order that rests confirmed. The step that could break it is a replacement in
which a cancel fails: the adapter then returns before it submits, and keeps the group's list
(`CancelKeeps`, `ReplaceKeeps`); and a second leg that fails cancels what the first left
(`SubmitSideKeeps`).

**Chain confirmation.** The store is in step with the last log read of each fill.
`HintConcludedOnce` is not inductive: what keeps a hint from a second end is what the ring
still says of it. `HintsInv` adds that ids are used once, that a hint in the ring has not
expired, and that one that was confirmed is final there.

**Snapshot publication.** `PubInv` says which slot the writer may be writing (never the
active one), and that the slot of a reader in progress is not written while at most one
publication overlaps the read; a batch reader holds the mutex, so that no second one can
begin.

**Feed connection.** `OldThreadGone` is inductive as it stands: only `Join` leads to a new
connection or to the end of `run`. The bound on attempts needs that `should_reconnect` was
true when the loop began to disconnect (`ControllerInv`), since the attempt is counted only
after the join and the receive thread may request again in between.

**The offline workflow.** What a verification compiles, it has checked: a preparation that is
not refused was made of rules that are all approved, and of nothing else (`PrepareIsChecked`).
The invariant carries this from the step that reads the rulebook to the export, whatever is
written to the file in between, whence `OnlyApprovedRules`. It is about the constraints: the
bundles of a fixture are checked against the markets and not against the rules. For the directory the invariant follows the writes of an export that may
stop between any two of them: a checksum list that names every required file was taken of one
export, and the export in progress still finds the files before its place as it wrote them
(`DirectoryInv`). A list that is cut off lacks the bundles and is refused
(`CutListIsRefused`). A directory that verifies therefore has every listed file from the export
of its list. That the manifest read back is the one written is proved (`ManifestRoundTrip`);
that the serialized bundles parse to what was written compares two loops over sequences and
stays with TLC (`ArtifactLoadsWhole`).

**Signal.** Scanning, deduplicating and limiting are loops over the candidates; each is a
recursive function, and the proofs relate it to the table of its states, whose existence
and properties are shown by induction over its length. `DedupeSound` says of a scan that a
candidate it keeps has been marked now and was not marked within the time to live, and that
two kept opportunities of one scan differ. With `MarkedInv` (what was shown is marked, and
not earlier than it was shown) this is inductive; that the limiter drops intents that are
already marked only adds marks. For the rate, `WindowInv` says that the window counts what
its second has shown and that no shown intent is of a later second than the window, so that
a second whose window is opened has shown nothing yet (`OpenedCounts`). `LimiterKeepsTheBest`
needs that the ranking sorts and stays with TLC.

**Only model-checked.** `NoSilentStall` is liveness under fairness. `PricedAtTheCheapest`,
the decision properties, `OpportunitiesAreSound`, `ScanPathsAgree`, `CompilerIsExact` and
`GuaranteedPayoutHolds` compare recursive functions and folds over sequences with their
definition, each of which would need an induction of its own over levels, legs or states. `AccountAddsUp`, the rest of
`LedgerFollowsFills`, and `ChainFillsAddUp` equate a running total with a sum over a set of
reports, for which the prover has no induction; `PrefixSum` covers sums over a vector, and
`LedgerFollowsFills` sums over reports that arrive repeated and out of order. The market
state and quoting properties are about long compositions of folds (`ProcessDepthUpdate`,
`ApplyEvent`) and stay with TLC.

## Disagreements with the documentation

`risk_edge` shows a statement of the documentation that the code does not keep:
`EdgeGuard.cpp:46` scales the payout to the bundles the books could fill and subtracts the
cost of the intent's own bundles, so an intent whose edge is below the policy at its own
quantity is approved.

Five more are stated in a module next to its properties and are not among the runs; adding
the name as an INVARIANT to the configuration makes TLC show the behaviour:

- `CancelledReleases` (`MCExecutionGateway`): `cancel_plan` publishes no disposition, so the
  reservation of a cancelled plan is held until it expires; `docs/execution_gateway.md` has
  it released.
- `GoodMarksAreOwn` (`MCExecutionGateway`): `docs/paper_trading_framework.md:73` says
  "missing or degraded market marks degrade PnL quality"; an asset the engine does not know
  gets index 0 (`PaperTradingEngine.cpp:135-139`), which is a real asset
  (`OracleArtifactReader.cpp:382-386`), and is marked with its price in good quality.
- `FillConfirmsOneHint` (`MCChainConfirm`): `FillReconciler::on_chain_fill` ignores that the
  store knew the fill (line 67), so a log read a second time confirms a second hint of the
  same shape.
- `PongTimeoutIsReal` (`FeedConnection`): a PONG handled between the send of the PING and
  `on_ping_sent` is forgotten, and the answered PING times out.
- `ContradictionsAreReported` (`MCOracle`): `docs/oracle_layer.md:229-234` has contradictory
  rules reported; `verify_oracle_workflow.cpp:720-766` accepts a component without any
  allowed state.

Further behaviours of this kind follow from the definitions named here.

*Risk and execution*
- The reservation holds the signal's estimate while `ExposureGuard` tests the revalidated
  cost, so the active reservations can hold more than `max_total_exposure_tick`
  (`ExposureGuard.cpp:67`).
- A sized decision counts as one lot per leg against the inventory limit, whatever quantity
  it asks for (`IntentFromDecision`, `RiskEngine.cpp:66`); `InventoryLimited` is therefore a
  theorem about what is reserved, not about what is asked for.
- An envelope the planner refuses fails without releasing its reservation (`RejectEnvelope`,
  `ExecutionGateway.cpp:72`), and a plan cancelled twice reports its orders cancelled twice.
- Every applied fill counts one filled order, so with `allow_partial_fill_paper` a plan can
  look complete and have its payout booked (`PaperTradingEngine.cpp:262-266, 488-489`). A
  plan submitted twice at one instant with equal fills is booked once.

*Makers*
- Live: an accepted order whose acknowledgement is lost or does not say "live" is not
  tracked (`LiveMakerExecutionAdapter.cpp:167`); a group that was cancelled in part can
  never be replaced; a quote with an unusable number of legs fails after the old one was
  cancelled (line 314).
- Driver: an update whose book is not usable is dropped and the quotes stay
  (`DataQualityGate.cpp:37-60`, `docs/market_making.md:50-51`); a fill in part frees the
  asset in the engine's book while the remainder rests; an external fair value above the book
  makes maker quotes marketable; the circuit breaker trips even when the cooldown would have
  blocked the purchase.
- Strategy and risk: in a forced unwind, or with `reduce_only_quote_to_target` off,
  `reduce_qty_cap` (`QuoteEngine.cpp:117-139`) lets a reducing side go past the target, while
  `reducible_qty_lots` (`QuoteRiskEvaluator.cpp:190-210`) stops at it, except for a
  forced ask. A maker far below a positive target has its forced bid refused at every update.

*Signal, decision, oracle*
- `docs/signal_engine.md:343` says "configuration can require `usable_for_signal`"; the
  guard of the depth path does not test it (`SnapshotConsistencyGuard.cpp:241`).
- The cap on opportunities is applied in scan order before ranking; what the limiter drops
  is already marked as seen, and what risk refuses has used up the rate.
- The memo key of a decision has no depth of the book in it; candidates are truncated by
  margin (`BundleSizeOptimizer.cpp:633-635`), and a set that was cached under a stricter margin
  may miss the optimum of a looser one; an asset without an
  index is index 0 in the fast path.
- A count that is 91 or 123 modulo 256 makes a binary artifact read as JSON
  (`OracleArtifactReader.cpp:314-323`); the labels of components follow kinds of rules, not
  the oracle that answers (`ComponentPartitioner.cpp:138-143`, `oracle/README.md:108-115`);
  the loader verifies files and then reads them again; the last two files have no checksum.
- The `rulebook.json` of an artifact is read after the rules were checked
  (`verify_oracle_workflow.cpp:799`) and may hold rules that nobody approved.
- `is_feasible` of the enumerating oracle takes the component's own numbers, that of the
  semantic oracles the global ones; nothing in `src/` calls it through the common interface.

*State, chain, feed*
- Settlement closes a market on the first of two messages and can later erase the winner
  (`LOBShard.cpp:388-392`); changes of the second asset in one message are dropped
  (`EventNormalizer.cpp:576`); nothing sets Resolved (`engine/state/README.md:629`); one
  payload that cannot be decoded ends a replay.
- With `max_candidate_matches = 1` candidates are cut before they are counted and an
  ambiguous fill is confirmed (`Kept`, `FillReconciler.cpp:101`).
- A `read()` that two publications overlap can return words of both, and one between the
  stores of `published` and `active_index` returns the empty snapshot; the live tools
  serialize publish and read with a mutex of their own.
- After a reconnect has succeeded the first attempt of the next outage does not wait,
  because `last_attempt_ns_` is kept (`Connected`, `ReconnectController.cpp:128`).

## What is not modelled

- *Reward clients, HTTP and SSE output, JSON text, signing*: translation of bytes and
  strings without interleavings; round-trip and fixture tests reach them.
- *Other tools*: the drivers apart from the market making one; the order of their calls and
  their mutexes are what the modules take as the environment.
- *Frontend, research, scripts, configuration files*: not part of the runtime path.
- *Latency metrics, counters, log text, and the audit trace of a risk decision*: no property
  is about them.
- *Paper performance figures* (Sharpe, drawdown), regimes and the ring of runtime frames.
- *In the market making driver*: the external fair value model and targeter, the
  Avellaneda-Stoikov model, markouts, and initial positions other than a complete set.
- *`stop()` of the feed from another thread*: `engine/main.cpp` is the only caller of
  `run()` and never does so.
- *Weak memory*: see `SnapshotPublication` above; plain fields of the feed's controllers
  are read and written one at a time.

## What could follow

- The composition of risk and execution through dispositions: a reservation that is
  consumed or released exactly once.
- `SnapshotRing`: the read model's ring of frames and the backend's event buffer.
