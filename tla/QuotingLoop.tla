----------------------------- MODULE QuotingLoop -----------------------------
(***************************************************************************)
(* The live market making driver (tools/run_market_maker_dashboard_live):  *)
(* every depth update goes through the fills of the resting quotes, the    *)
(* taker purchases, the strategy, quote risk and the paper adapter, under  *)
(* one mutex, in one call of process_depth_update.                         *)
(*                                                                         *)
(* The handler is a composition of steps on rt, the driver's RuntimeState  *)
(* together with the engine's quote book:                                  *)
(*   active      MarketMakingEngine's QuoteBook, by asset                  *)
(*   book        the adapter's ActivePaperQuoteBook                        *)
(*   ledger      the paper account                                         *)
(*   reduce      [active, since] of the reducing quote, by asset           *)
(*   basis, macro, quarantine_until, last_taker, taker_fills, seeded       *)
(*   halted      the circuit breaker has ended the program                 *)
(*   judged      history: the quote the last update asked risk about, with *)
(*               the answer                                                *)
(***************************************************************************)
EXTENDS MakerDriver
LOCAL INSTANCE SequencesExt

CONSTANTS
  Assets, StartingCash,
  DriverConfigs,    \* the driver's configurations
  BaseConfig,       \* MarketMakingConfig as the driver leaves it
  Updates,          \* [depth, complement, fair, oracle]: what an update may bring
  Gaps,             \* the time between two updates
  MaxUpdates        \* bound on updates

VARIABLES
  input,   \* Config
  now,     \* the instant of the next update
  rt,
  count    \* updates so far

loopVars == << input, now, rt, count >>

Maker == INSTANCE MakerTrading WITH
  config <- ExecutionConfig(input), book <- rt.book, ledger <- rt.ledger,
  activated <- << >>, emitted <- << >>, ApprovedQuotes <- {}, MarketEvents <- {},
  ExecutionFills <- {}, MakerConfigs <- {}, Clock <- {}, MaxActivations <- 0, MaxReports <- 0

StrategyAsset == "yes"
ReducePairs == [yes |-> [active |-> FALSE, since |-> 0], no |-> [active |-> FALSE, since |-> 0]]

NewRuntime ==
  [active |-> << >>, book |-> Maker!EmptyBook, ledger |-> Maker!NewLedger,
   reduce |-> ReducePairs, basis |-> NewBasis(input), macro |-> NoMacro, quarantine_until |-> 0,
   last_taker |-> 0, taker_fills |-> << >>, seeded |-> FALSE, halted |-> FALSE,
   judged |-> << >>]

Lots(r, asset) == r.ledger.positions[asset].qty_lots

\* The id of a fill the driver books itself, in the shape of a maker report's.
OwnFillId(asset, lots, price, source, stamp) ==
  [quote |-> << >>, asset |-> asset, side |-> source, status |-> "Filled", lots |-> lots,
   price |-> price, remaining |-> 0, ts |-> stamp]

Bought(r, asset, lots, price, source, stamp) ==
  [r EXCEPT !.ledger =
     Maker!ApplyPaperFill(@, OwnFillId(asset, lots, price, source, stamp),
                          [asset |-> asset, side |-> "Buy", lots |-> lots, price |-> price,
                           fee |-> 0])]

\* seed_initial_position: once, and for a complete set only when both books are there.
Seeded(r, complement) ==
  LET yes == Bought(r, "yes", input.initial_position_lots, input.initial_position_price_tick,
                    "Seed", 0)
      price == ClampTick(PriceOne - input.initial_position_price_tick, 1, PriceOne - 1)
  IN  IF \/ r.seeded \/ input.initial_position_lots <= 0
         \/ input.seed_complete_set /\ complement = << >>
      THEN r
      ELSE [(IF input.seed_complete_set
             THEN Bought(yes, "no", input.initial_position_lots, price, "Seed", 0)
             ELSE yes) EXCEPT !.seeded = TRUE]

-----------------------------------------------------------------------------
(* Fills of the resting quotes.                                             *)

\* One report of consume_maker_reports: a fill that is booked frees the asset in the
\* engine's book, whatever is left of the quote; one that is refused tells nobody.
ConsumeReport(r, report, group) ==
  LET after == Maker!ApplyPaperFill(r.ledger, Maker!ReportId(report), Maker!MakerFill(report))
      freed == [r EXCEPT !.ledger = after, !.active = RemoveQuote(@, report.asset)]
  IN  IF after = r.ledger THEN r
      ELSE IF group = ReduceGroup(report.asset) /\ report.status = "Filled"
      THEN [freed EXCEPT !.reduce[report.asset].active = FALSE]
      ELSE freed

DepthEvent(asset, d) ==
  LET Top(levels) == [i \in DOMAIN levels |->
                        [price |-> levels[i].price_tick, size |-> Available(levels[i])]]
  IN  [asset |-> asset, trade |-> [price |-> 0, lots |-> 0],
       bids |-> Top(d.bids), asks |-> Top(d.asks)]

\* on_market_event and the reports it returns.
Matched(r, kept, event) ==
  FoldLeft(LAMBDA acc, f :
             LET q == kept.quotes[f[1]]
             IN  ConsumeReport(acc, Maker!Report(q, f[1], f[2], Maker!FillLots(q, f[2], event)),
                               q.approved.group),
           [r EXCEPT !.book = Maker!WithFills(kept, event)],
           Maker!Listed(Maker!FillsOf(kept, event)))

AfterMarketEvent(r, asset, d) ==
  Matched(r, Maker!Removed(r.book, Maker!ExpiredAt(r.book, now)), DepthEvent(asset, d))

AfterComplementEvent(r, complement) ==
  IF complement = << >> THEN r ELSE AfterMarketEvent(r, "no", complement[1])

-----------------------------------------------------------------------------
(* Taker purchases and the reducing ask.                                    *)

\* prune_taker_fill_window.
RecentFills(fills) == SelectSeq(fills, LAMBDA ts : ts + 60000 > now)

\* apply_taker_ioc_buy: the circuit breaker is looked at before the cooldown, and ends the
\* program.
TakerBuy(r, opportunity, cooldown) ==
  LET recent == IF input.max_taker_fills_per_minute = 0 THEN r.taker_fills
                ELSE RecentFills(r.taker_fills)
      bought == Bought(r, opportunity.asset, opportunity.lots, opportunity.price, "Taker", count)
  IN  IF ~ opportunity.active \/ opportunity.lots <= 0 THEN r
      ELSE IF /\ input.max_taker_fills_per_minute > 0
              /\ Len(recent) >= input.max_taker_fills_per_minute
      THEN [r EXCEPT !.taker_fills = recent, !.halted = TRUE]
      ELSE IF \/ r.last_taker # 0 /\ now < r.last_taker + cooldown
              \/ opportunity.lots * opportunity.price > r.ledger.cash_tick
      THEN [r EXCEPT !.taker_fills = recent]
      ELSE [bought EXCEPT !.last_taker = now, !.taker_fills = Append(recent, now)]

\* cancel_quote_group: cancelling what is not there fails and changes nothing.
Cancelled(r, group) ==
  IF group \in DOMAIN r.book.by_group
  THEN [r EXCEPT !.book = Maker!Removed(@, {@.by_group[group]})] ELSE r

\* submit_approved_quote: a duplicate is ignored and counts as a success, an expired quote
\* fails.
SubmitOk(quote) == quote.expires = 0 \/ quote.expires > now

Submitted(r, quote) ==
  IF Maker!Accepts(r.book, quote, now)
  THEN [r EXCEPT !.book = Maker!AddOrReplace(@, quote, now, 0)] ELSE r

ReduceCancelled(r, asset) ==
  IF r.reduce[asset].active /\ ReduceGroup(asset) \in DOMAIN r.book.by_group
  THEN [Cancelled(r, ReduceGroup(asset)) EXCEPT !.reduce[asset].active = FALSE] ELSE r

\* update_reduce_quote; depth is << >> when there is none.
UpdateReduce(r, asset, depth, fair) ==
  LET since  == IF r.reduce[asset].since = 0 THEN now ELSE r.reduce[asset].since
      quote  == ReduceQuote(input, depth[1], asset, Lots(r, asset), fair, since, now)
  IN  IF depth = << >> THEN r
      ELSE IF Lots(r, asset) <= ReduceTarget(input)
      THEN ReduceCancelled([r EXCEPT !.reduce[asset].since = 0], asset)
      ELSE IF TopPrice(depth[1].asks) <= 0 THEN ReduceCancelled(r, asset)
      ELSE [Submitted(r, quote) EXCEPT
              !.reduce[asset] = [active |-> @.active \/ SubmitOk(quote), since |-> since]]

-----------------------------------------------------------------------------
(* The strategy, quote risk and the adapter.                                *)

EngineInput(r, d, u) ==
  [asset |-> StrategyAsset, market |-> "market", depth |-> d, complement |-> u.complement,
   position |-> Lots(r, StrategyAsset), tte |-> 0, now |-> now, reward |-> << >>]

RiskInput(r, d, quote) ==
  [quote |-> quote, depth |-> d, policy |-> QuoteRiskPolicy(input),
   position |-> Lots(r, StrategyAsset), active_quotes |-> Cardinality(DOMAIN r.book.quotes),
   last_replace |-> 0, now |-> now, spot_age |-> 0, vol_age |-> 0,
   external_confidence |-> 10000, projected_exposure |-> 0, touch_exposure |-> 0]

\* Faulty variant: a quote that risk rejects stays in the engine's book.
PlacedKeepingRejected(r, quote, decision) ==
  IF decision = "Approve" THEN Submitted(r, Approved(quote, now)) ELSE r

\* A quote of the engine after quote risk: to the adapter, or out of the engine's book when
\* either refuses it.
Placed(r, quote, decision) ==
  IF decision = "Approve" /\ SubmitOk(Approved(quote, now))
  THEN Submitted(r, Approved(quote, now))
  ELSE [r EXCEPT !.active = RemoveQuote(@, quote.asset)]

Judged(r, quote, decision) ==
  [Placed(r, quote, decision) EXCEPT
     !.judged = << [quote |-> quote, decision |-> decision] >>]

\* The cancels of the engine, then its quotes.
Followed(r, d, result) ==
  LET engine == [r EXCEPT !.active = result.book]
      after  == IF result.cancels = << >> THEN engine
                ELSE Cancelled(engine, result.cancels[1].group)
  IN  IF result.quotes = << >> THEN after ELSE Judged(after, result.quotes[1],
                       EvaluateQuote(RiskInput(after, d, result.quotes[1])))

Engine(r, d, u, over) ==
  Followed(r, d, OnMarketUpdate(r.active, Effective(MarketMakingConfig(BaseConfig, input), over),
                                EngineInput(r, d, u)))

\* While a book is under quarantine the engine sees it as crossed or recovering, with both
\* sides disabled, so that it cancels what it has.
QuarantineOver == [external |-> 0, target |-> 0, min |-> 0, max |-> 0, half_spread |-> 0,
                   min_half_spread |-> 0, skew |-> 0, disable_bid |-> TRUE, disable_ask |-> TRUE]

\* momentum_bid_shutoff and dynamic_quote_runtime.
Shutoff(u) ==
  /\ input.momentum_bid_shutoff_enabled /\ u.oracle.enabled /\ ~ u.oracle.stale
  /\ u.oracle.has_spot /\ u.oracle.falling
ToxicBid(u) == u.oracle.enabled /\ ~ u.oracle.stale /\ u.oracle.toxic_bid
ToxicAsk(u) == u.oracle.enabled /\ ~ u.oracle.stale /\ u.oracle.toxic_ask

Over(u, fair) ==
  [external |-> fair, target |-> input.target_position_lots, min |-> input.min_inventory_lots,
   max |-> input.max_inventory_lots, half_spread |-> 0, min_half_spread |-> 0, skew |-> 0,
   disable_bid |-> input.pure_taker_mode \/ ToxicBid(u) \/ Shutoff(u),
   disable_ask |-> input.pure_taker_mode \/ ToxicAsk(u)]

-----------------------------------------------------------------------------
(* process_depth_update.                                                    *)

\* The purchase on a locked book, of the asset with the better edge.
LockedPurchase(r, u, fair) ==
  LET shut == Shutoff(u) \/ ToxicBid(u)
      yes  == LockedTaker(input, u.depth, "yes", fair, u.oracle, shut, Lots(r, "yes"))
      no   == IF u.complement = << >> THEN NoOpportunity("yes")
              ELSE LockedTaker(input, u.complement[1], "no", ComplementFair(fair), u.oracle,
                               shut, Lots(r, "no"))
  IN  TakerBuy(r, BetterTaker(yes, no), input.locked_book_taker_cooldown)

QuarantineDepth(d) ==
  IF LockedOrCrossed(d) THEN [d EXCEPT !.crossed = TRUE] ELSE [d EXCEPT !.recovering = TRUE]

YesReduced(r, u, fair) ==
  IF input.pure_taker_mode THEN UpdateReduce(r, "yes", << u.depth >>, fair) ELSE r

QuarantinedAfterTaker(r, u, fair) ==
  IF r.halted THEN r
  ELSE UpdateReduce(
         AfterComplementEvent(YesReduced(Engine(r, QuarantineDepth(u.depth), u, QuarantineOver),
                                         u, fair), u.complement),
         "no", u.complement, ComplementFair(fair))

Quarantined(r, u, fair) == QuarantinedAfterTaker(LockedPurchase(r, u, fair), u, fair)

\* The purchase on a macro signal.
MacroPurchase(r, u) ==
  LET books  == IF u.complement = << >> THEN [yes |-> u.depth]
                ELSE [yes |-> u.depth, no |-> u.complement[1]]
      assets == MacroAssets(input, r.macro, books, u.oracle)
      seen   == [r EXCEPT !.macro = MacroSeen(@, books, assets)]
      signal == MacroSignal(input, r.macro, books, assets)
  IN  IF signal = {} THEN seen
      ELSE LET a == CHOOSE x \in signal : TRUE
           IN  TakerBuy(seen, MacroTaker(input, books[a], a, MacroEdge(r.macro, books, a),
                                         Lots(r, a)),
                        input.macro_divergence_cooldown)

NormalAfterTaker(r, u, fair) ==
  IF r.halted THEN r
  ELSE Engine(UpdateReduce(YesReduced(r, u, fair), "no", u.complement, ComplementFair(fair)),
              u.depth, u, Over(u, fair))

Normal(r, u, fair) ==
  NormalAfterTaker(
    MacroPurchase(AfterComplementEvent(AfterMarketEvent(r, "yes", u.depth), u.complement), u),
    u, fair)

\* A locked or crossed book starts or extends the quarantine.
QuarantineUntil(r, u) ==
  IF LockedOrCrossed(u.depth) /\ input.book_quarantine > 0
  THEN Greater(r.quarantine_until, now + input.book_quarantine) ELSE r.quarantine_until

WithAverages(r, u) ==
  LET basis == IF LockedOrCrossed(u.depth) THEN r.basis
               ELSE BasisAfter(r.basis, input, u.fair, Mid(u.depth), now)
      fair  == WithBasis(basis, input, u.fair)
  IN  [r EXCEPT !.basis = basis,
                !.macro = MacroBasis(MacroFair(@, input, fair), input, u.depth, fair),
                !.quarantine_until = QuarantineUntil(r, u),
                !.judged = << >>]

Handled(r, u, fair) ==
  IF input.book_quarantine > 0 /\ r.quarantine_until > now
  THEN Quarantined(r, u, fair)
  ELSE Normal(r, u, fair)

ProcessDepthUpdate(r, u) == Handled(r, u, WithBasis(r.basis, input, u.fair))

-----------------------------------------------------------------------------
(* The state machine.                                                       *)

LoopInit ==
  /\ input \in DriverConfigs
  /\ now = 1000
  /\ rt = NewRuntime
  /\ count = 0

\* The age of a book is given with the update; its instant of reception follows.
Received(d) == [bids |-> d.bids, asks |-> d.asks, usable |-> d.usable,
                recovering |-> d.recovering, crossed |-> d.crossed, closed |-> d.closed,
                resolved |-> d.resolved, recv |-> now - d.age]

\* An update of a book that is usable, with its complement when that is usable too.
DepthUpdate(u, gap) ==
  /\ ~ rt.halted /\ count < MaxUpdates
  /\ u.depth.usable
  /\ \E arrived \in {[u EXCEPT !.depth = Received(@),
                                !.complement = [i \in DOMAIN @ |-> Received(@[i])]]} :
       \E ready \in {WithAverages(Seeded(rt, arrived.complement), arrived)} :
         rt' = ProcessDepthUpdate(ready, arrived)
  /\ now' = now + gap
  /\ count' = count + 1
  /\ UNCHANGED input

\* An update of a book that is not usable is not handled: what rests stays.
DropUpdate(u, gap) ==
  /\ ~ rt.halted /\ count < MaxUpdates
  /\ ~ u.depth.usable
  /\ now' = now + gap
  /\ count' = count + 1
  /\ UNCHANGED << input, rt >>

LoopNext == \E u \in Updates, gap \in Gaps : DepthUpdate(u, gap) \/ DropUpdate(u, gap)

LoopSpec == LoopInit /\ [][LoopNext]_loopVars

-----------------------------------------------------------------------------
(* Properties.                                                              *)

\* The resting quotes of an asset, and what is left of one of their sides.
Resting(group) == {i \in DOMAIN rt.book.quotes : rt.book.quotes[i].approved.group = group}
LeftOf(i, side) ==
  IF side \in DOMAIN rt.book.quotes[i].approved.legs
  THEN rt.book.quotes[i].approved.legs[side].lots - rt.book.quotes[i].filled[side] ELSE 0

StrategyGroup == QuoteGroup(BaseConfig, StrategyAsset)
LiveQuotes == {i \in Resting(StrategyGroup) : rt.book.quotes[i].approved.expires > now}
Untouched(i) == \A s \in QuoteSide : rt.book.quotes[i].filled[s] = 0

\* The engine and the adapter agree on the strategy's quote through fills, expiries,
\* rejections, cancels and quarantines: a live quote that nothing has filled is the one the
\* engine takes for active, and what the engine takes for active, until it expires, rests.
RestingIsTracked ==
  /\ \A i \in LiveQuotes : Untouched(i) =>
       /\ StrategyAsset \in DOMAIN rt.active
       /\ IntentHash(rt.active[StrategyAsset]) = rt.book.quotes[i].approved.hash
  /\ \A a \in DOMAIN rt.active : rt.active[a].expires > now =>
       IntentHash(rt.active[a]) \in DOMAIN rt.book.by_hash

\* The position after a leg of a quote is filled, and the legs that would carry it from one
\* side of the target to the other.
Filled(q, s) == Aggress(s, q.position, q.legs[s].lots)
PastTarget(q) ==
  {s \in DOMAIN q.legs : /\ Reduces(s, q.target, q.position)
                         /\ ~ Reduces(s, q.target, Filled(q, s)) /\ Filled(q, s) # q.target}

\* The strategy and quote risk size a side that reduces each for itself.  reduce_qty_cap lets
\* it go on to the other end of the inventory in a forced unwind, or when
\* reduce_only_quote_to_target is off; reducible_qty_lots stops at the target, except for a
\* forced ask, which may empty the position (min_inventory_lots is not negative here).
RiskStopsAtTarget(q) ==
  \E s \in PastTarget(q) :
    \/ q.type # "ForcedUnwind" /\ ~ input.reduce_only_quote_to_target
    \/ q.type = "ForcedUnwind" /\ s = "Bid"

\* Risk and the strategy disagree on nothing else: risk refuses as invalid only a quote that
\* goes past the target where risk stops at it, approves no such quote, and refuses none as
\* crossed, expired, too large or beyond the inventory limit.  Whatever is asked for, approved
\* or not, a bid that fills stays below the largest inventory and an ask above the smallest,
\* a side goes past the target only where reduce_qty_cap lets it, and an opening side is on
\* its own side of the fair value (QuoteEngine::build, QuoteRiskEvaluator::evaluate).
StrategyQuotesAreSound ==
  \A k \in DOMAIN rt.judged :
    LET q == rt.judged[k].quote  decision == rt.judged[k].decision
    IN  /\ decision \notin {"RejectCrossedBook", "RejectInventoryLimit", "RejectExposureLimit",
                             "RejectExpiredQuote", "RejectBookNotUsable"}
        /\ decision = "RejectInvalidQuote" => RiskStopsAtTarget(q)
        /\ decision = "Approve" => ~ RiskStopsAtTarget(q)
        /\ PastTarget(q) # {} =>
             q.type = "ForcedUnwind" \/ ~ input.reduce_only_quote_to_target
        /\ \A s \in DOMAIN q.legs :
             /\ IF s = "Bid" THEN Filled(q, s) <= input.max_inventory_lots
                ELSE Filled(q, s) >= input.min_inventory_lots
             /\ ~ q.legs[s].reducing => EdgeToFair(s, q.fair, q.legs[s].price) > 0

\* Whatever rests to sell is held: all the asks of an asset together never offer more than
\* the position, and a reducing ask never more than what lies above the target.  So no fill
\* of a resting ask is refused by the ledger, which is long only.
AsksAreCovered ==
  \A a \in {"yes", "no"} :
    LET Offered(group) == MapThenSumSet(LAMBDA i : LeftOf(i, "Ask"), Resting(group))
        reducing == Offered(ReduceGroup(a))
    IN  /\ reducing + (IF a = StrategyAsset THEN Offered(StrategyGroup) ELSE 0) <= Lots(rt, a)
        /\ reducing > 0 => reducing <= Lots(rt, a) - ReduceTarget(input)

\* The strategy's bid and the taker purchases each respect the largest inventory, but not
\* one another: a bid that rests when a purchase fills the room may still fill.  The
\* position exceeds the limit by at most what one quote offers to buy.
OvershootIsOneQuote ==
  LET offered == MapThenSumSet(LAMBDA i : LeftOf(i, "Bid"), Resting(StrategyGroup))
  IN  Lots(rt, "yes") + offered <= input.max_inventory_lots + input.quote_size_lots

\* What rests can be honoured: the asks from what is held, the bids within the largest inventory and
\* one quote (QuoteRiskEvaluator, the driver's reduce and taker rules).
InventoryIsBounded == AsksAreCovered /\ OvershootIsOneQuote
=============================================================================
