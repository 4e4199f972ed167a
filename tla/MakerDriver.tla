----------------------------- MODULE MakerDriver -----------------------------
(***************************************************************************)
(* What the live market making driver                                      *)
(* (tools/run_market_maker_dashboard_live.cpp) computes around the         *)
(* strategy: the configurations it derives, the two kinds of taker         *)
(* purchase it makes, and the ask it rests to bring a position down.       *)
(* input is the driver's Config, a record; averages are fractions, written *)
(* as pairs, and a smoothing factor alpha is one too.                      *)
(***************************************************************************)
EXTENDS Quoting

\* midpoint_tick: zero without both sides.
Mid(d) == IF TopPrice(d.bids) <= 0 \/ TopPrice(d.asks) <= 0 THEN 0 ELSE Midpoint(d)

LockedOrCrossed(d) ==
  \/ d.crossed
  \/ /\ TopPrice(d.bids) > 0 /\ TopPrice(d.asks) > 0
     /\ TopPrice(d.bids) >= TopPrice(d.asks)

ComplementFair(fair) == IF fair <= 0 \/ fair >= PriceOne THEN 0 ELSE PriceOne - fair

-----------------------------------------------------------------------------
(* The configurations of the strategy and of quote risk.  base holds the    *)
(* fields of MarketMakingConfig that have their default or are copied as    *)
(* they are.  Time is in milliseconds.                                      *)

\* market_making_config: a pure taker neither skews nor unwinds.
MarketMakingConfig(base, input) ==
  LET pure == input.pure_taker_mode
  IN  [base EXCEPT
         !.min_half_spread_tick = input.half_spread_tick,
         !.max_inventory_skew_tick = IF pure THEN 0 ELSE input.inventory_skew_tick,
         !.inventory_skew_nonlinear_start =
            IF pure THEN << 1, 1 >> ELSE input.inventory_skew_nonlinear_start,
         !.inventory_skew_exponent = IF pure THEN 1 ELSE input.inventory_skew_exponent,
         !.target_position_lots = input.target_position_lots,
         !.min_inventory_lots = input.min_inventory_lots,
         !.max_inventory_lots = input.max_inventory_lots,
         !.base_quote_size_lots = input.quote_size_lots,
         !.min_quote_edge_tick = input.min_quote_edge_tick,
         !.latency_buffer_tick = input.latency_buffer_tick,
         !.adverse_selection_buffer_tick = input.adverse_selection_buffer_tick,
         !.max_book_spread_tick = input.max_book_spread_tick,
         !.max_book_spread_bps = input.max_book_spread_bps,
         !.complement_fair_weight_bps = input.complement_fair_weight_bps,
         !.external_fair_weight_bps = input.external_fair_weight_bps,
         !.require_external_fair_for_opening_quotes =
            input.require_external_fair_for_opening_quotes,
         !.passive_unwind_position_bps = IF pure THEN 0 ELSE input.passive_unwind_position_bps,
         !.forced_unwind_position_bps = IF pure THEN 0 ELSE input.forced_unwind_position_bps,
         !.passive_reduce_excess_lots = IF pure THEN 0 ELSE input.passive_reduce_excess_lots,
         !.urgent_reduce_excess_lots = IF pure THEN 0 ELSE input.urgent_reduce_excess_lots,
         !.passive_reduce_join_tick =
            IF pure THEN Greater(1, input.passive_reduce_join_tick)
            ELSE input.passive_reduce_join_tick,
         !.urgent_unwind_aggression_tick =
            IF pure THEN 0 ELSE input.urgent_unwind_aggression_tick,
         !.reduce_only_quote_to_target = input.reduce_only_quote_to_target,
         !.min_requote_interval = input.min_requote_interval]

\* quote_risk_policy.
QuoteRiskPolicy(input) ==
  [quote_kill_switch_enabled |-> FALSE, max_quote_qty_lots |-> input.quote_size_lots,
   max_quote_notional_tick |-> Greater(1, input.quote_size_lots * PriceOne * 2),
   max_asset_inventory_lots |-> input.max_inventory_lots,
   min_edge_to_fair_tick |-> -(PriceOne \div 20),
   min_book_spread_tick |-> input.min_book_spread_tick,
   max_book_spread_tick |-> input.max_book_spread_tick,
   max_book_spread_bps |-> input.max_book_spread_bps,
   max_quote_fair_deviation_tick |-> input.max_quote_fair_deviation_tick,
   max_quote_fair_deviation_bps |-> input.max_quote_fair_deviation_bps,
   max_canonical_yes_exposure_lots |-> input.max_inventory_lots,
   max_portfolio_touch_exposure_lots |->
      IF input.portfolio_touch_risk_enabled THEN input.max_inventory_lots * 2 ELSE 0,
   max_spot_age |-> 1500, max_vol_age |-> 60000,
   min_external_confidence_bps |-> IF input.sol_external_fair_enabled THEN 1 ELSE 0,
   max_book_age |-> 1000,
   min_replace_interval |-> input.min_requote_interval, max_active_quotes_per_asset |-> 2,
   allow_bid_quotes |-> TRUE, allow_ask_quotes |-> TRUE,
   reward_eligibility_required |-> FALSE, reward_max_spread_tick |-> 0,
   reward_min_quote_size_lots |-> 0, allow_reward_exemption_for_reduce_only |-> TRUE]

\* execution_config.
ExecutionConfig(input) ==
  [mode |-> input.fill_mode, allow_partial_fills |-> TRUE,
   max_fill_qty_per_trade |-> input.max_fill_qty_per_trade,
   queue_min_rest |-> input.queue_min_rest]

-----------------------------------------------------------------------------
(* The running averages: the basis of the external fair value, the slow     *)
(* fair value and the slow basis of the macro signal.                       *)

\* alpha * x + (1 - alpha) * y, for a fraction y.
Smoothed(alpha, x, y) ==
  << alpha[1] * x * y[2] + (alpha[2] - alpha[1]) * y[1], alpha[2] * y[2] >>

BasisSeed(input) ==
  ClampTick(input.fair_basis_seed_tick, input.fair_basis_min_tick, input.fair_basis_max_tick)

\* The basis a RuntimeState is constructed with.
NewBasis(input) ==
  IF input.fair_basis_smoothing_enabled
  THEN [tick |-> BasisSeed(input), initialized |-> TRUE, updated |-> 0]
  ELSE [tick |-> 0, initialized |-> FALSE, updated |-> 0]

\* The state update_basis_and_apply leaves: a basis that a missing value has reset is seeded
\* anew, an observation counts at most once an interval.
BasisAfter(basis, input, raw, mid, now) ==
  LET Bound(x) == ClampTick(x, input.fair_basis_min_tick, input.fair_basis_max_tick)
      seeded   == IF basis.initialized THEN basis
                  ELSE [basis EXCEPT !.tick = BasisSeed(input), !.initialized = TRUE]
      due      == \/ basis.updated = 0 \/ input.fair_basis_update_interval = 0
                  \/ now >= basis.updated + input.fair_basis_update_interval
      mean     == Smoothed(input.fair_basis_ewma_alpha, Bound(mid - raw), << seeded.tick, 1 >>)
  IN  IF ~ input.fair_basis_smoothing_enabled \/ raw <= 0
      THEN [basis EXCEPT !.tick = 0, !.initialized = FALSE]
      ELSE IF mid > 0 /\ due
      THEN [seeded EXCEPT !.tick = Bound(RoundDiv(mean[1], mean[2])), !.updated = now]
      ELSE seeded

\* apply_existing_basis.
WithBasis(basis, input, raw) ==
  IF ~ input.fair_basis_smoothing_enabled \/ raw <= 0 THEN raw
  ELSE ClampTick(raw + basis.tick, 1, PriceOne - 1)

NoMacro == [fair |-> 0, fair_set |-> FALSE, basis |-> << 0, 1 >>, basis_set |-> FALSE,
            edge |-> [yes |-> 0, no |-> 0]]

\* update_ewma_fair.
MacroFair(macro, input, fair) ==
  LET mean == Smoothed(input.macro_divergence_ewma_alpha, fair, << macro.fair, 1 >>)
  IN  IF ~ input.macro_divergence_taker_enabled \/ fair <= 0 THEN macro
      ELSE IF ~ macro.fair_set THEN [macro EXCEPT !.fair = fair, !.fair_set = TRUE]
      ELSE [macro EXCEPT !.fair = ClampTick(RoundDiv(mean[1], mean[2]), 1, PriceOne - 1)]

\* update_ewma_basis_yes: only a book that is not locked and not too wide counts.
MacroBasis(macro, input, d, fair) ==
  LET spread  == TopPrice(d.asks) - TopPrice(d.bids)
      instant == Midpoint(d) - fair
  IN  IF \/ ~ input.macro_divergence_taker_enabled \/ fair <= 0
         \/ Mid(d) = 0 \/ spread <= 0 \/ Exceeds(spread, input.max_allowed_spread_tick)
      THEN macro
      ELSE IF ~ macro.basis_set
      THEN [macro EXCEPT !.basis = << instant, 1 >>, !.basis_set = TRUE]
      ELSE [macro EXCEPT !.basis = Smoothed(input.basis_ewma_alpha, instant, @)]

-----------------------------------------------------------------------------
(* Taker purchases.  An opportunity is [active, blocked, asset, edge,       *)
(* price, lots]; blocked means that only the entry filter stopped it.       *)

NoOpportunity(asset) ==
  [active |-> FALSE, blocked |-> FALSE, asset |-> asset, edge |-> 0, price |-> 0, lots |-> 0]

\* effective_locked_book_taker_min_edge_tick.
LockedMinEdge(input) ==
  Greater(input.locked_book_taker_min_edge_tick,
          input.min_quote_edge_tick + input.adverse_selection_buffer_tick
            + input.latency_buffer_tick)

\* What a purchase may take: its size, the most one trade fills, what is offered, and the
\* room below the largest inventory.
TakerLots(input, d, size, position) ==
  Lesser(Lesser(size, input.max_fill_qty_per_trade),
         Lesser(TopLots(d.asks), Greater(0, input.max_inventory_lots - position)))

\* apply_taker_entry_mid_filter, and the quantity.
Entry(input, d, asset, edge, size, position) ==
  LET price   == TopPrice(d.asks)
      blocked == /\ input.taker_max_entry_mid_slippage_tick >= 0
                 /\ \/ Mid(d) <= 0
                    \/ price - Mid(d) > input.taker_max_entry_mid_slippage_tick
  IN  [active |-> ~ blocked, blocked |-> blocked, asset |-> asset, edge |-> edge,
       price |-> price,
       lots |-> IF blocked THEN 0 ELSE TakerLots(input, d, size, position)]

\* evaluate_locked_book_taker_buy_for_asset.  The oracle is [enabled, stale, has_spot,
\* toxic_bid, toxic_ask, falling].
LockedTaker(input, d, asset, fair, oracle, shut, position) ==
  LET edge == fair - TopPrice(d.asks)
  IN  IF \/ ~ input.locked_book_taker_hunter_enabled \/ ~ LockedOrCrossed(d)
         \/ oracle.stale \/ ~ oracle.has_spot \/ shut \/ fair <= 0
         \/ TopPrice(d.asks) <= 0 \/ edge < LockedMinEdge(input)
      THEN NoOpportunity(asset)
      ELSE Entry(input, d, asset, edge, input.locked_book_taker_size_lots, position)

\* better_taker_opportunity.
BetterTaker(a, b) ==
  IF ~ a.active /\ ~ a.blocked THEN b
  ELSE IF ~ b.active /\ ~ b.blocked THEN a
  ELSE IF b.edge > a.edge THEN b ELSE a

\* The slow fair value of each asset, corrected by the slow basis.
MacroAdjusted(macro, asset) ==
  LET basis == RoundDiv(macro.basis[1], macro.basis[2])
  IN  ClampTick(IF asset = "yes" THEN macro.fair + basis ELSE ComplementFair(macro.fair) - basis,
                1, PriceOne - 1)

\* The assets evaluate_lead_lag_sniping looks at: none while the signal is blocked.  books
\* maps the assets that have one to their books.
MacroAssets(input, macro, books, oracle) ==
  IF \/ ~ input.macro_divergence_taker_enabled \/ oracle.stale \/ ~ oracle.has_spot
     \/ macro.fair <= 0 \/ ~ macro.basis_set
     \/ Exceeds(Magnitude(macro.basis[1]) \div macro.basis[2], input.max_allowed_basis_tick)
  THEN {}
  ELSE {a \in DOMAIN books : TopPrice(books[a].asks) > 0}

MacroEdge(macro, books, a) == MacroAdjusted(macro, a) - TopPrice(books[a].asks)

\* evaluate_lead_lag_sniping: the edges it remembers, and the signal, an asset whose edge
\* has just risen to the minimum (the better of two, "yes" on a tie) or none.
MacroSeen(macro, books, assets) ==
  [macro EXCEPT !.edge =
     [a \in DOMAIN @ |-> IF a \in assets THEN MacroEdge(macro, books, a) ELSE @[a]]]

MacroSignal(input, macro, books, assets) ==
  LET risen == {a \in assets : /\ MacroEdge(macro, books, a) >= input.macro_shock_min_edge_tick
                               /\ macro.edge[a] < input.macro_shock_min_edge_tick}
  IN  IF risen = {"yes", "no"}
      THEN IF MacroEdge(macro, books, "no") > MacroEdge(macro, books, "yes") THEN {"no"}
           ELSE {"yes"}
      ELSE risen

\* evaluate_lead_lag_taker_buy.
MacroTaker(input, d, asset, edge, position) ==
  Entry(input, d, asset, edge, input.macro_divergence_taker_size_lots, position)

-----------------------------------------------------------------------------
(* The ask that brings a position down.                                     *)

ReduceTarget(input) ==
  IF input.reduce_only_quote_to_target THEN input.target_position_lots
  ELSE input.min_inventory_lots

ReducePressureBps(input, excess) ==
  ClampTick((excess * 10000) \div Greater(1, input.max_inventory_lots - ReduceTarget(input)),
            0, 10000)

ReduceExitStage(input, excess, age) ==
  LET pressure == ReducePressureBps(input, excess)
      Reached(value, limit) == limit > 0 /\ value >= limit
  IN  IF excess <= 0 \/ excess < input.passive_reduce_excess_lots THEN "None"
      ELSE IF \/ Reached(age, input.puke_reduce_age)
              \/ Reached(pressure, input.puke_reduce_pressure_bps) THEN "Puke"
      ELSE IF \/ Reached(excess, input.urgent_reduce_excess_lots)
              \/ Reached(age, input.urgent_reduce_age)
              \/ Reached(pressure, input.urgent_reduce_pressure_bps) THEN "Urgent"
      ELSE "Passive"

\* reduce_exit_price_tick, for a book with an ask; stage "None" is priced like "Urgent".
ReduceExitPrice(input, d, stage, age) ==
  LET join    == Greater(1, input.passive_reduce_join_tick)
      passive == Greater(1, TopPrice(d.asks) - join)
      extra   == Lesser(age \div 1000, 60) * join
      floor   == Lesser(TopPrice(d.asks) - 1, TopPrice(d.bids) + join)
  IN  IF stage = "Passive" \/ TopPrice(d.bids) <= 0 THEN passive
      ELSE IF stage = "Puke"
      THEN ClampTick(TopPrice(d.bids) - input.urgent_unwind_aggression_tick, 1, PriceOne - 1)
      ELSE ClampTick(Greater(floor, Lesser(passive, Mid(d) - extra)), 1, PriceOne - 1)

\* Faulty variant: the ask is not limited by what is held above the target.
ReduceLotsAny(input, stage, excess) ==
  Greater(1, IF stage = "Passive" THEN input.quote_size_lots ELSE input.max_fill_qty_per_trade)

ReduceLots(input, stage, excess) ==
  Lesser(Greater(1, IF stage = "Passive" THEN input.quote_size_lots
                    ELSE input.max_fill_qty_per_trade),
         Lesser(Greater(1, input.max_fill_qty_per_trade), excess))

ReduceGroup(asset) == << "reduce", asset >>

\* make_reduce_ask_quote, for a position above the target and a book with an ask.  The
\* hash takes in the version of the book, here the book itself.
ReduceQuote(input, d, asset, position, fair, since, now) ==
  LET excess == position - ReduceTarget(input)
      stage  == ReduceExitStage(input, excess, now - since)
      leg    == QuoteLeg(ReduceExitPrice(input, d, stage, now - since),
                         ReduceLots(input, stage, excess), TRUE)
      value  == IF fair > 0 THEN fair ELSE Mid(d)
  IN  [id |-> << ReduceGroup(asset), leg, value, d, now >>, group |-> ReduceGroup(asset),
       hash |-> << ReduceGroup(asset), leg, value, d >>, asset |-> asset,
       legs |-> [Ask |-> leg], expires |-> now + 250]
=============================================================================
