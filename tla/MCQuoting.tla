------------------------------ MODULE MCQuoting ------------------------------
(***************************************************************************)
(* Prices in cents (PriceOne = 100) around 50, positions of a few lots.    *)
(* Eight configurations: a maker whose quotes are filled by crossing       *)
(* books, one that trades no more than a lot at a time, one that buys on   *)
(* macro signals and locked books while it keeps its quotes through a      *)
(* cooldown, a queue-aware one with a complement, a pure taker, one that   *)
(* starts from a complete set and unwinds early, one that starts empty     *)
(* below its target, and one whose reducing quotes may go past it.         *)
(***************************************************************************)
EXTENDS QuotingLoop

\* The exponential ramp of tte_multiplier; the instance has no expiry.
MCTteCurve(n, d) == << n, d >>

MCBase ==
  [strategy_id |-> 101, min_price_tick |-> 1, max_price_tick |-> 99,
   min_half_spread_tick |-> 2, fee_buffer_tick |-> 0, latency_buffer_tick |-> 0,
   volatility_buffer_tick |-> 0, liquidity_buffer_tick |-> 0, uncertainty_buffer_tick |-> 0,
   max_inventory_skew_tick |-> 4, inventory_skew_nonlinear_start |-> << 1, 1 >>,
   inventory_skew_exponent |-> 1, tte_skew_start |-> 0, tte_puke_start |-> 0,
   tte_max_skew_multiplier |-> 1, target_position_lots |-> 0, min_inventory_lots |-> 0,
   max_inventory_lots |-> 4, base_quote_size_lots |-> 2, min_quote_edge_tick |-> 0,
   adverse_selection_buffer_tick |-> 0, min_top_depth_lots |-> 1, min_total_depth_lots |-> 1,
   max_book_spread_tick |-> 0, max_book_spread_bps |-> 0, min_fair_confidence_bps |-> 5000,
   fair_mid_weight_bps |-> 4000, fair_microprice_weight_bps |-> 4000,
   fair_vwap_weight_bps |-> 2000, fair_vwap_lots |-> 2, complement_fair_weight_bps |-> 0,
   external_fair_value_tick |-> 0, external_fair_weight_bps |-> 0,
   require_external_fair_for_opening_quotes |-> FALSE, max_quote_size_multiplier_bps |-> 20000,
   passive_unwind_position_bps |-> 7000, forced_unwind_position_bps |-> 9000,
   passive_unwind_aggression_tick |-> 0, passive_reduce_excess_lots |-> 20,
   urgent_reduce_excess_lots |-> 50, passive_reduce_join_tick |-> 1,
   urgent_unwind_aggression_tick |-> 0, reduce_only_quote_to_target |-> TRUE,
   reward_aware_quotes_enabled |-> FALSE, reward_min_size_lots_floor |-> 0,
   reward_max_spread_tick_buffer |-> 0, reward_allow_unwind_exemption |-> TRUE,
   quote_ttl |-> 5000, requote_threshold_tick |-> 1, min_quote_price_change_tick |-> 0,
   min_requote_interval |-> 0, inventory_requote_threshold_lots |-> 1, max_book_age |-> 1000,
   enable_bid_quotes |-> TRUE, enable_ask_quotes |-> TRUE]

Crossing ==
  [fill_mode |-> "BookCross", queue_min_rest |-> 0, max_fill_qty_per_trade |-> 10,
   half_spread_tick |-> 2, quote_size_lots |-> 2, inventory_skew_tick |-> 4,
   inventory_skew_nonlinear_start |-> << 1, 5 >>, inventory_skew_exponent |-> 2,
   target_position_lots |-> 0, min_inventory_lots |-> 0, max_inventory_lots |-> 4,
   initial_position_lots |-> 0, initial_position_price_tick |-> 0, seed_complete_set |-> FALSE,
   pure_taker_mode |-> FALSE, min_quote_edge_tick |-> 0, latency_buffer_tick |-> 0,
   adverse_selection_buffer_tick |-> 0, book_quarantine |-> 75,
   fair_basis_smoothing_enabled |-> FALSE, fair_basis_seed_tick |-> 0,
   fair_basis_ewma_alpha |-> << 1, 2 >>, fair_basis_update_interval |-> 1000,
   fair_basis_min_tick |-> -10, fair_basis_max_tick |-> 10,
   macro_divergence_taker_enabled |-> FALSE, macro_divergence_ewma_alpha |-> << 1, 2 >>,
   basis_ewma_alpha |-> << 1, 2 >>, macro_shock_min_edge_tick |-> 2,
   max_allowed_spread_tick |-> 6, max_allowed_basis_tick |-> 30,
   macro_divergence_cooldown |-> 400, macro_divergence_taker_size_lots |-> 2,
   max_taker_fills_per_minute |-> 2, taker_max_entry_mid_slippage_tick |-> 2,
   locked_book_taker_hunter_enabled |-> FALSE, locked_book_taker_min_edge_tick |-> 1,
   locked_book_taker_cooldown |-> 250, locked_book_taker_size_lots |-> 5,
   momentum_bid_shutoff_enabled |-> TRUE, min_book_spread_tick |-> 2,
   max_book_spread_tick |-> 0, max_book_spread_bps |-> 0,
   max_quote_fair_deviation_tick |-> 9, max_quote_fair_deviation_bps |-> 0,
   portfolio_touch_risk_enabled |-> TRUE, sol_external_fair_enabled |-> TRUE,
   complement_fair_weight_bps |-> 0,
   external_fair_weight_bps |-> 0, require_external_fair_for_opening_quotes |-> FALSE,
   passive_unwind_position_bps |-> 7000, forced_unwind_position_bps |-> 9000,
   passive_reduce_excess_lots |-> 0, urgent_reduce_excess_lots |-> 50,
   passive_reduce_join_tick |-> 1, urgent_unwind_aggression_tick |-> 1,
   puke_reduce_age |-> 2000, urgent_reduce_age |-> 400, urgent_reduce_pressure_bps |-> 5000,
   puke_reduce_pressure_bps |-> 9000, reduce_only_quote_to_target |-> TRUE,
   min_requote_interval |-> 0]

LotByLot == [Crossing EXCEPT !.max_fill_qty_per_trade = 1,
               !.locked_book_taker_hunter_enabled = TRUE, !.external_fair_weight_bps = 10000]

Hunting == [Crossing EXCEPT !.macro_divergence_taker_enabled = TRUE,
              !.locked_book_taker_hunter_enabled = TRUE, !.min_requote_interval = 200,
              !.initial_position_lots = 2, !.initial_position_price_tick = 50]

Queued == [Crossing EXCEPT !.fill_mode = "QueueAware", !.max_fill_qty_per_trade = 1,
             !.queue_min_rest = 100,
             !.complement_fair_weight_bps = 5000, !.fair_basis_smoothing_enabled = TRUE,
             !.external_fair_weight_bps = 10000, !.min_requote_interval = 200,
             !.require_external_fair_for_opening_quotes = TRUE]

PureTaker == [Crossing EXCEPT !.pure_taker_mode = TRUE, !.macro_divergence_taker_enabled = TRUE,
                !.locked_book_taker_hunter_enabled = TRUE]

CompleteSet == [Crossing EXCEPT !.initial_position_lots = 3, !.initial_position_price_tick = 50,
                  !.seed_complete_set = TRUE, !.target_position_lots = 1,
                  !.passive_reduce_excess_lots = 1, !.urgent_reduce_excess_lots = 2,
                  !.forced_unwind_position_bps = 0]

Targeted == [Crossing EXCEPT !.target_position_lots = 2]

PastItsTarget == [Targeted EXCEPT !.initial_position_lots = 3,
                    !.initial_position_price_tick = 50, !.inventory_skew_tick = 2,
                    !.reduce_only_quote_to_target = FALSE]

MCConfigs ==
  {Crossing, LotByLot, Hunting, Queued, PureTaker, CompleteSet, Targeted, PastItsTarget}

Levels(price, lots) == << [price_tick |-> price, size |-> lots * LotUnit] >>

Book(bid, ask, lots) ==
  [bids |-> Levels(bid, lots), asks |-> Levels(ask, lots), usable |-> TRUE,
   recovering |-> FALSE, crossed |-> FALSE, closed |-> FALSE, resolved |-> FALSE, age |-> 0]

Calm == [enabled |-> TRUE, stale |-> FALSE, has_spot |-> TRUE, toxic_bid |-> FALSE,
         toxic_ask |-> FALSE, falling |-> FALSE]

Update(depth, complement, fair, oracle) ==
  [depth |-> depth, complement |-> complement, fair |-> fair, oracle |-> oracle]

\* A calm market, one that has fallen through the bid while
\* the outside value has not, one that has risen through the ask,
\* a locked book, a thin book under a toxic flow, a falling spot, a stale oracle on an old
\* book, a book without bids and a book that is not usable.
MCUpdates ==
  {Update(Book(48, 52, 3), << >>, 50, Calm),
   Update(Book(48, 52, 3), << Book(48, 52, 2) >>, 51, Calm),
   Update(Book(44, 46, 1), << Book(53, 55, 2) >>, 50, Calm),
   Update(Book(55, 57, 1), << Book(42, 44, 2) >>, 54, Calm),
   Update(Book(47, 47, 3), << Book(50, 50, 2) >>, 50, Calm),
   Update(Book(48, 52, 3), << >>, 50, [Calm EXCEPT !.toxic_ask = TRUE]),
   Update(Book(47, 49, 2), << >>, 0, [Calm EXCEPT !.falling = TRUE]),
   Update([Book(48, 52, 3) EXCEPT !.age = 1500], << >>, 50, [Calm EXCEPT !.stale = TRUE]),
   Update([Book(48, 50, 2) EXCEPT !.bids = << >>], << >>, 49, Calm),
   Update([Book(51, 49, 2) EXCEPT !.usable = FALSE, !.crossed = TRUE], << >>, 50, Calm)}

MCGaps == {50, 300}
=============================================================================
