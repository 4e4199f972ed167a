------------------------ MODULE MCExecutionGateway ------------------------
(***************************************************************************)
(* Instance of ExecutionGateway with two assets.  A pair of legs and a     *)
(* sized purchase are submitted, once or again, with books that fill them, *)
(* fill a part, offer lots above the limit only, or are missing; a late    *)
(* envelope passes the planner and not the validator, another fails in the *)
(* planner.                                                                *)
(***************************************************************************)
EXTENDS PaperTrading, TLC

CONSTANTS a1, a2

Leg(a, lots, price) ==
  [asset_id |-> a, side |-> "Buy", quantity_lots |-> lots, price_tick |-> price]

Pair ==
  [kind |-> "intent", source_intent_id |-> 1, decision_id |-> 1, reservation_id |-> 1,
   reservation_id_hash |-> 1, paper_opportunity |-> TRUE, identities_match |-> TRUE,
   approved |-> TRUE, hashes_match |-> TRUE, expires_at_ns |-> 3, approved_bundle_qty |-> 2,
   legs |-> << Leg(a1, 1, 3), Leg(a2, 1, 3) >>, estimated_cost_tick |-> 12,
   slippage_buffer_tick |-> 0, idempotency_key |-> "k1"]

Purchase ==
  [Pair EXCEPT !.kind = "decision", !.source_intent_id = 2, !.decision_id = 2,
               !.reservation_id = 2, !.reservation_id_hash = 2,
               !.legs = << Leg(a1, 3, 3) >>, !.idempotency_key = "k2"]

\* The purchase with hashes that do not match, and the pair with a long time to live.
Mismatched == [Purchase EXCEPT !.source_intent_id = 3, !.hashes_match = FALSE]
LongLived == [Pair EXCEPT !.source_intent_id = 4, !.expires_at_ns = 9]

MCEnvelopes == {Pair, Purchase, Mismatched, LongLived}

Level(price, size) == [price_tick |-> price, size |-> size]

Book(asks) == [found |-> TRUE, usable_for_depth |-> TRUE, asks |-> asks]
Missing == [found |-> FALSE, usable_for_depth |-> FALSE, asks |-> << >>]

\* Sizes are in halves of a lot.
Deep == Book(<< Level(2, 3), Level(3, 9) >>)
Thin == Book(<< Level(2, 3), Level(5, 9) >>)

MCBookViews == {a1 :> x @@ a2 :> y : x \in {Deep, Thin, Missing}, y \in {Deep, Missing}}

Paper ==
  [mode |-> "Paper", paper_mode |-> "PaperAtomic", allow_partial_fill_paper |-> FALSE,
   max_child_orders_per_plan |-> 2, max_order_age_ns |-> 5, hot_path_trust_hashes |-> FALSE,
   hot_path_skip_order_strings |-> FALSE, hot_path_skip_plan_validation |-> FALSE,
   live_enabled |-> FALSE, allow_buy_orders |-> TRUE, max_child_notional_tick |-> 0,
   live_max_child_orders |-> 2]

Sequential == [Paper EXCEPT !.paper_mode = "PaperSequential"]

PaperConfigs ==
  {Paper, Sequential, [Sequential EXCEPT !.allow_partial_fill_paper = TRUE],
   [Paper EXCEPT !.hot_path_trust_hashes = TRUE, !.hot_path_skip_order_strings = TRUE,
                 !.hot_path_skip_plan_validation = TRUE],
   [Paper EXCEPT !.mode = "Sandbox"]}

Live == [Paper EXCEPT !.mode = "Live", !.live_enabled = TRUE]

LiveConfigs ==
  {Live, [Live EXCEPT !.live_enabled = FALSE], [Live EXCEPT !.max_child_notional_tick = 8],
   [Live EXCEPT !.live_max_child_orders = 1]}

MCConfigs == PaperConfigs \cup LiveConfigs

MCAssetIndex == a1 :> 0 @@ a2 :> 1

\* A book with both sides, one that may not be used, and one without bids.
MCMarkPrices ==
  {[bid |-> 2, ask |-> 4, usable |-> TRUE], [bid |-> 5, ask |-> 7, usable |-> FALSE],
   [bid |-> 0, ask |-> 4, usable |-> TRUE]}
=============================================================================
