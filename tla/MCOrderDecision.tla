--------------------------- MODULE MCOrderDecision ---------------------------
(* Two assets; a bundle of one lot of the first and two of the second, and a      *)
(* bundle of the second alone.  Books of one, two and three levels.               *)
(*                                                                                *)
(* Beside the decisions, from one of the initial states, the pricing they rest on *)
(* is tried alone: ask sides grow level by level, some levels empty or without a  *)
(* valid price, and are priced in an integer type so narrow that depth and cost   *)
(* overflow it.                                                                   *)
EXTENDS OrderDecisionPaths

Level(price, size) == [price_tick |-> price, size |-> size]

MCAskSides ==
  { << Level(2, 2) >>, << Level(2, 4) >>, << Level(3, 4) >>, << Level(2, 3), Level(3, 1) >>,
    << Level(1, 1), Level(3, 2), Level(4, 1) >> }

PlanLeg(asset, market, ratio) == [asset_index |-> asset, market_id |-> market, side |-> "Buy", ratio |-> ratio]

MCPlans ==
  << [bundle_id |-> 1, bundle_hash |-> 11, oracle_artifact_hash |-> 7, constraint_hash |-> 8,
      guaranteed_payout_tick |-> 10, min_unit_edge_tick |-> 1, min_total_edge_tick |-> 1, min_edge_bps |-> 0,
      has_masks |-> FALSE, legs |-> << PlanLeg(1, "m1", 1), PlanLeg(2, "m2", 2) >>],
     [bundle_id |-> 2, bundle_hash |-> 12, oracle_artifact_hash |-> 7, constraint_hash |-> 8,
      guaranteed_payout_tick |-> 4, min_unit_edge_tick |-> 0, min_total_edge_tick |-> 0, min_edge_bps |-> 0,
      has_masks |-> TRUE, legs |-> << PlanLeg(2, "m2", 1) >>] >>

MCBundleOf ==
  [i \in DOMAIN MCPlans |->
     [bundle_id |-> MCPlans[i].bundle_id, guaranteed_payout_tick |-> MCPlans[i].guaranteed_payout_tick,
      legs |-> [k \in DOMAIN MCPlans[i].legs |->
                  [side |-> "Buy", quantity_lots |-> MCPlans[i].legs[k].ratio, max_price_tick |-> 0]]]]

MCPolicy(budget, exposure, margin, unit_edge, hashed) ==
  [risk_enabled |-> TRUE, kill_switch_enabled |-> FALSE, hashed |-> hashed, expected |-> TRUE,
   max_book_age_ns |-> 1, min_depth_margin_bps |-> margin, max_total_cost_tick |-> budget,
   max_total_exposure_tick |-> exposure, max_single_market_exposure_tick |-> 40,
   max_inventory_lots_per_asset |-> 8, min_post_risk_total_edge_tick |-> 1,
   min_post_risk_unit_edge_tick |-> unit_edge, min_edge_bps |-> 0]

Roomy == MCPolicy(100, 0, 10000, 1, TRUE)
Tight == MCPolicy(14, 16, 0, 0, TRUE)
Deep  == MCPolicy(0, 0, 15000, 1, TRUE)
MCBudgets == {7, 14}
MCMargins == {10000, 15000}

MCFastPath(mode) ==
  [mode |-> mode, enable_fixed_buy_kernel |-> TRUE, enable_simd |-> FALSE, samples |-> TRUE,
   max_mismatches_before_disable |-> 1,
   require_kernel_spec_hash_match |-> TRUE, require_artifact_hash_match |-> TRUE,
   require_policy_hash_match |-> TRUE]

MCPipeline(mode) ==
  [expected_artifact_hash |-> 7, expected_constraint_hash |-> 8, max_supported_legs |-> kMaxFixedShapeKernelLegs,
   fast_path |-> MCFastPath(mode), fast_path_enabled |-> FALSE, mode |-> "Disabled",
   periodic_sample_verification_enabled |-> TRUE, sample_verification_interval |-> 1]

\* The last one sets only the older fields of the pipeline.
MCConfigurations ==
  { [engine |-> DefaultOrderDecisionConfig, pipeline |-> MCPipeline("ShadowCompare"), policy |-> Roomy],
    [engine |-> [DefaultOrderDecisionConfig EXCEPT !.impl_mode = "FastFixedShape", !.fee_per_bundle_tick = 1,
                                                   !.fast_fixed_shape_fallback_to_generic = FALSE],
     pipeline |-> MCPipeline("VerifiedPaper"), policy |-> Tight],
    [engine |-> [DefaultOrderDecisionConfig EXCEPT !.max_bundle_qty = 3, !.price_protection_buffer_tick = 1],
     pipeline |-> [MCPipeline("Disabled") EXCEPT
                     !.fast_path.enable_fixed_buy_kernel = FALSE, !.fast_path_enabled = TRUE,
                     !.mode = "PaperAuthoritative"], policy |-> Deep] }

\* The exposure and the lots the ledger already holds of each market and asset.
MCLedger(total) == [total |-> total, market |-> [m \in 0 .. 1 |-> total], asset |-> [a \in 1 .. 2 |-> total]]
MCLedgers == {MCLedger(0), MCLedger(6)}

-----------------------------------------------------------------------------
CONSTANTS MaxLevels, Prices, Sizes, Quantities, NarrowMax, PartsOfLot

VARIABLE side   \* the ask side that is priced alone

Narrow == INSTANCE OrderDecision WITH MaxI64 <- NarrowMax, LotUnit <- PartsOfLot

AddLevel(price, size) ==
  /\ Len(side) < MaxLevels
  /\ \A i \in DOMAIN side : side[i].price_tick < price
  /\ side' = Append(side, Level(price, size))

Start ==
  /\ updates = 0 /\ calls = 0 /\ events = 0 /\ now = 1
  /\ policy = Deep /\ \A a \in AssetIndexes : books[a].asks = << Level(3, 4) >>

MCInit == Init /\ side = << >>
MCNext ==
  \/ side = << >> /\ Next /\ UNCHANGED side
  \/ Start /\ UNCHANGED vars /\ \E price \in Prices, size \in Sizes : AddLevel(price, size)
MCSpec == MCInit /\ [][MCNext]_<< vars, side >>

\* The depth and the cost of filling the quantity by taking take[i] lots of level i.
TotalDepth == SumOf([i \in DOMAIN side |-> Narrow!Available(side[i])])
FillCost(take) == SumOf([i \in DOMAIN side |-> side[i].price_tick * take[i]])
Fills(qty) ==
  {take \in [DOMAIN side -> 0 .. qty] :
     /\ \A i \in DOMAIN side : take[i] <= Narrow!Available(side[i])
     /\ SumOf(take) = qty}

\* The walk of buy_vwap_linear finds the cheapest way to buy the quantity and reports all of the
\* depth, and it succeeds exactly when that depth and its cost fit the integer type.  The look-up of
\* buy_vwap_prefix in the precomputed sums gives the same answer; only the walk gives up when the
\* depth behind the filled levels overflows.  The optimiser's cost curve, looked up or walked from
\* where a smaller quantity left off, gives the same cost and the same worst price.
PricedAtTheCheapest ==
  side # << >> => \A qty \in Quantities :
    LET linear == Narrow!BuyVwapLinear(side, qty)
        prefix == Narrow!BuyVwapPrefix(side, qty)
        curve  == Narrow!CostCurve(side)
        looked == Narrow!CostForQuantity(curve, qty)
        walked == {Narrow!AdvanceLeg(curve, Narrow!AdvanceLeg(curve, InitialLeg, less), qty) : less \in 0 .. qty}
    IN  /\ linear.ok => /\ prefix = linear
                        /\ looked.ok /\ looked.total_cost_tick = linear.total_cost_tick
                        /\ \A leg \in walked : /\ leg.qty = qty /\ leg.cost = looked.total_cost_tick
                                              /\ leg.worst = looked.worst_price_tick
                        /\ linear.executable_qty_lots = TotalDepth
                        /\ \E take \in Fills(qty) : FillCost(take) = linear.total_cost_tick
                        /\ \A take \in Fills(qty) : FillCost(take) >= linear.total_cost_tick
        /\ ~ linear.ok => \/ TotalDepth < qty
                          \/ TotalDepth > NarrowMax
                          \/ \A take \in Fills(qty) : FillCost(take) > NarrowMax
        /\ prefix.ok /\ ~ linear.ok => TotalDepth > NarrowMax
        /\ ~ prefix.ok /\ TotalDepth <= NarrowMax => ~ linear.ok
=============================================================================
