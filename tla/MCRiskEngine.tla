---------------------------- MODULE MCRiskEngine ----------------------------
(***************************************************************************)
(* Instance of RiskEngine with two assets on two markets.  The signals are *)
(* a pair of legs and a purchase of two lots on the first asset, whose     *)
(* second book is cheaper for one lot and dearer for two; either may be    *)
(* offered again.  One decision sizes the purchase, another was made under *)
(* a different policy.                                                     *)
(***************************************************************************)
EXTENDS RiskEngine, TLC

CONSTANTS a1, a2, m1, m2

Level(price, lots) == [price_tick |-> price, size |-> lots]

MCAskBooks == a1 :> << << Level(3, 4) >>, << Level(2, 1), Level(5, 3) >> >>
           @@ a2 :> << << Level(4, 3) >> >>

Leg(a, m, lots, depth, cost) ==
  [asset_id |-> a, market_id |-> m, side |-> "Buy", quantity_lots |-> lots,
   requested_qty_lots |-> lots, executable_qty_lots |-> depth,
   depth_margin_bps |-> (depth * 10000) \div lots, enough_depth |-> depth >= lots,
   estimated_cost_tick |-> cost]

Signal(hash, bundle, cost, payout, created, expires, legs, versions) ==
  [idempotency_hash |-> hash, idempotency_key |-> "none", bundle_id |-> bundle,
   paper_opportunity |-> TRUE, hashes_present |-> TRUE,
   bundle_qty |-> 1, original_bundle_qty |-> 1,
   estimated_cost_tick |-> cost, guaranteed_payout_tick |-> payout,
   total_edge_tick |-> payout - cost,
   estimated_fee_tick |-> 0, slippage_buffer_tick |-> 0, latency_buffer_tick |-> 0,
   created_ts_ns |-> created, expires_at_ns |-> expires, legs |-> legs,
   priced_versions |-> versions, snapshot_version |-> 1]

Pair ==
  Signal(1, 1, 7, 10, 1, 3, << Leg(a1, m1, 1, 4, 3), Leg(a2, m2, 1, 3, 4) >>, << 1, 1 >>)
Purchase == Signal(2, 2, 6, 8, 1, 4, << Leg(a1, m1, 2, 4, 6) >>, << 1 >>)

MCSignals == {Pair, Purchase}

Sized(source, hash_matches) ==
  [source |-> source, paper_order_decision |-> TRUE, chosen_bundle_qty |-> 2,
   guaranteed_payout_tick |-> 8, estimated_total_cost_tick |-> 6, expires_at_ns |-> 4,
   total_edge_tick |-> 2, unit_edge_tick |-> 1, edge_bps |-> 3333,
   matches_source |-> TRUE, policy_hash_matches |-> hash_matches,
   legs |-> << [side |-> "Buy", quantity_lots |-> 2, estimated_cost_tick |-> 6] >>]

MCDecisions == {Sized([Purchase EXCEPT !.idempotency_hash = 4], TRUE), Sized(Purchase, FALSE)}

MCIntents == MCSignals \cup {IntentFromDecision(d) : d \in MCDecisions}

MCPolicy ==
  [max_book_age_ns |-> 1, max_snapshot_skew_ns |-> 1, max_allowed_cost_drift_tick |-> 0,
   min_post_risk_total_edge_tick |-> 1, min_post_risk_unit_edge_tick |-> 0, min_edge_bps |-> 0,
   max_total_cost_tick |-> 9, max_total_exposure_tick |-> 14,
   max_single_market_exposure_tick |-> 12, max_inventory_lots_per_asset |-> 2,
   min_depth_margin_bps |-> 12000, max_approvals_per_second |-> 2]

\* The policy of the run that shows a disagreement with the documentation.
EdgePolicy ==
  [MCPolicy EXCEPT !.max_allowed_cost_drift_tick = 2, !.min_post_risk_total_edge_tick = 2]

Input(handoff, depth_views, kill) ==
  [handoff |-> handoff, depth_views |-> depth_views, kill_switch_enabled |-> kill]
MCInputs == {Input(TRUE, FALSE, FALSE), Input(FALSE, TRUE, FALSE), Input(FALSE, FALSE, TRUE)}

MCIdempotencyKeys == {"none"}
MCHashString == [k \in MCIdempotencyKeys |-> 9]
MCTimes == 1 .. 3
=============================================================================
