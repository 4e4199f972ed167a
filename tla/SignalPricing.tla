---------------------------- MODULE SignalPricing ----------------------------
(* engine/signal, from the books of a bundle's assets to an opportunity intent:  *)
(* the readers and their consistency guard, the depth check that prices every    *)
(* leg, the edge that is left, and the intent built from it.                     *)
(* A view of a book is [asset, asks, version, version_hash, last_book_update_ns, *)
(* marks, quality, usable_for_depth, usable_for_signal], where marks are the     *)
(* flags the book carries and asks are sorted by price.  A depth view is made    *)
(* from a snapshot and takes its last_ws_recv_ns from last_book_update_ns.  A    *)
(* missing view is an empty sequence, a hash is the value it is computed from,   *)
(* and a time of zero is not set.                                                *)
EXTENDS VwapMath, SequencesExt, TLC

IntentStatus ==
  {"CandidateOnly", "PaperOpportunity", "RejectedMissingSnapshot", "RejectedBadMarketState",
   "RejectedInvalidSettlement", "RejectedInsufficientDepth", "RejectedLowEdge",
   "DuplicateIntent"}

IntentRejectCode ==
  {"None", "InvalidSettlement", "BadMarketState", "MissingSnapshot", "InsufficientDepth",
   "LowEdge", "Duplicate", "RateLimited"}

CostFailureReason ==
  {"None", "MissingSnapshot", "MissingBookSide", "InsufficientDepth", "InvalidQuantity",
   "InvalidLeg"}

kMaxIntentLegs == 16

\* SignalConfig as it is declared, in the time unit of the model.
DefaultSignalConfig ==
  [require_usable_for_depth |-> TRUE, require_usable_for_signal |-> FALSE,
   default_fee_tick |-> 0, default_latency_buffer_tick |-> 0, slippage_buffer_tick |-> 0,
   min_unit_edge_tick |-> 0, min_total_edge_tick |-> 0, min_edge_bps |-> 0,
   min_bundle_qty |-> 1, max_intents_per_scan |-> 1024, max_intents_per_second |-> 100,
   intent_ttl_ns |-> 5, emit_rejections |-> TRUE, max_lob_age_ns |-> 1,
   max_snapshot_version_skew |-> 10, consistency_mode |-> "BoundedSkew"]

-----------------------------------------------------------------------------
\* What disqualifies a book.  The first test that applies gives the reason; no reason is "".

FirstReason(tests) ==
  LET i == SelectInSeq(tests, LAMBDA t : t[1]) IN IF i = 0 THEN "" ELSE tests[i][2]

QualityRejects(view) == view.quality \in {"Stale", "Recovering", "Crossed", "Closed", "Resolved"}

\* LOBStalenessChecker: a book from the future counts as infinitely old, and a time of zero
\* as unknown.
IsStale(view, now, max_age) ==
  /\ view.last_book_update_ns # 0 /\ now # 0 /\ max_age >= 0
  /\ now < view.last_book_update_ns \/ now - view.last_book_update_ns > max_age

Marked(view) ==
  << <<"recovering" \in view.marks, "recovering">>, <<"crossed" \in view.marks, "crossed">>,
     <<"closed" \in view.marks, "closed">>, <<"resolved" \in view.marks, "resolved">> >>

SnapshotDefect(view, now, config) ==
  FirstReason(Marked(view) \o
    << <<QualityRejects(view), "quality">>,
       <<config.require_usable_for_depth /\ ~ view.usable_for_depth, "unusable">>,
       <<config.require_usable_for_signal /\ ~ view.usable_for_signal, "unusable">>,
       <<IsStale(view, now, config.max_lob_age_ns), "stale">> >>)

DepthDefect(view, now, config) ==
  LET timed == view.last_book_update_ns # 0 /\ now # 0
  IN  FirstReason(Marked(view) \o
        << <<config.require_usable_for_depth /\ ~ view.usable_for_depth, "unusable">>,
           <<timed /\ now < view.last_book_update_ns, "invalid timestamp">>,
           <<timed /\ config.max_lob_age_ns >= 0
               /\ now - view.last_book_update_ns > config.max_lob_age_ns, "stale">> >>)

-----------------------------------------------------------------------------
\* SnapshotConsistencyGuard: each book in turn, then the distance between their versions.

Rejected(status, why) ==
  [ok |-> FALSE, status |-> status, why |-> why, views |-> << >>,
   version |-> [max_book_version |-> 0, combined_hash |-> << >>]]

\* make_version over snapshots and over depth views.
SnapshotHash(view) == <<view.asset, view.version, view.version_hash, view.last_book_update_ns>>
DepthHash(view) == <<view.asset, view.version, view.version_hash, view.last_book_update_ns>>
MakeVersion(views, Hash(_)) ==
  [max_book_version |-> FoldLeft(LAMBDA m, v : Greater(m, v.version), 0, views),
   combined_hash |-> [i \in DOMAIN views |-> Hash(views[i])]]

Skew(views) ==
  LET versions == {views[i].version : i \in DOMAIN views} IN Max(versions) - Min(versions)

SkewRejects(views, config) ==
  \/ config.consistency_mode = "StrictSameVersion" /\ Skew(views) # 0
  \/ config.consistency_mode = "BoundedSkew" /\ Skew(views) > config.max_snapshot_version_skew

Guard(views, config, Defect(_), Hash(_)) ==
  LET bad == SelectInSeq(views, LAMBDA v : Defect(v) # "")
  IN  IF views = << >> THEN Rejected("RejectedMissingSnapshot", "missing")
      ELSE IF bad # 0 THEN Rejected("RejectedBadMarketState", Defect(views[bad]))
      ELSE IF SkewRejects(views, config) THEN Rejected("RejectedBadMarketState", "version")
      ELSE [ok |-> TRUE, status |-> "CandidateOnly", why |-> "", views |-> views,
            version |-> MakeVersion(views, Hash)]

CheckSnapshots(views, now, config) ==
  Guard(views, config, LAMBDA v : SnapshotDefect(v, now, config), SnapshotHash)
CheckDepthViews(views, now, config) ==
  Guard(views, config, LAMBDA v : DepthDefect(v, now, config), DepthHash)

\* guard_now_ns: a scan that has no time takes the newest of the books.
GuardNowSnapshots(views, now) ==
  IF now # 0 THEN now ELSE FoldLeft(LAMBDA m, v : Greater(m, v.last_book_update_ns), 0, views)
GuardNowDepth(views, now) ==
  IF now # 0 THEN now ELSE FoldLeft(LAMBDA m, v : Greater(m, v.last_book_update_ns), 0, views)

-----------------------------------------------------------------------------
\* The readers.  books maps an asset to its view, or to an empty sequence.

\* The distinct assets of a bundle in the order of its legs: unique_bundle_assets, and the
\* unique assets of a runtime plan.
UniqueAssets(bundle) ==
  FoldLeft(LAMBDA found, leg : IF leg.asset \in ToSet(found) THEN found ELSE Append(found, leg.asset),
           << >>, bundle.legs)

ReadViews(bundle, books) ==
  LET assets == UniqueAssets(bundle) IN FlattenSeq([i \in DOMAIN assets |-> books[assets[i]]])

HasAll(bundle, views) ==
  /\ Len(views) >= Len(UniqueAssets(bundle))
  /\ ToSet(UniqueAssets(bundle)) \subseteq {views[i].asset : i \in DOMAIN views}

ValidateBundleSnapshots(bundle, views, now, config) ==
  IF ~ HasAll(bundle, views) THEN Rejected("RejectedMissingSnapshot", "missing")
  ELSE CheckSnapshots(views, GuardNowSnapshots(views, now), config)
ValidatePlanSnapshots(bundle, views, now, config) ==
  IF ~ HasAll(bundle, views) THEN Rejected("RejectedMissingSnapshot", "missing")
  ELSE CheckSnapshots(views, GuardNowSnapshots(views, now), config)
ValidatePlanDepthViews(bundle, views, now, config) ==
  IF ~ HasAll(bundle, views) THEN Rejected("RejectedMissingSnapshot", "missing")
  ELSE CheckDepthViews(views, GuardNowDepth(views, now), config)

ReadForBundle(bundle, books, now, config) ==
  ValidateBundleSnapshots(bundle, ReadViews(bundle, books), now, config)
ReadForPlan(bundle, books, now, config) ==
  ValidatePlanSnapshots(bundle, ReadViews(bundle, books), now, config)
ReadDepthForPlan(bundle, books, now, config) ==
  ValidatePlanDepthViews(bundle, ReadViews(bundle, books), now, config)

-----------------------------------------------------------------------------
\* Pricing.  VWAPPrecheck first asks how many lots every leg can buy, takes the largest
\* whole number of bundles, and then prices that quantity leg by leg.

EmptyFill ==
  [asset_id |-> "", requested_qty_lots |-> 0, executable_qty_lots |-> 0, vwap_price_tick |-> 0,
   total_cost_tick |-> 0, worst_price_tick |-> 0, enough_depth |-> FALSE]

NoCost(reason) ==
  [executable |-> FALSE, bundle_qty |-> 0, total_cost_tick |-> 0, avg_cost_tick |-> 0,
   max_leg_slippage_tick |-> 0, failure_reason |-> reason, legs |-> << >>]

\* SideResolver.
ResolveSide(side) == IF side = "Buy" THEN "Asks" ELSE "Unsupported"

\* A leg with the view it is priced against.
PriceLeg(leg, views) ==
  [asset |-> leg.asset, target |-> leg.quantity_lots, side |-> ResolveSide(leg.side),
   view |-> SelectSeq(views, LAMBDA v : v.asset = leg.asset)]

\* The depth of an ask side and its best price, summed level by level and read off the
\* prefix sums.
LinearDepth(asks) ==
  LET usable == SelectSeq(asks, LAMBDA l : Available(l) > 0)
      depth  == FoldLeft(LAMBDA n, l : n + Available(l), 0, usable)
  IN  [ok |-> Fits(depth), lots |-> depth, best |-> IF usable = << >> THEN 0 ELSE usable[1].price_tick]
BestAskTickFromPrefix(asks, prefix) ==
  LET i == SelectInSeq(prefix, LAMBDA p : p.qty > 0)
  IN  IF i = 0 THEN 0 ELSE asks[i].price_tick
\* Faulty variant: the sum up to the first level stands for the whole side.
PrefixDepthTop(asks) ==
  LET prefix == DepthPrefix(asks)
  IN  [ok |-> TRUE, lots |-> prefix[1].qty, best |-> BestAskTickFromPrefix(asks, prefix)]
PrefixDepth(asks) ==
  LET prefix == DepthPrefix(asks)
  IN  [ok |-> TRUE, lots |-> AskDepthFromPrefix(prefix), best |-> BestAskTickFromPrefix(asks, prefix)]

\* calculate_buy_capacity.
BuyCapacity(leg, Depth(_)) ==
  LET Failed(reason) == [reason |-> reason, fill |-> EmptyFill, best |-> 0]
      asked == [EmptyFill EXCEPT !.asset_id = leg.asset, !.requested_qty_lots = leg.target]
      Measured(depth) ==
        IF ~ depth.ok THEN [reason |-> "InvalidLeg", fill |-> asked, best |-> depth.best]
        ELSE [reason |-> "None", best |-> depth.best,
              fill |-> [asked EXCEPT !.executable_qty_lots = depth.lots,
                                     !.enough_depth = depth.lots >= leg.target]]
  IN  IF leg.target <= 0 THEN Failed("InvalidQuantity")
      ELSE IF leg.side # "Asks" \/ leg.view = << >> THEN Failed("InvalidLeg")
      ELSE IF leg.view[1].asks = << >> THEN Failed("MissingBookSide")
      ELSE Measured(Depth(leg.view[1].asks))
BuyCapacityLinear(leg) == BuyCapacity(leg, LinearDepth)
BuyCapacityPrefix(leg) == BuyCapacity(leg, PrefixDepth)

\* price_buy_leg_for_quantity.
PriceBuyLeg(fill, priced) ==
  [fill EXCEPT !.total_cost_tick = priced.total_cost_tick, !.vwap_price_tick = priced.vwap_tick,
               !.worst_price_tick = priced.worst_price_tick, !.enough_depth = TRUE]
\* The prefix of a view is built from its asks and as long (make_market_depth_view), so that
\* the linear walk kept for a view without one is never taken.
BuyLegLinear(leg, qty) == BuyVwapLinear(leg.view[1].asks, qty)
BuyLegPrefix(leg, qty) == BuyVwapPrefix(leg.view[1].asks, qty)

\* One leg of the second loop.  An overflow discards what was priced before it; a leg that
\* cannot be priced leaves it in the result.
AddPricedLeg(acc, leg, capacity, priced) ==
  LET cost    == acc.cost
      planned == leg.target * cost.bundle_qty
      Stop(result) == [acc EXCEPT !.cost = result, !.stopped = TRUE]
  IN  IF acc.stopped THEN acc
      ELSE IF ~ Fits(planned) THEN Stop(NoCost("InvalidQuantity"))
      ELSE IF ~ priced.ok THEN Stop([cost EXCEPT !.failure_reason = "InsufficientDepth"])
      ELSE IF ~ Fits(cost.total_cost_tick + priced.total_cost_tick) THEN Stop(NoCost("InvalidLeg"))
      ELSE IF ~ Fits(acc.lots + planned) THEN Stop(NoCost("InvalidQuantity"))
      ELSE [stopped |-> FALSE, lots |-> acc.lots + planned, index |-> acc.index + 1,
            cost |-> [cost EXCEPT
              !.max_leg_slippage_tick = Greater(cost.max_leg_slippage_tick,
                                                priced.worst_price_tick - capacity.best),
              !.total_cost_tick = cost.total_cost_tick + priced.total_cost_tick,
              !.legs[acc.index] = PriceBuyLeg(cost.legs[acc.index], priced)]]

\* Faulty variant: the cost of one bundle is rounded down.
PricedRoundedDown(acc) ==
  IF acc.stopped THEN acc.cost
  ELSE IF acc.lots <= 0 THEN NoCost("InvalidQuantity")
  ELSE [acc.cost EXCEPT !.executable = TRUE,
          !.avg_cost_tick = acc.cost.total_cost_tick \div acc.cost.bundle_qty]

\* What the two loops have accumulated, once they are done.
Priced(acc) ==
  IF acc.stopped THEN acc.cost
  ELSE IF acc.lots <= 0 THEN NoCost("InvalidQuantity")
  ELSE [acc.cost EXCEPT !.executable = TRUE,
          !.avg_cost_tick = CeilDivPositive(acc.cost.total_cost_tick, acc.cost.bundle_qty)]

\* The largest number of whole bundles every leg can buy.
BundleQuantity(fills) ==
  Min({fills[i].executable_qty_lots \div fills[i].requested_qty_lots : i \in DOMAIN fills})

PriceQuantity(legs, capacities, qty, Buy(_, _)) ==
  Priced(FoldLeft(LAMBDA acc, i : AddPricedLeg(acc, legs[i], capacities[i], Buy(legs[i], legs[i].target * qty)),
    [stopped |-> FALSE, lots |-> 0, index |-> 1,
     cost |-> [NoCost("None") EXCEPT !.bundle_qty = qty,
                                     !.legs = [i \in DOMAIN legs |-> capacities[i].fill]]],
    [i \in DOMAIN legs |-> i]))

PriceLegs(legs, capacities, Buy(_, _)) ==
  LET bad   == SelectInSeq(capacities, LAMBDA c : c.reason # "None")
      fills == [i \in DOMAIN capacities |-> capacities[i].fill]
  IN  IF bad # 0
      THEN [NoCost(capacities[bad].reason) EXCEPT !.legs = SubSeq(fills, 1, bad)]
      ELSE IF \E i \in DOMAIN fills : ~ fills[i].enough_depth
      THEN [NoCost("InsufficientDepth") EXCEPT !.legs = fills]
      ELSE IF BundleQuantity(fills) = MaxI64
      THEN [NoCost("InsufficientDepth") EXCEPT !.legs = fills, !.bundle_qty = MaxI64]
      ELSE PriceQuantity(legs, capacities, BundleQuantity(fills), Buy)

PriceLegsLinear(legs) ==
  PriceLegs(legs, [i \in DOMAIN legs |-> BuyCapacityLinear(legs[i])], BuyLegLinear)
PriceLegsPrefix(legs) ==
  PriceLegs(legs, [i \in DOMAIN legs |-> BuyCapacityPrefix(legs[i])], BuyLegPrefix)

LegsOver(bundle, views) == [i \in DOMAIN bundle.legs |-> PriceLeg(bundle.legs[i], views)]

\* PriceVectorBuilder: the first leg that cannot be priced at all.
PriceVectorFailure(bundle, views) ==
  LET Failure(leg) ==
        FirstReason(<< <<leg.quantity_lots <= 0, "InvalidQuantity">>,
                       <<ResolveSide(leg.side) = "Unsupported", "InvalidLeg">>,
                       <<\A i \in DOMAIN views : views[i].asset # leg.asset, "MissingSnapshot">> >>)
      bad == SelectInSeq(bundle.legs, LAMBDA leg : Failure(leg) # "")
  IN  IF bundle.legs = << >> \/ Len(bundle.legs) > kMaxIntentLegs THEN "InvalidLeg"
      ELSE IF bad # 0 THEN Failure(bundle.legs[bad]) ELSE "None"

PriceBundle(bundle, views) ==
  IF PriceVectorFailure(bundle, views) # "None" THEN NoCost(PriceVectorFailure(bundle, views))
  ELSE PriceLegsLinear(LegsOver(bundle, views))

\* price_runtime_plan over snapshots and over depth views.  The readers only pass on views
\* that cover the plan.
PlanUnpriceable(bundle, views) ==
  FirstReason(<< <<bundle.legs = << >> \/ Len(bundle.legs) > kMaxIntentLegs, "InvalidLeg">>,
                 <<~ HasAll(bundle, views), "MissingSnapshot">> >>)
PricePlanSnapshots(bundle, views) ==
  IF PlanUnpriceable(bundle, views) # "" THEN NoCost(PlanUnpriceable(bundle, views))
  ELSE PriceLegsLinear(LegsOver(bundle, views))
PricePlanDepth(bundle, views) ==
  IF PlanUnpriceable(bundle, views) # "" THEN NoCost(PlanUnpriceable(bundle, views))
  ELSE PriceLegsPrefix(LegsOver(bundle, views))

-----------------------------------------------------------------------------
\* The edge of a priced bundle.  A bundle is [bundle_id, legs, guaranteed_payout_tick,
\* min_edge_tick, required_true, required_false, invalid]; a leg of it is [market, asset,
\* side, quantity_lots].

\* The fee and the latency buffer are what their models are constructed with: the two
\* configured defaults in verify_signal_workflow, zero in the live driver.  The configured
\* slippage buffer wins over its model's default, which no driver sets.
EstimateFeeTick(config) == config.default_fee_tick
EstimateLatencyBufferTick(config) == config.default_latency_buffer_tick
EstimateSlippageBufferTick(config) == config.slippage_buffer_tick

\* EdgeBreakdown.
Breakdown(bundle, cost, config, edge, failure) ==
  [passed |-> failure = "None", failure_reason |-> failure,
   guaranteed_payout_per_bundle_tick |-> bundle.guaranteed_payout_tick,
   fee_per_bundle_tick |-> EstimateFeeTick(config),
   latency_buffer_per_bundle_tick |-> EstimateLatencyBufferTick(config),
   slippage_buffer_per_bundle_tick |-> EstimateSlippageBufferTick(config),
   unit_edge_tick |-> edge.unit_edge_tick, total_edge_tick |-> edge.total_edge_tick,
   edge_bps |-> edge.edge_bps, bundle_qty |-> cost.bundle_qty]

MinUnitEdge(bundle, config) == Greater(config.min_unit_edge_tick, bundle.min_edge_tick)

\* TheoreticalEdgeCalculator::calculate.
CalculateEdge(bundle, cost, config) ==
  LET Judge(edge) ==
        LET failure == FirstReason(
              << <<~ cost.executable \/ cost.bundle_qty <= 0 \/ ~ edge.ok, "InvalidCost">>,
                 <<cost.bundle_qty < config.min_bundle_qty, "BelowMinBundleQty">>,
                 <<edge.unit_edge_tick < MinUnitEdge(bundle, config), "BelowMinUnitEdge">>,
                 <<edge.total_edge_tick < config.min_total_edge_tick, "BelowMinTotalEdge">>,
                 <<edge.edge_bps < config.min_edge_bps, "BelowMinEdgeBps">> >>)
        IN  Breakdown(bundle, cost, config, edge, IF failure = "" THEN "None" ELSE failure)
  IN  Judge(ComputeEdge(bundle.guaranteed_payout_tick, cost.avg_cost_tick, EstimateFeeTick(config),
                        EstimateLatencyBufferTick(config), EstimateSlippageBufferTick(config),
                        cost.bundle_qty))

-----------------------------------------------------------------------------
\* Intents.

NoHash == << >>

IntentLeg(leg) ==
  [market |-> leg.market, asset |-> leg.asset, side |-> leg.side,
   quantity_lots |-> leg.quantity_lots, asset_index |-> 0, estimated_vwap_tick |-> 0,
   worst_price_tick |-> 0, estimated_cost_tick |-> 0, requested_qty_lots |-> 0,
   executable_qty_lots |-> 0, depth_margin_bps |-> 0, enough_depth |-> FALSE]

\* OpportunityIntent as it is declared.
EmptyIntent ==
  [intent_id |-> NoHash, idempotency_hash |-> NoHash, proof_hash |-> NoHash, bundle_id |-> 0,
   status |-> "CandidateOnly", reject_code |-> "None", valid_under_settlement |-> FALSE,
   passed_quality_gate |-> FALSE, enough_depth |-> FALSE, artifact_version |-> 0,
   artifact_hash |-> NoHash, constraint_hash |-> NoHash, bundle_hash |-> NoHash,
   snapshot_version |-> 0, snapshot_version_hash |-> NoHash, bundle_qty |-> 0,
   guaranteed_payout_tick |-> 0, estimated_cost_tick |-> 0, estimated_fee_tick |-> 0,
   latency_buffer_tick |-> 0, slippage_buffer_tick |-> 0, max_leg_slippage_tick |-> 0,
   unit_edge_tick |-> 0, total_edge_tick |-> 0, edge_bps |-> 0, min_edge_tick |-> 0,
   created_ts_ns |-> 0, expires_at_ns |-> 0, legs |-> << >>]

CopyBundleLegs(bundle) ==
  [i \in 1 .. Lesser(Len(bundle.legs), kMaxIntentLegs) |-> IntentLeg(bundle.legs[i])]

DepthMarginBps(executable, requested) ==
  IF requested <= 0 \/ executable <= 0 THEN 0
  ELSE Lesser((executable * 10000) \div requested, MaxI64)

PricedLeg(leg, fill, qty) ==
  IF fill.asset_id = "" THEN leg
  ELSE [leg EXCEPT !.asset = fill.asset_id, !.quantity_lots = fill.requested_qty_lots,
          !.estimated_vwap_tick = fill.vwap_price_tick, !.worst_price_tick = fill.worst_price_tick,
          !.estimated_cost_tick = fill.total_cost_tick,
          !.requested_qty_lots = Saturate(fill.requested_qty_lots * qty),
          !.executable_qty_lots = fill.executable_qty_lots,
          !.depth_margin_bps = DepthMarginBps(fill.executable_qty_lots,
                                              Saturate(fill.requested_qty_lots * qty)),
          !.enough_depth = fill.enough_depth]

\* copy_priced_legs.
CopyPricedLegs(legs, cost) ==
  [i \in DOMAIN legs |-> IF i <= Len(cost.legs) THEN PricedLeg(legs[i], cost.legs[i], cost.bundle_qty)
                         ELSE legs[i]]

\* make_intent_id over what identifies an opportunity: the same bundle at the same price in
\* the same books is the same opportunity.
IdentityOf(intent) ==
  <<intent.bundle_id, intent.bundle_hash, intent.snapshot_version_hash, intent.bundle_qty,
    intent.unit_edge_tick>>

MakeProofHash(intent) ==
  <<intent.artifact_hash, intent.constraint_hash, intent.bundle_hash, intent.snapshot_version_hash>>

\* hash_candidate_bundle: an artifact has one bundle for an id.
HashCandidateBundle(bundle) == <<bundle.bundle_id>>

\* effective_bundle_hash and effective_artifact_hash: an input that carries none gets the
\* hash of what it stands for.
EffectiveBundleHash(input) ==
  IF input.bundle_hash # NoHash THEN input.bundle_hash ELSE HashCandidateBundle(input.bundle)
EffectiveArtifactHash(input) ==
  IF input.artifact_hash # NoHash THEN input.artifact_hash
  ELSE <<input.artifact_version, input.constraint_hash, EffectiveBundleHash(input)>>

Identified(intent) ==
  [intent EXCEPT !.intent_id = IdentityOf(intent), !.idempotency_hash = IdentityOf(intent),
                 !.proof_hash = MakeProofHash(intent)]

\* IntentBuilder::build.
BuildIntent(input, cost, edge, version) ==
  Identified([EmptyIntent EXCEPT
    !.bundle_id = input.bundle.bundle_id,
    !.status = IF edge.passed THEN "PaperOpportunity" ELSE "RejectedLowEdge",
    !.reject_code = IF edge.passed THEN "None" ELSE "LowEdge",
    !.valid_under_settlement = input.valid_under_settlement,
    !.passed_quality_gate = input.passed_quality_gate,
    !.enough_depth = cost.executable,
    !.artifact_version = input.artifact_version,
    !.bundle_hash = EffectiveBundleHash(input),
    !.constraint_hash = input.constraint_hash,
    !.artifact_hash = EffectiveArtifactHash(input),
    !.snapshot_version = version.max_book_version,
    !.snapshot_version_hash = version.combined_hash,
    !.bundle_qty = edge.bundle_qty,
    !.guaranteed_payout_tick = Saturate(edge.guaranteed_payout_per_bundle_tick * edge.bundle_qty),
    !.estimated_cost_tick = cost.total_cost_tick,
    !.estimated_fee_tick = Saturate(edge.fee_per_bundle_tick * edge.bundle_qty),
    !.latency_buffer_tick = Saturate(edge.latency_buffer_per_bundle_tick * edge.bundle_qty),
    !.slippage_buffer_tick = Saturate(edge.slippage_buffer_per_bundle_tick * edge.bundle_qty),
    !.max_leg_slippage_tick = cost.max_leg_slippage_tick,
    !.unit_edge_tick = edge.unit_edge_tick,
    !.total_edge_tick = edge.total_edge_tick,
    !.edge_bps = edge.edge_bps,
    !.min_edge_tick = input.bundle.min_edge_tick,
    !.created_ts_ns = input.now,
    !.expires_at_ns = input.now + input.ttl,
    !.legs = CopyPricedLegs(CopyBundleLegs(input.bundle), cost)])
=============================================================================
