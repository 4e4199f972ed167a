---------------------------- MODULE OrderDecision ----------------------------
(* engine/order_decision: how many copies of a bundle to buy, and at which       *)
(* limits, given the depth of its legs' books.  The generic optimiser tries      *)
(* every quantity at which some leg exhausts a price level; the fast one tries   *)
(* only the largest quantity.  Both keep what they computed in one cache.        *)
(* A depth view is [asset_index, asks, usable, last_ws_recv_ns], a bundle is      *)
(* [bundle_id, guaranteed_payout_tick, legs], a hash is the value it is computed *)
(* from, and a missing pointer is an empty sequence.                             *)
EXTENDS VwapMath, SequencesExt, TLC

OrderDecisionType ==
  {"NoTrade", "PaperOrderDecision", "RejectNoDepth", "RejectLowEdge", "RejectInvalidBundle",
   "RejectUnsupportedSide", "RejectRiskBudget", "RejectPartialFillRisk", "RejectExpiredIntent",
   "RejectPriceProtection", "RejectInternalError"}

kMaxOrderDecisionLegs == 16

\* OrderDecisionConfig as it is declared.
DefaultOrderDecisionConfig ==
  [impl_mode |-> "Generic", fast_fixed_shape_fallback_to_generic |-> TRUE,
   min_bundle_qty |-> 1, max_bundle_qty |-> 0,
   fee_per_bundle_tick |-> 0, latency_buffer_per_bundle_tick |-> 0,
   slippage_buffer_per_bundle_tick |-> 0,
   price_protection_buffer_tick |-> 0, max_allowed_price_tick |-> 0, default_ttl_ns |-> 1]

Reject(reason) == [ok |-> FALSE, reject_reason |-> reason]

-----------------------------------------------------------------------------
\* Cost curves: the usable levels of an ask side with their running sums.

CurveTotalQty(curve) == IF curve = << >> THEN 0 ELSE Last(curve).cumulative_qty_lots
CurveTotalCost(curve) == IF curve = << >> THEN 0 ELSE Last(curve).cumulative_cost_tick

AddCurveLevel(curve, level) ==
  Append(curve,
    [price_tick           |-> level.price_tick,
     cumulative_qty_lots  |-> CurveTotalQty(curve) + Available(level),
     cumulative_cost_tick |-> CurveTotalCost(curve) + level.price_tick * Available(level)])

\* kMaxCostCurveLevels is the depth a view has room for, so that no level is one too many.
CostCurve(asks) ==
  FoldLeft(AddCurveLevel, << >>, SelectSeq(asks, LAMBDA level : Available(level) > 0))

BuildBuyCurve(leg, view) ==
  LET Built(curve) ==
        IF ~ Fits(CurveTotalQty(curve)) \/ ~ Fits(CurveTotalCost(curve)) THEN Reject("RejectInternalError")
        ELSE IF curve = << >> THEN Reject("RejectNoDepth")
        ELSE [ok |-> TRUE, curve |-> curve]
  IN  IF leg.side # "Buy" THEN Reject("RejectUnsupportedSide")
      ELSE IF view.asks = << >> THEN Reject("RejectNoDepth")
      ELSE Built(CostCurve(view.asks))

\* cost_for_quantity: the cost read off the curve.
CostForQuantity(curve, qty_lots) ==
  IF qty_lots <= 0 \/ qty_lots > CurveTotalQty(curve)
  THEN [ok |-> FALSE, total_cost_tick |-> 0, worst_price_tick |-> 0]
  ELSE LET level  == SelectInSeq(curve, LAMBDA l : l.cumulative_qty_lots >= qty_lots)
           before == SubSeq(curve, 1, level - 1)
           cost   == CurveTotalCost(before) + (qty_lots - CurveTotalQty(before)) * curve[level].price_tick
       IN  [ok |-> Fits(cost), total_cost_tick |-> IF Fits(cost) THEN cost ELSE 0,
            worst_price_tick |-> IF Fits(cost) THEN curve[level].price_tick ELSE 0]

-----------------------------------------------------------------------------
\* Candidate quantities.  A shape is [curves, ratios, min, max]: the legs' curves and the
\* lots of each leg in one bundle.

\* candidate_at: the whole bundles that a level's cumulative depth covers.
CandidateAt(shape, leg, level) ==
  IF level > Len(shape.curves[leg]) THEN 0
  ELSE LET q == shape.curves[leg][level].cumulative_qty_lots \div shape.ratios[leg]
       IN  IF shape.max > 0 THEN Lesser(q, shape.max) ELSE q

\* The first level of a leg, from the given one on, whose candidate passes the test.
FirstLevel(shape, leg, from, Test(_)) ==
  LET end  == Len(shape.curves[leg]) + 1
  IN  Min({l \in from .. end : l = end \/ Test(CandidateAt(shape, leg, l))})

\* advance_invalid_candidates.
SkipInvalid(shape, levels) ==
  [leg \in DOMAIN levels |-> FirstLevel(shape, leg, levels[leg], LAMBDA q : q >= shape.min)]

SkipTaken(shape, levels, taken) ==
  [leg \in DOMAIN levels |-> FirstLevel(shape, leg, levels[leg], LAMBDA q : q > taken)]

\* One call of KWayCandidateCursor::next: the smallest quantity any leg offers; every leg
\* then moves past it.
CursorNext(shape, cursor) ==
  LET Emit(levels) ==
        LET offers == {CandidateAt(shape, leg, levels[leg]) : leg \in DOMAIN levels}
            valid  == {q \in offers : q >= shape.min}
        IN  IF valid = {} THEN [cursor EXCEPT !.done = TRUE]
            ELSE [levels |-> SkipTaken(shape, levels, Min(valid)), done |-> FALSE,
                  emitted |-> IF cursor.emitted # << >> /\ Last(cursor.emitted) = Min(valid)
                              THEN cursor.emitted ELSE Append(cursor.emitted, Min(valid))]
  IN  IF cursor.done THEN cursor ELSE Emit(SkipInvalid(shape, cursor.levels))

\* Every quantity the cursor hands out, in its order.
EnumerateCandidates(shape) ==
  LET steps == FoldLeft(LAMBDA n, curve : n + Len(curve), 1, shape.curves)
      Run[n \in 0 .. steps] ==
        IF n = 0 THEN [levels |-> [leg \in DOMAIN shape.curves |-> 1], done |-> FALSE, emitted |-> << >>]
        ELSE CursorNext(shape, Run[n - 1])
  IN  Run[steps].emitted

-----------------------------------------------------------------------------
\* The sizing loop.  Each leg remembers where its walk over the curve stopped, so that the
\* next larger quantity continues from there.

InitialLeg == [level_index |-> 1, qty |-> 0, cost |-> 0, worst |-> 0]

\* ceil_ratio_bps: the depth that must stand behind a quantity.
CeilRatioBps(value, bps) ==
  IF value <= 0 \/ bps <= 10000 \/ ~ Fits(value * bps) THEN value
  ELSE CeilDivPositive(value * bps, 10000)

\* One level of advance_incremental_leg's loop.
TakeFrom(leg, level, target) ==
  IF leg.qty >= target THEN leg
  ELSE LET take == Lesser(level.cumulative_qty_lots, target) - leg.qty
       IN  [level_index |-> leg.level_index + (IF leg.qty + take >= level.cumulative_qty_lots THEN 1 ELSE 0),
            qty         |-> leg.qty + take,
            cost        |-> leg.cost + level.price_tick * take,
            worst       |-> level.price_tick]

AdvanceLeg(curve, leg, target) ==
  FoldLeft(LAMBDA l, level : TakeFrom(l, level, target), leg, SubSeq(curve, leg.level_index, Len(curve)))

SumOf(seq) == FoldLeft(LAMBDA sum, x : sum + x, 0, seq)

\* What advance_incremental_state says of one leg, and of all of them: the first leg that
\* is not Ok decides.
LegAdvanceStatus(shape, leg, before, after, margin_bps, q) ==
  LET target == shape.ratios[leg] * q
      total  == SumOf([l \in DOMAIN after |-> IF l <= leg THEN after[l].cost ELSE before[l].cost])
  IN  IF ~ Fits(target) THEN "Invalid"
      ELSE IF CurveTotalQty(shape.curves[leg]) < CeilRatioBps(target, margin_bps) THEN "PartialFillRisk"
      ELSE IF target < before[leg].qty \/ target > CurveTotalQty(shape.curves[leg]) \/ ~ Fits(total)
      THEN "Invalid"
      ELSE "Ok"

AdvanceStatus(shape, before, after, margin_bps, q) ==
  LET statuses == [leg \in DOMAIN after |-> LegAdvanceStatus(shape, leg, before, after, margin_bps, q)]
      bad      == SelectSeq(statuses, LAMBDA status : status # "Ok")
  IN  IF bad = << >> THEN "Ok" ELSE Head(bad)

\* better_edge_candidate.
BetterEdgeCandidate(a, b) ==
  \/ a.total_edge_tick > b.total_edge_tick
  \/ /\ a.total_edge_tick = b.total_edge_tick
     /\ \/ a.edge_bps > b.edge_bps
        \/ /\ a.edge_bps = b.edge_bps
           /\ \/ a.total_cost_tick < b.total_cost_tick
              \/ a.total_cost_tick = b.total_cost_tick /\ a.bundle_qty < b.bundle_qty

\* The numbers of one quantity, given what its legs and the fees and buffers cost.
EdgePoint(payout, charges, leg_cost, q) ==
  LET cost == leg_cost + charges
      edge == payout * q - cost
  IN  [bundle_qty |-> q, guaranteed_payout_tick |-> payout * q,
       total_cost_tick |-> cost, total_edge_tick |-> edge,
       unit_edge_tick |-> TruncDiv(edge, q), edge_bps |-> RatioBps(edge, cost)]

Charges(config) ==
  config.fee_per_bundle_tick + config.latency_buffer_per_bundle_tick + config.slippage_buffer_per_bundle_tick

\* Faulty variant: the quantity that is dearest replaces the best one.
ConsiderLast(s, point, legs, policy) ==
  IF policy.max_total_cost_tick > 0 /\ point.total_cost_tick > policy.max_total_cost_tick
  THEN [s EXCEPT !.saw_budget = TRUE]
  ELSE IF ~ PassesEdgeThresholds(point.unit_edge_tick, point.total_edge_tick, point.edge_bps, policy) THEN s
  ELSE [s EXCEPT !.found = TRUE, !.best = point, !.best_legs = legs]

\* A priced quantity against the budget, the thresholds and the best one so far.
Consider(s, point, legs, policy) ==
  IF policy.max_total_cost_tick > 0 /\ point.total_cost_tick > policy.max_total_cost_tick
  THEN [s EXCEPT !.saw_budget = TRUE]
  ELSE IF \/ ~ Fits(point.guaranteed_payout_tick)
          \/ ~ Fits(point.total_edge_tick)
          \/ ~ PassesEdgeThresholds(point.unit_edge_tick, point.total_edge_tick, point.edge_bps, policy)
          \/ s.found /\ ~ BetterEdgeCandidate(point, s.best)
  THEN s
  ELSE [s EXCEPT !.found = TRUE, !.best = point, !.best_legs = legs]

\* evaluate_candidate.  A quantity the depth margin rejects ends the loop: every larger one
\* needs more depth still.
EvaluateCandidate(s, q, shape, payout, policy, config) ==
  LET Advanced(after, status) ==
        IF status = "PartialFillRisk" THEN [s EXCEPT !.saw_partial = TRUE, !.exhausted = TRUE]
        ELSE IF status = "Invalid" THEN s
        ELSE IF ~ Fits(SumOf([leg \in DOMAIN after |-> after[leg].cost]) + Charges(config) * q)
        THEN [s EXCEPT !.legs = after]
        ELSE Consider([s EXCEPT !.legs = after],
                      EdgePoint(payout, Charges(config) * q, SumOf([leg \in DOMAIN after |-> after[leg].cost]), q),
                      after, policy)
      Step(after) == Advanced(after, AdvanceStatus(shape, s.legs, after, policy.min_depth_margin_bps, q))
  IN  IF s.exhausted \/ q < shape.min THEN s
      ELSE [Step([leg \in DOMAIN s.legs |-> AdvanceLeg(shape.curves[leg], s.legs[leg], shape.ratios[leg] * q)])
             EXCEPT !.streamed = Append(s.streamed, q)]

InitialEval(shape) ==
  [legs |-> [leg \in DOMAIN shape.curves |-> InitialLeg], streamed |-> << >>,
   found |-> FALSE, best |-> << >>, best_legs |-> << >>,
   saw_budget |-> FALSE, saw_partial |-> FALSE, exhausted |-> FALSE]

EvaluateAll(candidates, shape, payout, policy, config) ==
  FoldLeft(LAMBDA s, q : EvaluateCandidate(s, q, shape, payout, policy, config), InitialEval(shape), candidates)

-----------------------------------------------------------------------------
\* The cache: candidate sets by the shape of the depth, decisions by the whole question,
\* specs of the fast implementation by the bundle.

EmptyCache == [candidate_sets |-> << >>, decisions |-> << >>, specs |-> << >>]

Store(table, key, value) == (key :> value) @@ table

\* depth_breakpoint_signature: cumulative quantities, no prices.
DepthBreakpointSignature(legs) ==
  [i \in DOMAIN legs |->
     [ratio |-> legs[i].ratio, asset_index |-> legs[i].view.asset_index,
      asks  |-> [l \in DOMAIN legs[i].view.asks |-> DepthPrefix(legs[i].view.asks)[l].qty],
      curve |-> [l \in DOMAIN legs[i].curve |-> legs[i].curve[l].cumulative_qty_lots]]]

\* Faulty variant: the depth is left out of the key.
CandidateSetKeyNoDepth(intent, bundle, legs, config) ==
  << bundle.bundle_id, intent.bundle_hash, config.min_bundle_qty, config.max_bundle_qty >>

CandidateSetKey(intent, bundle, legs, config) ==
  << bundle.bundle_id, intent.bundle_hash, DepthBreakpointSignature(legs),
     config.min_bundle_qty, config.max_bundle_qty >>

DecisionMemoKey(intent, bundle, policy, config, now) ==
  << bundle.bundle_id, intent.bundle_hash, intent.snapshot_version_hash, policy,
     intent.intent_id, intent.expires_at_ns, now, config >>

-----------------------------------------------------------------------------
\* BundleSizeOptimizer::optimize.

RatioForLeg(intent, bundle, i) ==
  IF bundle.legs[i].quantity_lots > 0 THEN bundle.legs[i].quantity_lots
  ELSE IF i <= Len(intent.legs) /\ intent.legs[i].quantity_lots > 0 THEN intent.legs[i].quantity_lots
  ELSE 1

IntentAssetIndex(intent, i) == IF i <= Len(intent.legs) THEN intent.legs[i].asset_index ELSE 0

\* find_depth_view: by asset, else by the position of the leg.
FindDepthView(views, asset_index, i) ==
  LET at == SelectInSeq(views, LAMBDA view : view.asset_index = asset_index)
  IN  IF at # 0 THEN << views[at] >> ELSE IF i <= Len(views) THEN << views[i] >> ELSE << >>

\* One leg made ready: its ratio, its view and its cost curve, or the reason it cannot be.
PrepareLeg(intent, bundle, views, i) ==
  LET WithCurve(view, built) ==
        IF ~ built.ok THEN built
        ELSE [ok |-> TRUE, ratio |-> RatioForLeg(intent, bundle, i), view |-> view, curve |-> built.curve]
      WithView(view) ==
        IF view = << >> \/ ~ view[1].usable THEN Reject("RejectNoDepth")
        ELSE WithCurve(view[1], BuildBuyCurve(bundle.legs[i], view[1]))
  IN  IF bundle.legs[i].side # "Buy" THEN Reject("RejectUnsupportedSide")
      ELSE WithView(FindDepthView(views, IntentAssetIndex(intent, i), i))

ShapeOf(legs, config) ==
  [curves |-> [i \in DOMAIN legs |-> legs[i].curve], ratios |-> [i \in DOMAIN legs |-> legs[i].ratio],
   min |-> Greater(1, config.min_bundle_qty), max |-> config.max_bundle_qty]

GuaranteedPerBundle(intent, bundle) ==
  IF bundle.guaranteed_payout_tick # 0 THEN bundle.guaranteed_payout_tick ELSE intent.guaranteed_payout_tick

\* What the loop found, or why it found nothing.
SizeResult(s, candidate_count, legs) ==
  IF s.found
  THEN [ok |-> TRUE, best |-> s.best,
        legs |-> [i \in DOMAIN legs |->
                    [asset_index         |-> legs[i].view.asset_index,
                     quantity_lots       |-> s.best_legs[i].qty,
                     estimated_vwap_tick |-> s.best_legs[i].cost \div s.best_legs[i].qty,
                     worst_price_tick    |-> s.best_legs[i].worst,
                     estimated_cost_tick |-> s.best_legs[i].cost]]]
  ELSE Reject(IF candidate_count = 0 THEN "RejectNoDepth"
              ELSE IF s.saw_budget THEN "RejectRiskBudget"
              ELSE IF s.saw_partial THEN "RejectPartialFillRisk"
              ELSE "RejectLowEdge")

\* The quantities a fresh enumeration leaves in the cache: those it came to before the depth
\* margin ended it.  They are never more than kMaxOrderDecisionCandidates, which is room for every
\* level of every leg.
StoredCandidates(s) == s.streamed

\* The candidates come from the cache, or from the cursor, which then fills the cache.
SizePrepared(cache, intent, bundle, legs, policy, config) ==
  LET shape == ShapeOf(legs, config)
      key   == CandidateSetKey(intent, bundle, legs, config)
      Evaluated(candidates) ==
        EvaluateAll(candidates, shape, GuaranteedPerBundle(intent, bundle), policy, config)
      Cached(candidates) ==
        [size |-> SizeResult(Evaluated(candidates), Len(candidates), legs), cache |-> cache]
      Fresh(s) ==
        [size  |-> SizeResult(s, Len(s.streamed), legs),
         cache |-> IF s.streamed = << >> THEN cache
                   ELSE [cache EXCEPT !.candidate_sets = Store(@, key, StoredCandidates(s))]]
  IN  IF key \in DOMAIN cache.candidate_sets THEN Cached(cache.candidate_sets[key])
      ELSE Fresh(Evaluated(EnumerateCandidates(shape)))

Optimize(cache, intent, bundle, views, policy, config) ==
  LET Prepared(legs) ==
        LET bad == SelectSeq(legs, LAMBDA leg : ~ leg.ok)
        IN  IF bad # << >> THEN [size |-> Head(bad), cache |-> cache]
            ELSE SizePrepared(cache, intent, bundle, legs, policy, config)
  IN  IF intent.legs # << >> /\ Len(intent.legs) < Len(bundle.legs)
      THEN [size |-> Reject("RejectInvalidBundle"), cache |-> cache]
      ELSE Prepared([i \in DOMAIN bundle.legs |-> PrepareLeg(intent, bundle, views, i)])

-----------------------------------------------------------------------------
\* The decision.

\* LimitPriceBuilder::build_buy_limit.
BuildBuyLimit(worst, leg_max_price, config) ==
  LET protected == worst + config.price_protection_buffer_tick
      max_allowed == IF leg_max_price > 0
                        /\ (config.max_allowed_price_tick <= 0 \/ leg_max_price < config.max_allowed_price_tick)
                     THEN leg_max_price ELSE config.max_allowed_price_tick
  IN  IF worst <= 0 THEN Reject("RejectNoDepth")
      ELSE IF ~ Fits(protected) \/ (max_allowed > 0 /\ protected > max_allowed) THEN Reject("RejectPriceProtection")
      ELSE [ok |-> TRUE, limit_price_tick |-> protected]

MultiplyOrZero(a, b) == IF Fits(a * b) THEN a * b ELSE 0

\* The decision of a size, before its limits.
DecisionOf(intent, bundle, policy, now, config, size) ==
  LET qty == size.best.bundle_qty
      default_expiry == now + config.default_ttl_ns
  IN  [source_intent_id |-> intent.intent_id, bundle_id |-> bundle.bundle_id,
       chosen_bundle_qty |-> qty,
       guaranteed_payout_tick |-> size.best.guaranteed_payout_tick,
       estimated_total_cost_tick |-> size.best.total_cost_tick,
       estimated_fee_tick |-> MultiplyOrZero(config.fee_per_bundle_tick, qty),
       latency_buffer_tick |-> MultiplyOrZero(config.latency_buffer_per_bundle_tick, qty),
       slippage_buffer_tick |-> MultiplyOrZero(config.slippage_buffer_per_bundle_tick, qty),
       unit_edge_tick |-> size.best.unit_edge_tick, total_edge_tick |-> size.best.total_edge_tick,
       edge_bps |-> size.best.edge_bps, legs |-> size.legs,
       snapshot_version_hash |-> intent.snapshot_version_hash, bundle_hash |-> intent.bundle_hash,
       policy_hash |-> << policy >>, created_ts_ns |-> now,
       expires_at_ns |-> IF intent.expires_at_ns # 0 THEN Lesser(intent.expires_at_ns, default_expiry)
                         ELSE default_expiry]

\* The first leg whose limit cannot be built rejects the decision.
WithLimits(decision, bundle, config) ==
  LET Limited(limits) ==
        LET bad == SelectSeq(limits, LAMBDA limit : ~ limit.ok)
        IN  IF bad # << >> THEN Head(bad)
            ELSE [ok |-> TRUE,
                  decision |-> [decision EXCEPT !.legs =
                    [i \in DOMAIN decision.legs |->
                       decision.legs[i] @@ [limit_price_tick |-> limits[i].limit_price_tick]]]]
  IN  Limited([i \in DOMAIN decision.legs |->
                 BuildBuyLimit(decision.legs[i].worst_price_tick, bundle.legs[i].max_price_tick, config)])

\* The checks both implementations start with.
InputRejection(intent, bundle, now) ==
  IF intent.expires_at_ns # 0 /\ intent.expires_at_ns <= now THEN "RejectExpiredIntent"
  ELSE IF \/ ~ intent.paper_opportunity
          \/ bundle.bundle_id = 0
          \/ intent.bundle_id # bundle.bundle_id
          \/ Len(bundle.legs) \notin 1 .. kMaxOrderDecisionLegs
  THEN "RejectInvalidBundle"
  ELSE "NoTrade"

\* A result and the cache after it; a decision is remembered under its key.
Remember(cache, key, result) ==
  [result |-> result,
   cache  |-> IF result.ok THEN [cache EXCEPT !.decisions = Store(@, key, result.decision)] ELSE cache]

\* GenericOrderDecisionImpl::decide.
GenericDecide(cache, intent, bundle, views, policy, now, config) ==
  LET key == DecisionMemoKey(intent, bundle, policy, config, now)
      Sized(out) ==
        IF ~ out.size.ok THEN [result |-> out.size, cache |-> out.cache]
        ELSE Remember(out.cache, key,
                      WithLimits(DecisionOf(intent, bundle, policy, now, config, out.size), bundle, config))
  IN  IF InputRejection(intent, bundle, now) # "NoTrade"
      THEN [result |-> Reject(InputRejection(intent, bundle, now)), cache |-> cache]
      ELSE IF key \in DOMAIN cache.decisions
      THEN [result |-> [ok |-> TRUE, decision |-> cache.decisions[key]], cache |-> cache]
      ELSE Sized(Optimize(cache, intent, bundle, views, policy, config))

-----------------------------------------------------------------------------
\* FastFixedShapeOrderDecisionImpl: one candidate, the largest executable quantity.

\* spec_cache_key; the hashes of the artifact and the names of the legs come with the bundle's hash.
SpecKey(intent, bundle) ==
  << bundle.bundle_id, intent.bundle_hash,
     [i \in DOMAIN bundle.legs |->
        << bundle.legs[i].side, bundle.legs[i].quantity_lots >>
        \o (IF i <= Len(intent.legs) THEN << intent.legs[i].asset_index >> ELSE << >>)] >>

\* OrderDecisionCache::fixed_shape_spec, when its key is new.
FixedShapeSpec(intent, bundle) ==
  [guaranteed_payout_per_bundle_tick |-> GuaranteedPerBundle(intent, bundle),
   legs |-> [i \in DOMAIN bundle.legs |->
               [side |-> bundle.legs[i].side, ratio |-> RatioForLeg(intent, bundle, i),
                asset_index |-> IntentAssetIndex(intent, i)]]]

\* find_depth_view of this implementation: index 0 means unknown.
FastFindDepthView(views, asset_index, i) ==
  IF asset_index # 0 THEN FindDepthView(views, asset_index, i)
  ELSE IF i <= Len(views) THEN << views[i] >> ELSE << >>

FastDepthUsable(view, policy, now) ==
  /\ view.usable
  /\ view.asks # << >>
  /\ ~ (policy.max_book_age_ns > 0 /\ view.last_ws_recv_ns # 0 /\ now > view.last_ws_recv_ns
        /\ now - view.last_ws_recv_ns > policy.max_book_age_ns)

FastLegRejection(leg, view, policy, now) ==
  IF leg.side # "Buy" THEN "RejectUnsupportedSide"
  ELSE IF view = << >> \/ ~ FastDepthUsable(view[1], policy, now) THEN "RejectNoDepth"
  ELSE IF AskDepthFromPrefix(DepthPrefix(view[1].asks)) < leg.ratio THEN "RejectNoDepth"
  ELSE "NoTrade"

FirstReason(reasons) ==
  LET bad == SelectSeq(reasons, LAMBDA reason : reason # "NoTrade")
  IN  IF bad = << >> THEN "NoTrade" ELSE Head(bad)

\* The largest quantity every leg's depth covers.
FastBundleQty(spec, depths, config) ==
  LET executable == Min({depths[i] \div spec.legs[i].ratio : i \in DOMAIN depths})
  IN  IF config.max_bundle_qty > 0 THEN Lesser(executable, config.max_bundle_qty) ELSE executable

\* Why the one candidate is rejected leg by leg, in the order of the loop.
FastPricingRejection(spec, depths, priced, qty, policy) ==
  FirstReason([i \in DOMAIN priced |->
    IF ~ Fits(spec.legs[i].ratio * qty) THEN "RejectInternalError"
    ELSE IF depths[i] < CeilRatioBps(spec.legs[i].ratio * qty, policy.min_depth_margin_bps)
    THEN "RejectPartialFillRisk"
    ELSE IF \/ ~ priced[i].ok
            \/ ~ Fits(SumOf([l \in 1 .. i |-> priced[l].total_cost_tick])) THEN "RejectNoDepth"
    ELSE "NoTrade"])

FastEdgeRejection(point, policy) ==
  IF ~ Fits(point.total_cost_tick) THEN "RejectInternalError"
  ELSE IF policy.max_total_cost_tick > 0 /\ point.total_cost_tick > policy.max_total_cost_tick
  THEN "RejectRiskBudget"
  ELSE IF ~ Fits(point.guaranteed_payout_tick) \/ ~ Fits(point.total_edge_tick) THEN "RejectInternalError"
  ELSE IF ~ PassesEdgeThresholds(point.unit_edge_tick, point.total_edge_tick, point.edge_bps, policy)
  THEN "RejectLowEdge"
  ELSE "NoTrade"

FastCharges(config, qty) ==
  MultiplyOrZero(config.fee_per_bundle_tick, qty) + MultiplyOrZero(config.latency_buffer_per_bundle_tick, qty)
  + MultiplyOrZero(config.slippage_buffer_per_bundle_tick, qty)

\* Everything after the memo was missed: the spec, the depth, the one candidate.
FastSized(spec, views, policy, now, config) ==
  LET Evaluated(depths, qty, priced, point) ==
        LET reason == FirstReason(<< FastPricingRejection(spec, depths, priced, qty, policy),
                                     FastEdgeRejection(point, policy) >>)
        IN  IF reason # "NoTrade" THEN Reject(reason)
            ELSE [ok |-> TRUE, best |-> point,
                  legs |-> [i \in DOMAIN priced |->
                              [asset_index |-> views[i].asset_index,
                               quantity_lots |-> spec.legs[i].ratio * qty,
                               estimated_vwap_tick |-> priced[i].vwap_tick,
                               worst_price_tick |-> priced[i].worst_price_tick,
                               estimated_cost_tick |-> priced[i].total_cost_tick]]]
      Priced(depths, qty, priced) ==
        Evaluated(depths, qty, priced,
                  EdgePoint(spec.guaranteed_payout_per_bundle_tick, FastCharges(config, qty),
                            SumOf([i \in DOMAIN priced |-> priced[i].total_cost_tick]), qty))
      Sized(depths, qty) ==
        IF qty < Greater(1, config.min_bundle_qty) \/ qty = MaxI64 THEN Reject("RejectNoDepth")
        ELSE Priced(depths, qty,
                    [i \in DOMAIN views |-> BuyVwapPrefix(views[i].asks, spec.legs[i].ratio * qty)])
      WithDepth(depths) == Sized(depths, FastBundleQty(spec, depths, config))
  IN  WithDepth([i \in DOMAIN views |-> AskDepthFromPrefix(DepthPrefix(views[i].asks))])

FastDecide(cache, intent, bundle, views, policy, now, config) ==
  LET key == DecisionMemoKey(intent, bundle, policy, config, now)
      \* An intent that names no snapshot gets that of the views.
      Named == IF intent.snapshot_version_hash # << >> THEN intent
               ELSE [intent EXCEPT !.snapshot_version_hash = views]
      Finish(known, size) ==
        IF ~ size.ok THEN [result |-> size, cache |-> known]
        ELSE Remember(known, key,
                      WithLimits(DecisionOf(Named, bundle, policy, now, config, size), bundle, config))
      WithViews(known, spec, found) ==
        LET reason == FirstReason([i \in DOMAIN found |-> FastLegRejection(spec.legs[i], found[i], policy, now)])
        IN  IF reason # "NoTrade" THEN [result |-> Reject(reason), cache |-> known]
            ELSE Finish(known, FastSized(spec, [i \in DOMAIN found |-> found[i][1]], policy, now, config))
      WithSpec(known) ==
        WithViews(known, known.specs[SpecKey(intent, bundle)],
                  [i \in DOMAIN bundle.legs |->
                     FastFindDepthView(views, known.specs[SpecKey(intent, bundle)].legs[i].asset_index, i)])
  IN  IF InputRejection(intent, bundle, now) # "NoTrade"
      THEN [result |-> Reject(InputRejection(intent, bundle, now)), cache |-> cache]
      ELSE IF key \in DOMAIN cache.decisions
      THEN [result |-> [ok |-> TRUE, decision |-> cache.decisions[key]], cache |-> cache]
      ELSE WithSpec(IF SpecKey(intent, bundle) \in DOMAIN cache.specs THEN cache
                    ELSE [cache EXCEPT !.specs =
                            Store(@, SpecKey(intent, bundle), FixedShapeSpec(intent, bundle))])

\* OrderDecisionEngine::decide: the fast implementation first when it is configured, the
\* generic one when that is wanted or the fast one declines.
Decide(cache, intent, bundle, views, policy, now, config) ==
  LET AfterFast(fast) ==
        IF fast.result.ok \/ ~ config.fast_fixed_shape_fallback_to_generic THEN fast
        ELSE GenericDecide(fast.cache, intent, bundle, views, policy, now, config)
  IN  IF config.impl_mode = "FastFixedShape"
      THEN AfterFast(FastDecide(cache, intent, bundle, views, policy, now, config))
      ELSE GenericDecide(cache, intent, bundle, views, policy, now, config)
=============================================================================
