--------------------------- MODULE DecisionFastPath ---------------------------
(* engine/decision_fastpath: a bundle decided at once when one of its books       *)
(* changes, without the scan.  The kernel only takes the simplest shape (one ask  *)
(* level per leg, all legs good for the same quantity) and declines the rest; the *)
(* pipeline runs it for every bundle of the changed asset, has risk judge it, and  *)
(* depending on the rollout mode compares it with the generic order decision.     *)
EXTENDS OrderDecision

CONSTANT KernelIntentTtlNs   \* how long an intent of the kernel lives: one second

FastPathMode == {"Disabled", "ShadowCompare", "VerifiedPaper", "PaperAuthoritative"}

FastPathRejectReason ==
  {"None", "MissingBundlePlan", "MissingPolicy", "EmptyBundle", "TooManyLegs", "SellLeg",
   "UnsupportedExecutableSide", "DynamicRuntimeOracleRequired", "MissingDepthView", "BadDepthView",
   "ArtifactHashMismatch", "PolicyHashMismatch", "UniverseVersionMismatch",
   "MissingSettlementMaskDependency", "PolicyIncompatible", "KernelSpecHashMismatch", "RuntimeDisabled"}

kMaxFixedShapeKernelLegs == 16

-----------------------------------------------------------------------------
\* Specs of the kernel, from the runtime plans of the oracle's bundles.

\* market_index_for: markets are numbered as they are first met, over all the plans.
MarketIndexes(plans) ==
  LET met == FoldLeft(LAMBDA seen, plan : FoldLeft(LAMBDA s, leg : IF Contains(s, leg.market_id) THEN s
                                                                   ELSE Append(s, leg.market_id),
                                                   seen, plan.legs),
                      << >>, plans)
  IN  [market \in Range(met) |-> SelectInSeq(met, LAMBDA m : m = market) - 1]

HashOfSpec(spec) == [spec EXCEPT !.kernel_spec_hash = 0]

SpecFromPlan(plan, markets) ==
  LET spec == [artifact_hash |-> plan.oracle_artifact_hash, bundle_hash |-> plan.bundle_hash,
               constraint_hash |-> plan.constraint_hash, bundle_id |-> plan.bundle_id,
               guaranteed_payout_tick |-> plan.guaranteed_payout_tick,
               min_unit_edge_tick |-> plan.min_unit_edge_tick,
               min_total_edge_tick |-> plan.min_total_edge_tick,
               min_edge_bps |-> plan.min_edge_bps, min_bundle_qty |-> 1,
               legs |-> [i \in DOMAIN plan.legs |->
                           [asset_index |-> plan.legs[i].asset_index,
                            market_index |-> markets[plan.legs[i].market_id],
                            side |-> plan.legs[i].side, ratio |-> plan.legs[i].ratio]],
               kernel_spec_hash |-> 0]
  IN  [spec EXCEPT !.kernel_spec_hash = HashOfSpec(spec)]

\* build_from_runtime_plans with rebuild_indexes: ordered by bundle, and nothing at all when
\* two plans have the same bundle.
BuildRegistry(plans) ==
  LET specs == SortSeq([i \in DOMAIN plans |-> SpecFromPlan(plans[i], MarketIndexes(plans))],
                       LAMBDA a, b : a.bundle_id < b.bundle_id)
  IN  IF \E i, j \in DOMAIN specs : i # j /\ specs[i].bundle_id = specs[j].bundle_id THEN << >> ELSE specs

SpecsForAsset(registry, asset_index) ==
  SelectSeq(registry, LAMBDA spec : \E i \in DOMAIN spec.legs : spec.legs[i].asset_index = asset_index)

-----------------------------------------------------------------------------
\* FixedBuyBundleKernelScalar::run.

PolicyIsCompatible(policy) == policy.risk_enabled /\ ~ policy.kill_switch_enabled

KernelFindDepth(views, asset_index) == SelectSeq(views, LAMBDA view : view.asset_index = asset_index)

KernelDepthUsable(view, policy, now) ==
  /\ view.usable
  /\ view.asks # << >>
  /\ ~ (policy.max_book_age_ns > 0 /\ now > view.last_ws_recv_ns
        /\ now - view.last_ws_recv_ns > policy.max_book_age_ns)

\* Why one leg sends the bundle to the general path.
KernelLegReason(leg, found, policy, now) ==
  IF leg.side # "Buy" THEN "SellLeg"
  ELSE IF leg.ratio <= 0 THEN "UnsupportedExecutableSide"
  ELSE IF found = << >> THEN "MissingDepthView"
  ELSE IF ~ KernelDepthUsable(found[1], policy, now) THEN "BadDepthView"
  ELSE IF Len(found[1].asks) # 1 THEN "DynamicRuntimeOracleRequired"
  ELSE IF Available(found[1].asks[1]) < leg.ratio THEN "BadDepthView"
  ELSE "None"

\* The loop over the legs: each leg's reason, and the first leg's quantity that the others
\* must share.
KernelShapeReason(spec, found, policy, now) ==
  LET Qty(i) == Available(found[i][1].asks[1]) \div spec.legs[i].ratio
      Reason(i) ==
        IF KernelLegReason(spec.legs[i], found[i], policy, now) # "None"
        THEN KernelLegReason(spec.legs[i], found[i], policy, now)
        ELSE IF KernelLegReason(spec.legs[1], found[1], policy, now) = "None" /\ Qty(i) # Qty(1)
        THEN "DynamicRuntimeOracleRequired" ELSE "None"
      bad == {i \in DOMAIN found : Reason(i) # "None"}
  IN  IF spec.legs = << >> THEN "EmptyBundle"
      ELSE IF Len(spec.legs) > kMaxFixedShapeKernelLegs THEN "TooManyLegs"
      ELSE IF ~ PolicyIsCompatible(policy) THEN "PolicyIncompatible"
      ELSE IF bad # {} THEN Reason(Min(bad))
      ELSE "None"

KernelMarginFails(spec, priced, qty, policy) ==
  \E i \in DOMAIN priced :
    /\ policy.min_depth_margin_bps > 0
    /\ RatioBps(priced[i].executable_qty_lots, spec.legs[i].ratio * qty) < policy.min_depth_margin_bps

\* edge_rejection: the stricter of the bundle's and the policy's thresholds.
EdgeRejection(spec, edge, bundle_qty, policy) ==
  IF ~ edge.ok THEN "InternalError"
  ELSE IF bundle_qty < Greater(spec.min_bundle_qty, 1) THEN "PartialFillRisk"
  ELSE IF edge.unit_edge_tick < Greater(spec.min_unit_edge_tick, policy.min_post_risk_unit_edge_tick)
  THEN "LowUnitEdge"
  ELSE IF edge.total_edge_tick < Greater(spec.min_total_edge_tick, policy.min_post_risk_total_edge_tick)
  THEN "LowTotalEdge"
  ELSE IF edge.edge_bps < Greater(spec.min_edge_bps, policy.min_edge_bps) THEN "LowEdgeBps"
  ELSE "None"

\* Faulty variant: the cost limit is not looked at.
KernelRejectionNoCostLimit(spec, priced, total_cost, edge, qty, policy) ==
  IF KernelMarginFails(spec, priced, qty, policy) THEN "PartialFillRisk"
  ELSE EdgeRejection(spec, edge, qty, policy)

KernelRejection(spec, priced, total_cost, edge, qty, policy) ==
  IF KernelMarginFails(spec, priced, qty, policy) THEN "PartialFillRisk"
  ELSE IF policy.max_total_cost_tick > 0 /\ total_cost > policy.max_total_cost_tick THEN "CostLimit"
  ELSE EdgeRejection(spec, edge, qty, policy)

\* fill_intent: the opportunity the kernel saw, good for one TTL.
KernelIntent(spec, views, qty, total_cost, edge, now, rejection) ==
  [bundle_id |-> spec.bundle_id, bundle_hash |-> spec.bundle_hash,
   intent_id |-> << spec.bundle_id, spec.bundle_hash, views, qty, edge.unit_edge_tick >>,
   snapshot_version_hash |-> views,
   paper_opportunity |-> rejection = "None", bundle_qty |-> qty,
   guaranteed_payout_tick |-> Saturate(spec.guaranteed_payout_tick * qty),
   estimated_cost_tick |-> total_cost, unit_edge_tick |-> edge.unit_edge_tick,
   total_edge_tick |-> edge.total_edge_tick, edge_bps |-> edge.edge_bps,
   expires_at_ns |-> now + KernelIntentTtlNs,
   legs |-> [i \in DOMAIN spec.legs |->
               [asset_index |-> spec.legs[i].asset_index, quantity_lots |-> spec.legs[i].ratio]]]

\* fill_order_decision: the limits are the prices the cost was computed from.
KernelDecision(spec, intent, priced, policy, now) ==
  [source_intent_id |-> intent.intent_id, bundle_id |-> intent.bundle_id,
   chosen_bundle_qty |-> intent.bundle_qty, guaranteed_payout_tick |-> intent.guaranteed_payout_tick,
   estimated_total_cost_tick |-> intent.estimated_cost_tick,
   estimated_fee_tick |-> 0, latency_buffer_tick |-> 0, slippage_buffer_tick |-> 0,
   unit_edge_tick |-> intent.unit_edge_tick, total_edge_tick |-> intent.total_edge_tick,
   edge_bps |-> intent.edge_bps,
   legs |-> [i \in DOMAIN spec.legs |->
               [asset_index |-> spec.legs[i].asset_index,
                quantity_lots |-> spec.legs[i].ratio * intent.bundle_qty,
                estimated_vwap_tick |-> priced[i].vwap_tick, worst_price_tick |-> priced[i].worst_price_tick,
                estimated_cost_tick |-> priced[i].total_cost_tick,
                limit_price_tick |-> priced[i].worst_price_tick]],
   snapshot_version_hash |-> intent.snapshot_version_hash, bundle_hash |-> intent.bundle_hash,
   policy_hash |-> IF policy.hashed THEN << policy >> ELSE << >>,
   created_ts_ns |-> now, expires_at_ns |-> intent.expires_at_ns]

KernelFallback(reason) == [fallback |-> TRUE, reject_reason |-> reason]

KernelRun(spec, views, policy, now) ==
  LET Produced(found, priced, qty, intent, rejection) ==
        [fallback |-> FALSE, intent |-> intent, risk_reject_reason |-> rejection,
         order_decision |-> IF rejection = "None" THEN << KernelDecision(spec, intent, priced, policy, now) >>
                            ELSE << >>]
      Judged(found, priced, qty, total_cost, edge, rejection) ==
        Produced(found, priced, qty,
                 KernelIntent(spec, found, qty, total_cost, edge, now, rejection), rejection)
      Edged(found, priced, qty, total_cost, edge) ==
        Judged(found, priced, qty, total_cost, edge,
               KernelRejection(spec, priced, total_cost, edge, qty, policy))
      Priced(found, priced, qty, total_cost) ==
        IF \E i \in DOMAIN priced : ~ priced[i].ok THEN KernelFallback("BadDepthView")
        ELSE IF ~ Fits(total_cost) THEN KernelFallback("UnsupportedExecutableSide")
        ELSE Edged(found, priced, qty, total_cost,
                   ComputeEdge(spec.guaranteed_payout_tick, CeilDivPositive(total_cost, qty), 0, 0, 0, qty))
      WithPrices(found, qty, priced) ==
        Priced(found, priced, qty, SumOf([i \in DOMAIN priced |-> priced[i].total_cost_tick]))
      Shaped(found, qty) ==
        WithPrices(found, qty,
                   [i \in DOMAIN found |-> BuyVwapPrefix(found[i][1].asks, spec.legs[i].ratio * qty)])
      WithViews(found, reason) ==
        IF reason # "None" THEN KernelFallback(reason)
        ELSE Shaped(found, Available(found[1][1].asks[1]) \div spec.legs[1].ratio)
      Found(found) == WithViews(found, KernelShapeReason(spec, found, policy, now))
  IN  Found([i \in DOMAIN spec.legs |-> KernelFindDepth(views, spec.legs[i].asset_index)])

-----------------------------------------------------------------------------
\* FastPathGate: whether a plan may take the fast path at all.

\* first_reject_reason.  A hash or a version of 0 is one that is not known, and matches none.
Known(value, expected) == value # 0 /\ value = expected

GateLegReason(leg, found) ==
  IF leg.side # "Buy" THEN "SellLeg"
  ELSE IF found = << >> THEN "MissingDepthView"
  ELSE IF ~ found[1].usable \/ found[1].asks = << >> THEN "BadDepthView"
  ELSE "None"

GateReason(plan, views, policy, expected, universe_version, masks_available, dynamic_check) ==
  LET Reason(i) == GateLegReason(plan.legs[i], KernelFindDepth(views, plan.legs[i].asset_index))
      bad == {i \in DOMAIN plan.legs : Reason(i) # "None"}
  IN  IF plan.legs = << >> THEN "EmptyBundle"
      ELSE IF Len(plan.legs) > expected.max_supported_legs THEN "TooManyLegs"
      ELSE IF dynamic_check THEN "DynamicRuntimeOracleRequired"
      ELSE IF ~ Known(plan.oracle_artifact_hash, expected.artifact_hash) THEN "ArtifactHashMismatch"
      ELSE IF ~ (policy.hashed /\ policy.expected) THEN "PolicyHashMismatch"
      ELSE IF ~ Known(universe_version, expected.universe_version) THEN "UniverseVersionMismatch"
      ELSE IF ~ masks_available /\ plan.has_masks THEN "MissingSettlementMaskDependency"
      ELSE IF ~ PolicyIsCompatible(policy) THEN "PolicyIncompatible"
      ELSE IF bad # {} THEN Reason(Min(bad))
      ELSE "None"

-----------------------------------------------------------------------------
\* reference_generic_decision: what the probe compares the kernel with.

ReferenceLegReason(leg, found, policy, now) ==
  IF leg.side # "Buy" THEN "SellLeg"
  ELSE IF leg.ratio <= 0 THEN "UnsupportedExecutableSide"
  ELSE IF found = << >> THEN "MissingDepthView"
  ELSE IF ~ KernelDepthUsable(found[1], policy, now) THEN "BadDepthView"
  ELSE IF AskDepthFromPrefix(DepthPrefix(found[1].asks)) < leg.ratio THEN "BadDepthView"
  ELSE "None"

\* What the legs add to one key of the ledger.
AddedTo(keys, amounts, key) == SumOf([i \in DOMAIN keys |-> IF keys[i] = key THEN amounts[i] ELSE 0])

\* The limits against what the ledger holds already: in all, per market, per asset.
LedgerRejection(legs, costs, lots, total_cost, policy, ledger) ==
  LET markets == [i \in DOMAIN legs |-> legs[i].market_index]
      assets  == [i \in DOMAIN legs |-> legs[i].asset_index]
  IN  IF policy.max_total_exposure_tick > 0 /\ ledger.total + total_cost > policy.max_total_exposure_tick
      THEN "TotalExposureLimit"
      ELSE IF /\ policy.max_single_market_exposure_tick > 0
              /\ \E m \in Range(markets) :
                   ledger.market[m] + AddedTo(markets, costs, m) > policy.max_single_market_exposure_tick
      THEN "SingleMarketExposureLimit"
      ELSE IF /\ policy.max_inventory_lots_per_asset > 0
              /\ \E a \in Range(assets) :
                   ledger.asset[a] + AddedTo(assets, lots, a) > policy.max_inventory_lots_per_asset
      THEN "InventoryLimit"
      ELSE "None"

\* risk_limit_rejection.
RiskLimitRejection(spec, priced, qty, total_cost, policy, ledger) ==
  IF policy.max_total_cost_tick > 0 /\ total_cost > policy.max_total_cost_tick THEN "CostLimit"
  ELSE LedgerRejection(spec.legs, [i \in DOMAIN priced |-> priced[i].total_cost_tick],
                       [i \in DOMAIN priced |-> spec.legs[i].ratio * qty], total_cost, policy, ledger)

ReferenceDecision(spec, views, policy, ledger, now) ==
  LET Judged(qty, priced, total_cost, edge) ==
        [fallback |-> FALSE, bundle_qty |-> qty, total_cost_tick |-> total_cost,
         unit_edge_tick |-> edge.unit_edge_tick, total_edge_tick |-> edge.total_edge_tick,
         edge_bps |-> edge.edge_bps,
         risk_reject_reason |-> IF EdgeRejection(spec, edge, qty, policy) # "None"
                                THEN EdgeRejection(spec, edge, qty, policy)
                                ELSE RiskLimitRejection(spec, priced, qty, total_cost, policy, ledger)]
      Priced(qty, priced, total_cost) ==
        IF \E i \in DOMAIN priced : ~ priced[i].ok THEN KernelFallback("BadDepthView")
        ELSE IF ~ Fits(total_cost) THEN KernelFallback("UnsupportedExecutableSide")
        ELSE Judged(qty, priced, total_cost,
                    ComputeEdge(spec.guaranteed_payout_tick, CeilDivPositive(total_cost, qty), 0, 0, 0, qty))
      WithPrices(qty, priced) == Priced(qty, priced, SumOf([i \in DOMAIN priced |-> priced[i].total_cost_tick]))
      Sized(found, qty) ==
        WithPrices(qty, [i \in DOMAIN found |-> BuyVwapLinear(found[i][1].asks, spec.legs[i].ratio * qty)])
      Found(found) ==
        LET bad == {i \in DOMAIN found : ReferenceLegReason(spec.legs[i], found[i], policy, now) # "None"}
        IN  IF spec.legs = << >> THEN KernelFallback("EmptyBundle")
            ELSE IF Len(spec.legs) > kMaxFixedShapeKernelLegs THEN KernelFallback("TooManyLegs")
            ELSE IF ~ PolicyIsCompatible(policy) THEN KernelFallback("PolicyIncompatible")
            ELSE IF bad # {}
            THEN KernelFallback(ReferenceLegReason(spec.legs[Min(bad)], found[Min(bad)], policy, now))
            ELSE Sized(found, Min({AskDepthFromPrefix(DepthPrefix(found[i][1].asks)) \div spec.legs[i].ratio :
                                     i \in DOMAIN found}))
  IN  Found([i \in DOMAIN spec.legs |-> KernelFindDepth(views, spec.legs[i].asset_index)])

-----------------------------------------------------------------------------
\* EventLocalDecisionPipeline.

\* effective_fast_path_config: the fields older callers still set count only when none of
\* the new ones is.  Of a rate, only whether it samples at all.
EffectiveFastPathConfig(config) ==
  IF \/ config.fast_path.mode # "Disabled"
     \/ config.fast_path.enable_fixed_buy_kernel
     \/ config.fast_path.enable_simd
  THEN config.fast_path
  ELSE [config.fast_path EXCEPT
          !.mode = IF config.fast_path_enabled THEN config.mode ELSE "Disabled",
          !.enable_fixed_buy_kernel = config.fast_path_enabled,
          !.samples = config.periodic_sample_verification_enabled /\ config.sample_verification_interval > 0]

NoFastPathResult(mode) ==
  [mode |-> mode, produced_plan |-> FALSE, fallback_required |-> FALSE, publish_allowed |-> FALSE,
   reservation_allowed |-> FALSE, verify |-> FALSE, authoritative |-> FALSE, mismatch |-> FALSE,
   reject_reason |-> "None", intent |-> << >>, order_decision |-> << >>, risk_reject_reason |-> "None"]

FallbackResult(mode, reason) ==
  [NoFastPathResult(mode) EXCEPT !.fallback_required = TRUE, !.verify = TRUE, !.reject_reason = reason]

\* Faulty variant: the fresh engine's own, empty ledger is used instead of the caller's.
RiskVerdictOwnLedger(spec, decision, policy, ledger) ==
  IF decision.policy_hash # << policy >> THEN "InvalidIntent" ELSE "None"

\* The verdict of the RiskEngine that complete_risk_and_plan makes for one decision.  It has
\* nothing reserved and nothing seen, and reuses the figures of books that have just been
\* found usable: what is left to refuse is the decision against the policy and against the
\* ledger the caller passes; intent_from_decision counts one lot for each leg.  An approved decision
\* always yields a plan.
RiskVerdict(spec, decision, policy, ledger) ==
  IF decision.policy_hash # << policy >> THEN "InvalidIntent"
  ELSE IF policy.max_total_cost_tick > 0 /\ decision.estimated_total_cost_tick > policy.max_total_cost_tick
    THEN "CostLimit"
  ELSE IF ~ PassesEdgeThresholds(decision.unit_edge_tick, decision.total_edge_tick, decision.edge_bps, policy)
    THEN "LowTotalEdge"
  ELSE LedgerRejection(spec.legs, [i \in DOMAIN decision.legs |-> decision.legs[i].estimated_cost_tick],
                       [i \in DOMAIN decision.legs |-> 1], decision.estimated_total_cost_tick, policy, ledger)

CompleteRiskAndPlan(result, spec, policy, ledger) ==
  LET reason == RiskVerdict(spec, result.order_decision[1], policy, ledger)
  IN  [result EXCEPT !.risk_reject_reason = reason, !.produced_plan = reason = "None"]

\* apply_rollout_policy; sampled stands for the bucket of the output hash.
ApplyRolloutPolicy(result, mode, sampled) ==
  [result EXCEPT !.publish_allowed = result.produced_plan /\ mode \in {"VerifiedPaper", "PaperAuthoritative"},
                 !.reservation_allowed = result.produced_plan /\ mode = "PaperAuthoritative",
                 !.authoritative = result.produced_plan /\ mode = "PaperAuthoritative",
                 !.verify = mode # "PaperAuthoritative" \/ (result.produced_plan /\ sampled)]

\* copy_kernel_result.
FromKernel(kernel, spec, mode, policy, ledger, sampled) ==
  LET base == [NoFastPathResult(mode) EXCEPT
                 !.intent = << kernel.intent >>, !.order_decision = kernel.order_decision,
                 !.risk_reject_reason = kernel.risk_reject_reason]
  IN  IF kernel.fallback THEN FallbackResult(mode, kernel.reject_reason)
      ELSE ApplyRolloutPolicy(IF kernel.order_decision = << >> THEN base
                              ELSE CompleteRiskAndPlan(base, spec, policy, ledger), mode, sampled)

\* bundle_from_spec and generic_order_decision_result: the same bundle through the generic
\* order decision with its default configuration.
BundleFromSpec(spec) ==
  [bundle_id |-> spec.bundle_id, guaranteed_payout_tick |-> spec.guaranteed_payout_tick,
   legs |-> [i \in DOMAIN spec.legs |->
               [side |-> spec.legs[i].side, quantity_lots |-> spec.legs[i].ratio, max_price_tick |-> 0]]]

\* risk_reason_for.  The books the kernel takes have one level, so the optimizer evaluates one
\* quantity, the one of the intent, and its counters name the thresholds that one misses.
RiskReasonFor(reason, point, policy) ==
  CASE reason = "RejectLowEdge" ->
         IF point.unit_edge_tick < policy.min_post_risk_unit_edge_tick THEN "LowUnitEdge"
         ELSE IF point.total_edge_tick < policy.min_post_risk_total_edge_tick THEN "LowTotalEdge"
         ELSE "LowEdgeBps"
    [] reason \in {"RejectNoDepth", "RejectPartialFillRisk"} -> "PartialFillRisk"
    [] reason = "RejectExpiredIntent" -> "ExpiredIntent"
    [] reason = "RejectRiskBudget" -> "CostLimit"
    [] OTHER -> "InvalidIntent"

GenericResult(spec, intent, views, policy, ledger, now, mode) ==
  LET source == [intent EXCEPT !.paper_opportunity = TRUE]
      base == [NoFastPathResult(mode) EXCEPT !.intent = << source >>]
      Decided(result) ==
        IF ~ result.ok
        THEN [base EXCEPT !.intent = << [intent EXCEPT !.paper_opportunity = FALSE] >>,
                          !.risk_reject_reason = RiskReasonFor(result.reject_reason, intent, policy)]
        ELSE CompleteRiskAndPlan([base EXCEPT !.order_decision = << result.decision >>], spec, policy, ledger)
  IN  Decided(Decide(EmptyCache, source, BundleFromSpec(spec), views, policy, now,
                     DefaultOrderDecisionConfig).result)

\* compare_decision_snapshots over snapshot_from_fast_result.
SameDecision(fast, generic) ==
  /\ fast.produced_plan = generic.produced_plan
  /\ fast.risk_reject_reason = generic.risk_reject_reason
  /\ fast.intent = generic.intent
  /\ fast.order_decision # << >> /\ generic.order_decision # << >> =>
       fast.order_decision = generic.order_decision

\* The runtime state: whether mismatches have switched the pipeline off, and their number.
InitialRuntime == [disabled |-> FALSE, mismatch_count |-> 0]

\* What the comparison does to the best result.  In the authoritative mode a mismatch
\* withdraws it, and enough of them switch the pipeline off; in the others the generic
\* result replaces it.
Reconcile(best, generic, runtime, fast_path) ==
  LET match == SameDecision(best, generic)
      plain == [generic EXCEPT !.reservation_allowed = FALSE, !.authoritative = FALSE, !.mismatch = ~ match]
      count == runtime.mismatch_count + 1
  IN  IF match /\ fast_path.mode # "ShadowCompare" THEN [result |-> best, runtime |-> runtime]
      ELSE IF ~ match /\ fast_path.mode = "PaperAuthoritative"
      THEN [result  |-> [FallbackResult(fast_path.mode, "RuntimeDisabled") EXCEPT
                          !.mismatch = TRUE, !.order_decision = best.order_decision],
            runtime |-> [disabled |-> count >= fast_path.max_mismatches_before_disable,
                         mismatch_count |-> count]]
      ELSE [result  |-> [plain EXCEPT !.publish_allowed =
                           ~ match /\ fast_path.mode = "VerifiedPaper" /\ generic.produced_plan],
            runtime |-> runtime]

\* Why a spec sends the event to the general path before the kernel runs.
SpecReason(spec, config, fast_path) ==
  IF fast_path.require_kernel_spec_hash_match /\ spec.kernel_spec_hash # HashOfSpec(spec)
  THEN "KernelSpecHashMismatch"
  ELSE IF fast_path.require_artifact_hash_match
          /\ (\/ config.expected_artifact_hash = 0 \/ spec.artifact_hash # config.expected_artifact_hash
              \/ config.expected_constraint_hash = 0 \/ spec.constraint_hash # config.expected_constraint_hash)
  THEN "ArtifactHashMismatch"
  ELSE IF Len(spec.legs) > config.max_supported_legs THEN "TooManyLegs"
  ELSE "None"

\* Of the results of the affected specs, in their order: the first that must fall back, else
\* the one with the largest edge, the smallest bundle on a tie.
BestOf(results) ==
  LET fallbacks == SelectSeq(results, LAMBDA r : r.fallback_required)
      Better(a, b) == \/ a.intent[1].total_edge_tick > b.intent[1].total_edge_tick
                      \/ /\ a.intent[1].total_edge_tick = b.intent[1].total_edge_tick
                         /\ a.intent[1].bundle_id < b.intent[1].bundle_id
  IN  IF fallbacks # << >> THEN Head(fallbacks)
      ELSE FoldLeft(LAMBDA best, r : IF Better(r, best) THEN r ELSE best, Head(results), Tail(results))

\* process: one event of the changed asset.
Process(runtime, registry, config, dirty, views, policy, ledger, now, sampled) ==
  LET fast_path == EffectiveFastPathConfig(config)
      Unchanged(result) == [result |-> result, runtime |-> runtime]
      Fallback(reason) == Unchanged(FallbackResult(fast_path.mode, reason))
      ResultOf(spec) ==
        IF SpecReason(spec, config, fast_path) # "None"
        THEN FallbackResult(fast_path.mode, SpecReason(spec, config, fast_path))
        ELSE FromKernel(KernelRun(spec, views, policy, now), spec, fast_path.mode, policy,
                        ledger, sampled)
      Verified(best) ==
        IF best.fallback_required \/ ~ best.verify THEN Unchanged(best)
        ELSE Reconcile(best,
                       GenericResult(SelectSeq(registry, LAMBDA s : s.bundle_id = best.intent[1].bundle_id)[1],
                                     best.intent[1], views, policy, ledger, now, fast_path.mode),
                       runtime, fast_path)
      Affected(specs) ==
        IF specs = << >> THEN Unchanged(NoFastPathResult(fast_path.mode))
        ELSE IF fast_path.require_policy_hash_match /\ ~ (policy.hashed /\ policy.expected)
        THEN Fallback("PolicyHashMismatch")
        ELSE Verified(BestOf([i \in DOMAIN specs |-> ResultOf(specs[i])]))
  IN  IF runtime.disabled \/ fast_path.mode = "Disabled" THEN Fallback("RuntimeDisabled")
      ELSE IF ~ fast_path.enable_fixed_buy_kernel \/ ~ PolicyIsCompatible(policy)
      THEN Fallback("PolicyIncompatible")
      ELSE Affected(SpecsForAsset(registry, dirty))
=============================================================================
