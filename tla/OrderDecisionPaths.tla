-------------------------- MODULE OrderDecisionPaths --------------------------
(* One order decision engine with its cache, and one event-local pipeline, used    *)
(* over and over while the books, the clock and the policy change between calls.   *)
(* Each call is one step: both run on the caller's thread.  They share no state,   *)
(* so that a behaviour uses one of the two.                                        *)
EXTENDS DecisionFastPath

CONSTANTS
  AskSides,       \* the ask sides a book can have
  Plans,          \* the runtime plans of the oracle's bundles
  BundleOf,       \* for each plan, by position, its candidate bundle
  Budgets,        \* what the account can still spend, at different times
  Margins,        \* the depth margins that policies ask for
  Configurations, \* OrderDecisionConfigs with EventLocalDecisionPipelineConfigs and first policies
  Ledgers,        \* the ledgers the caller can pass to the pipeline
  MaxNow,         \* bound on the clock
  MaxUpdates,     \* bound on the changes of books and policy
  MaxCalls,       \* bound on the calls of the engine
  MaxEvents       \* bound on the events the pipeline processes

AssetIndexes == {leg.asset_index : leg \in UNION {Range(Plans[i].legs) : i \in DOMAIN Plans}}

VARIABLES
  engine_config, pipeline_config,
  books,          \* for each asset index, its depth view
  policy,
  now,
  cache,          \* the engine's OrderDecisionCache
  strictest,      \* the largest depth margin the engine has been asked under
  runtime,        \* the pipeline's FastPathRuntimeState
  asked,          \* the last question put to the engine, and its answer
  processed,      \* the last event the pipeline processed, and its result
  updates, calls, events

vars == << engine_config, pipeline_config, books, policy, now, cache, strictest, runtime, asked, processed,
           updates, calls, events >>

Registry == BuildRegistry(Plans)

NewView(a, asks, usable, at) == [asset_index |-> a, asks |-> asks, usable |-> usable, last_ws_recv_ns |-> at]

Views == SetToSortSeq(Range(books), LAMBDA a, b : a.asset_index < b.asset_index)

Init ==
  /\ \E c \in Configurations : engine_config = c.engine /\ pipeline_config = c.pipeline /\ policy = c.policy
  /\ books \in {[a \in AssetIndexes |-> NewView(a, asks[a], TRUE, 1)] : asks \in [AssetIndexes -> AskSides]}
  /\ now = 1
  /\ cache = EmptyCache
  /\ strictest = 0
  /\ runtime = InitialRuntime
  /\ asked = << >>
  /\ processed = << >>
  /\ updates = 0
  /\ calls = 0
  /\ events = 0

\* A book changes or becomes unusable, and the view of it is read again.
UpdateBook(a, asks, usable) ==
  /\ updates < MaxUpdates
  /\ IF usable THEN books[a].asks # asks ELSE books[a].asks = asks
  /\ books' = [books EXCEPT ![a] = NewView(a, asks, usable, now)]
  /\ updates' = updates + 1
  /\ asked' = << >> /\ processed' = << >>
  /\ UNCHANGED << engine_config, pipeline_config, policy, now, cache, strictest, runtime, calls, events >>

\* The account's cash changes: the driver limits cost and exposure to what is left of it, and
\* leaves the rest of the policy alone.
ChangeBudget(budget) ==
  /\ updates < MaxUpdates
  /\ budget # policy.max_total_cost_tick
  /\ policy' = [policy EXCEPT !.max_total_cost_tick = budget, !.max_total_exposure_tick = budget]
  /\ updates' = updates + 1
  /\ asked' = << >> /\ processed' = << >>
  /\ UNCHANGED << engine_config, pipeline_config, books, now, cache, strictest, runtime, calls, events >>

\* The caller passes a policy with another depth margin; the cache stays.
ChangeMargin(margin) ==
  /\ updates < MaxUpdates
  /\ margin # policy.min_depth_margin_bps
  /\ policy' = [policy EXCEPT !.min_depth_margin_bps = margin]
  /\ updates' = updates + 1
  /\ asked' = << >> /\ processed' = << >>
  /\ UNCHANGED << engine_config, pipeline_config, books, now, cache, strictest, runtime, calls, events >>

Tick ==
  /\ now < MaxNow
  /\ now' = now + 1
  /\ asked' = << >> /\ processed' = << >>
  /\ UNCHANGED << engine_config, pipeline_config, books, policy, cache, strictest, runtime, updates, calls, events >>

\* The intent a scan would publish for a plan: it names the views it priced.
IntentFor(plan) ==
  [intent_id |-> << plan.bundle_id, Views >>, bundle_id |-> plan.bundle_id, bundle_hash |-> plan.bundle_hash,
   paper_opportunity |-> TRUE, expires_at_ns |-> MaxNow, guaranteed_payout_tick |-> plan.guaranteed_payout_tick,
   snapshot_version_hash |-> Views,
   legs |-> [i \in DOMAIN plan.legs |-> [asset_index |-> plan.legs[i].asset_index,
                                         quantity_lots |-> plan.legs[i].ratio]]]

\* OrderDecisionEngine::decide for the bundle of the i-th plan.
AskEngine(i) ==
  /\ calls < MaxCalls /\ events = 0
  /\ calls' = calls + 1
  /\ \E answer \in {Decide(cache, IntentFor(Plans[i]), BundleOf[i], Views, policy, now, engine_config)} :
       /\ cache' = answer.cache
       /\ asked' = << [plan |-> i, result |-> answer.result] >>
  /\ strictest' = Greater(strictest, policy.min_depth_margin_bps)
  /\ processed' = << >>
  /\ UNCHANGED << engine_config, pipeline_config, books, policy, now, runtime, updates, events >>

\* EventLocalDecisionPipeline::process for an event of asset a.
ProcessEvent(a, ledger, sampled) ==
  /\ events < MaxEvents /\ calls = 0
  /\ events' = events + 1
  /\ sampled => EffectiveFastPathConfig(pipeline_config).samples
  /\ \E answer \in {Process(runtime, Registry, pipeline_config, a, Views, policy, ledger, now, sampled)} :
       /\ runtime' = answer.runtime
       /\ processed' = << [dirty |-> a, ledger |-> ledger, result |-> answer.result] >>
  /\ asked' = << >>
  /\ UNCHANGED << engine_config, pipeline_config, books, policy, now, cache, strictest, updates, calls >>

Next ==
  \/ \E a \in AssetIndexes, asks \in AskSides, usable \in BOOLEAN : UpdateBook(a, asks, usable)
  \/ \E budget \in Budgets : ChangeBudget(budget)
  \/ \E margin \in Margins : ChangeMargin(margin)
  \/ Tick
  \/ \E i \in DOMAIN Plans : AskEngine(i)
  \/ \E a \in AssetIndexes, ledger \in Ledgers, sampled \in BOOLEAN : ProcessEvent(a, ledger, sampled)

Spec == Init /\ [][Next]_vars

-----------------------------------------------------------------------------
(* What the decisions are measured against, computed from the books alone.          *)

LegAsks(i) == [k \in DOMAIN Plans[i].legs |-> books[Plans[i].legs[k].asset_index].asks]

CumulativeDepth(asks) == [l \in DOMAIN asks |-> SumOf([j \in 1 .. l |-> Available(asks[j])])]

Depth(asks) == SumOf([l \in DOMAIN asks |-> Available(asks[l])])

\* The quantities at which some leg uses up a level, none above the configured maximum.
Breakpoints(i) ==
  LET used == UNION {{depth \div Plans[i].legs[k].ratio : depth \in Range(CumulativeDepth(LegAsks(i)[k]))} :
                       k \in DOMAIN Plans[i].legs}
      most == engine_config.max_bundle_qty
  IN  {IF most > 0 THEN Lesser(q, most) ELSE q : q \in used \ {0}}

\* A quantity with the depth margin the policy wants behind every leg.
HasMargin(i, q) ==
  \A k \in DOMAIN Plans[i].legs :
    LET lots == Plans[i].legs[k].ratio * q
    IN  /\ Depth(LegAsks(i)[k]) >= lots
        /\ Depth(LegAsks(i)[k]) * 10000 >= policy.min_depth_margin_bps * lots

\* The cost of a quantity, each leg bought level by level.
CostOf(i, q) ==
  SumOf([k \in DOMAIN Plans[i].legs |-> BuyVwapLinear(LegAsks(i)[k], Plans[i].legs[k].ratio * q).total_cost_tick])

PointOf(i, q) == EdgePoint(BundleOf[i].guaranteed_payout_tick, Charges(engine_config) * q, CostOf(i, q), q)

Worth(point) ==
  /\ policy.max_total_cost_tick > 0 => point.total_cost_tick <= policy.max_total_cost_tick
  /\ PassesEdgeThresholds(point.unit_edge_tick, point.total_edge_tick, point.edge_bps, policy)

Eligible(i) == {q \in Breakpoints(i) : HasMargin(i, q) /\ Worth(PointOf(i, q))}

\* The decision's figures are those of its quantity in the books it was made from.
FiguresAreTrue(i, d) ==
  /\ d.estimated_total_cost_tick = PointOf(i, d.chosen_bundle_qty).total_cost_tick
  /\ d.total_edge_tick = PointOf(i, d.chosen_bundle_qty).total_edge_tick
  /\ \A k \in DOMAIN d.legs :
       LET filled == BuyVwapLinear(LegAsks(i)[k], d.legs[k].quantity_lots)
       IN  filled.ok /\ filled.worst_price_tick <= d.legs[k].limit_price_tick

-----------------------------------------------------------------------------
(* Properties.                                                                     *)

\* No quantity that the cache has left out can be wanted now: a candidate set ends where the depth
\* margin ended its enumeration, and its key (make_candidate_set_key) does not name the margin.
CandidatesReachFarEnough == strictest <= policy.min_depth_margin_bps

\* What the engine answers with its cache (OrderDecisionCache) is what it would answer with an
\* empty one, whatever books, budgets and times the cache was filled under, as long as no policy
\* before asked for more depth margin than this one.  After a stricter policy the answer is the one
\* of a shorter candidate set: it may be a worse decision or none, but never one where an empty
\* cache would give none, and never one with more edge.
CacheIsTransparent ==
  \A k \in DOMAIN asked :
    LET result == asked[k].result
        fresh  == Decide(EmptyCache, IntentFor(Plans[asked[k].plan]), BundleOf[asked[k].plan], Views,
                         policy, now, engine_config).result
    IN  /\ CandidatesReachFarEnough => result = fresh
        /\ result.ok => fresh.ok /\ fresh.decision.total_edge_tick >= result.decision.total_edge_tick

\* BundleSizeOptimizer::optimize: a decision of the generic implementation is for a quantity
\* with margin and worth its edge, with the figures the books give.  Unless a stricter policy cut
\* the candidates short, no other quantity at which a level is used up is better, and when it finds
\* none for an intent that has not expired, there is none.
GenericDecidesBest ==
  \A k \in DOMAIN asked :
    LET i == asked[k].plan
        d == asked[k].result.decision
    IN  /\ engine_config.impl_mode = "Generic"
        /\ \A a \in AssetIndexes : books[a].usable
        => IF asked[k].result.ok
           THEN /\ d.chosen_bundle_qty \in Eligible(i)
                /\ FiguresAreTrue(i, d)
                /\ CandidatesReachFarEnough => \A q \in Eligible(i) :
                     ~ BetterEdgeCandidate(PointOf(i, q), PointOf(i, d.chosen_bundle_qty))
           ELSE asked[k].result.reject_reason # "RejectExpiredIntent" /\ CandidatesReachFarEnough
                  => Eligible(i) = {}

\* FastFixedShapeOrderDecisionImpl: what the fast implementation decides is sound, and the
\* generic one, asked the same, decides too and finds at least as much edge.
FastIsNeverBetter ==
  \A k \in DOMAIN asked :
    LET i == asked[k].plan
        d == asked[k].result.decision
    IN  engine_config.impl_mode = "FastFixedShape" /\ asked[k].result.ok
        => /\ HasMargin(i, d.chosen_bundle_qty) /\ Worth(PointOf(i, d.chosen_bundle_qty))
           /\ FiguresAreTrue(i, d)
           /\ \E q \in Eligible(i) : PointOf(i, q).total_edge_tick >= d.total_edge_tick

\* Both implementations decide soundly, and the generic one decides best.
DecisionsAreBest == GenericDecidesBest /\ FastIsNeverBetter

PlanOf(bundle_id) == CHOOSE i \in DOMAIN Plans : Plans[i].bundle_id = bundle_id

\* EventLocalDecisionPipeline: a result that may be published has a plan whose cost and
\* exposure the policy and the ledger allow, whose edge meets the policy, and whose legs the
\* books fill at its limits; the shadow mode publishes nothing, and only the authoritative
\* mode may reserve.
PublishedPlanIsSound ==
  \A k \in DOMAIN processed :
    LET result == processed[k].result
        d == result.order_decision[1]
    IN  /\ result.publish_allowed =>
             /\ result.produced_plan /\ ~ result.fallback_required
             /\ result.mode \in {"VerifiedPaper", "PaperAuthoritative"}
             /\ policy.max_total_cost_tick > 0 => d.estimated_total_cost_tick <= policy.max_total_cost_tick
             /\ policy.max_total_exposure_tick > 0 =>
                  processed[k].ledger.total + d.estimated_total_cost_tick <= policy.max_total_exposure_tick
             /\ PassesEdgeThresholds(d.unit_edge_tick, d.total_edge_tick, d.edge_bps, policy)
             /\ \A j \in DOMAIN d.legs :
                  LET filled == BuyVwapLinear(LegAsks(PlanOf(d.bundle_id))[j], d.legs[j].quantity_lots)
                  IN  filled.ok /\ filled.worst_price_tick <= d.legs[j].limit_price_tick
        /\ result.reservation_allowed => result.authoritative /\ result.publish_allowed

StricterThanPolicy(i) ==
  \/ Plans[i].min_unit_edge_tick > policy.min_post_risk_unit_edge_tick
  \/ Plans[i].min_total_edge_tick > policy.min_post_risk_total_edge_tick
  \/ Plans[i].min_edge_bps > policy.min_edge_bps

\* FixedBuyBundleKernelScalar decides every bundle it takes as the generic order decision
\* does (compare_decision_snapshots finds no mismatch), as long as no bundle asks for more
\* edge than the policy and the policy carries its hash; so mismatches never switch the
\* pipeline off.
KernelMatchesGeneric ==
  /\ ~ runtime.disabled
  /\ \A k \in DOMAIN processed :
       policy.hashed /\ (\A i \in DOMAIN Plans : ~ StricterThanPolicy(i)) => ~ processed[k].result.mismatch

\* What the kernel decides, reference_generic_decision approves with the same figures, unless
\* the ledger is what it refuses for: the kernel leaves the ledger to risk.
KernelAgreesWithReference ==
  processed # << >> => \A k \in DOMAIN Registry, ledger \in Ledgers :
    LET kernel == KernelRun(Registry[k], Views, policy, now)
        reference == ReferenceDecision(Registry[k], Views, policy, ledger, now)
    IN  ~ kernel.fallback =>
          /\ ~ reference.fallback
          /\ reference.total_cost_tick = kernel.intent.estimated_cost_tick
          /\ reference.total_edge_tick = kernel.intent.total_edge_tick
          /\ kernel.order_decision # << >> =>
               reference.risk_reject_reason \in {"None", "TotalExposureLimit", "SingleMarketExposureLimit",
                                                 "InventoryLimit"}

\* The kernel is a faster way to the same decision: it agrees with the generic order decision and
\* with the reference the pipeline compares it with (DifferentialVerifier).
KernelAgrees == KernelMatchesGeneric /\ KernelAgreesWithReference

\* A leg whose view is too old for the policy, or does not hold one bundle.
OldOrShallow(leg) ==
  \/ now - books[leg.asset_index].last_ws_recv_ns > policy.max_book_age_ns
  \/ Depth(books[leg.asset_index].asks) < leg.ratio

\* FastPathGate: a plan the gate admits is declined by the kernel only for what the gate does
\* not look at, the age, the amount and the shape of the depth.
GateAdmitsDecidable ==
  processed # << >> => \A i \in DOMAIN Plans :
    LET kernel == KernelRun(SpecFromPlan(Plans[i], MarketIndexes(Plans)), Views, policy, now)
    IN  /\ GateReason(Plans[i], Views, policy,
                      [artifact_hash |-> pipeline_config.expected_artifact_hash, universe_version |-> 1,
                       max_supported_legs |-> pipeline_config.max_supported_legs],
                      1, TRUE, FALSE) = "None"
        /\ kernel.fallback
        => \/ kernel.reject_reason = "DynamicRuntimeOracleRequired"
           \/ /\ kernel.reject_reason = "BadDepthView"
              /\ \E k \in DOMAIN Plans[i].legs : OldOrShallow(Plans[i].legs[k])

\* What the fast path offers can be acted on: the plans it publishes are sound, and the plans the
\* gate admits are plans it can decide (EventLocalDecisionPipeline behind FastPathGate).
FastPathIsSound == PublishedPlanIsSound /\ GateAdmitsDecidable
=============================================================================
