----------------------------- MODULE RiskEngine -----------------------------
(***************************************************************************)
(* The risk engine (engine/risk/core): RiskEngine::evaluate and            *)
(* evaluate_decision, the guards of RiskPipeline::evaluate_view in their   *)
(* order, the repricing of an intent against the market, and the           *)
(* reservation that turns an approved intent into held budget.             *)
(*                                                                         *)
(* One call is one step: the engine has no lock and one thread.  What      *)
(* changes between calls is the market, the clock, and what earlier calls  *)
(* left in the guards and in the book.                                     *)
(***************************************************************************)
EXTENDS ReservationBook, VwapMath

CONSTANTS
  Policy,           \* RiskPolicySnapshot; its kill switch comes with each input
  Signals,          \* the intents offered to evaluate
  Decisions,        \* the OrderDecisions offered to evaluate_decision
  Inputs,           \* the forms the input of an evaluation takes
  AskBooks,         \* for each asset, the ask side of each version of its book
  NsPerSecond,      \* kNsPerSecond
  MaxIntentLegs     \* kMaxIntentLegs

ASSUME PolicyAssumption ==
  /\ Times # {}
  /\ Policy.max_inventory_lots_per_asset \in Int
  /\ Policy.max_approvals_per_second \in Nat
  /\ NsPerSecond \in Nat \ {0}

VARIABLES
  market,               \* for each asset, the snapshots published so far
  now,
  seen,                 \* DuplicateIntentGuard: hashes and keys already let through
  window,               \* RateLimitGuard: window_second_ and used_in_window_
  approved              \* the ApprovedIntents handed downstream, in order

riskVars == << book, market, now, seen, window, approved >>

LegIndexes(intent) == 1 .. Len(intent.legs)

-----------------------------------------------------------------------------
(* What the caller passes: the latest books, or the ones the signal priced  *)
(* (the signal-to-risk handoff), as snapshots or as depth views, and the    *)
(* policy, of which the kill switch is the part that changes.               *)

InputViews == [handoff : BOOLEAN, depth_views : BOOLEAN, kill_switch_enabled : BOOLEAN]

ASSUME InputAssumption == Inputs \subseteq InputViews

\* The version of the book that the input holds for a leg; 0 is none.
Version(intent, input, k) ==
  IF input.handoff THEN intent.priced_versions[k]
                   ELSE Len(market[intent.legs[k].asset_id])

Snapshot(intent, input, k) ==
  market[intent.legs[k].asset_id][Version(intent, input, k)]

\* The combined hash of the input equals the intent's exactly when every leg's book is
\* the one that was priced.
SnapshotHashMatches(intent, input) ==
  \A k \in LegIndexes(intent) : Version(intent, input, k) = intent.priced_versions[k]

-----------------------------------------------------------------------------
(* The guards before pricing.  Each yields a reject reason, or "None".      *)

Unless(passes, reason) == IF passes THEN "None" ELSE reason

KillSwitchGuard(input) == Unless(~ input.kill_switch_enabled, "KillSwitch")

HasIdempotency(intent) == intent.idempotency_hash # 0 \/ intent.idempotency_key # NoKey

IntentValidator(intent) ==
  IF ~ intent.paper_opportunity \/ intent.bundle_qty <= 0 THEN "InvalidIntent"
  ELSE IF intent.total_edge_tick <= 0 THEN "LowTotalEdge"
  ELSE IF intent.expires_at_ns <= now THEN "ExpiredIntent"
  ELSE IF ~ HasIdempotency(intent) THEN "MissingEvidence"
  ELSE Unless(Len(intent.legs) \in 1 .. MaxIntentLegs, "InvalidIntent")

IntentEvidenceVerifier(intent) ==
  Unless(/\ intent.hashes_present
         /\ intent.created_ts_ns # 0
         /\ intent.expires_at_ns > intent.created_ts_ns
         /\ HasIdempotency(intent), "MissingEvidence")

IntentExpiryGuard(intent) == Unless(intent.expires_at_ns > now, "ExpiredIntent")

\* Hashes and keys are remembered in two separate sets.
IdempotencyEntry(intent) ==
  IF intent.idempotency_hash # 0 THEN << "hash", intent.idempotency_hash >>
                                 ELSE << "key", intent.idempotency_key >>

\* Faulty variant: only the reservations that are still active are looked up.
DuplicateOfActive(intent) ==
  IF ~ HasIdempotency(intent) THEN "InternalError"
  ELSE Unless(book.active_keys[ReservationKeyFor(intent)] = 0, "DuplicateIntent")

DuplicateIntentGuard(intent) ==
  IF ~ HasIdempotency(intent) THEN "InternalError"
  ELSE Unless(IdempotencyEntry(intent) \notin seen, "DuplicateIntent")

\* Faulty variant: every call opens a new window.
WindowAlwaysReset(second) == [second |-> second, used |-> 0]

\* The window as RateLimitGuard::check leaves it before it counts.
WindowAt(second) ==
  IF second = window.second THEN window ELSE [second |-> second, used |-> 0]

RateLimitGuard ==
  Unless(WindowAt(now \div NsPerSecond).used < Policy.max_approvals_per_second,
         "ApprovalRateLimit")

MarketStateGuard(intent, input, k) ==
  Unless(Version(intent, input, k) # 0 /\ Snapshot(intent, input, k).usable, "BadMarketState")

BookIsFresh(intent, input, k) ==
  LET updated == Snapshot(intent, input, k).last_book_update_ns
  IN  /\ updated # 0 /\ updated <= now
      /\ Policy.max_book_age_ns >= 0 => now - updated <= Policy.max_book_age_ns

\* The intent carries the highest version among its books, and every leg's book is
\* compared with that one.
VersionDrift(intent, input, k) ==
  LET v == Version(intent, input, k)
      w == intent.snapshot_version
  IN  IF v > w THEN v - w ELSE w - v

SnapshotFreshnessGuard(intent, input, k) ==
  IF Version(intent, input, k) = 0 \/ ~ BookIsFresh(intent, input, k) THEN "StaleBook"
  ELSE Unless(Policy.max_snapshot_skew_ns >= 0 =>
                VersionDrift(intent, input, k) <= Policy.max_snapshot_skew_ns,
              "SnapshotSkew")

-----------------------------------------------------------------------------
(* Pricing.                                                                 *)

NoPrice == [ok |-> FALSE, reason |-> "CostLimit", total_cost_tick |-> 0, bundle_qty |-> 0,
            legs |-> << >>]

DepthMarginBps(executable, requested) ==
  IF requested <= 0 \/ executable <= 0 THEN 0 ELSE RatioBps(executable, requested)

\* can_reuse_signal_snapshot and can_reuse_signal_depth_view.
CanReuseSignal(intent, input) ==
  /\ intent.expires_at_ns > now /\ intent.bundle_qty > 0
  /\ intent.estimated_cost_tick >= 0
  /\ intent.original_bundle_qty > 0 => intent.bundle_qty <= intent.original_bundle_qty
  /\ Len(intent.legs) \in 1 .. MaxIntentLegs
  /\ \A k \in LegIndexes(intent) :
       LET leg == intent.legs[k]
       IN  leg.side = "Buy" /\ leg.quantity_lots > 0 /\ leg.enough_depth
  /\ SnapshotHashMatches(intent, input)
  /\ \A k \in LegIndexes(intent) :
       Version(intent, input, k) # 0 /\ BookIsFresh(intent, input, k)

\* reuse_signal_snapshot: the signal's own figures.
ReusedLeg(intent, leg) ==
  LET requested  == IF leg.requested_qty_lots > 0 THEN leg.requested_qty_lots
                    ELSE Saturate(leg.quantity_lots * intent.bundle_qty)
      executable == IF leg.executable_qty_lots > 0 THEN leg.executable_qty_lots
                    ELSE IF leg.enough_depth THEN requested ELSE 0
  IN  [margin_bps   |-> IF leg.depth_margin_bps > 0 THEN leg.depth_margin_bps
                        ELSE DepthMarginBps(executable, requested),
       enough_depth |-> leg.enough_depth /\ executable >= requested]

ReuseSignal(intent) ==
  [ok |-> TRUE, reason |-> "None", total_cost_tick |-> intent.estimated_cost_tick,
   bundle_qty |-> intent.bundle_qty,
   legs |-> [k \in LegIndexes(intent) |-> ReusedLeg(intent, intent.legs[k])]]

\* reprice_buy_leg: a depth view is priced from its sums, a snapshot by walking it.  (The walk
\* that a view without sums falls back to is never taken: a view has sums for all of its asks.)
LegOf(leg, planned, priced) ==
  [ok           |-> priced.ok /\ priced.executable_qty_lots > 0,
   cost         |-> priced.total_cost_tick,
   bundles      |-> priced.executable_qty_lots \div leg.quantity_lots,
   margin_bps   |-> DepthMarginBps(priced.executable_qty_lots, planned),
   enough_depth |-> priced.executable_qty_lots >= planned]

RepricedLeg(depth_views, version, leg, planned) ==
  IF leg.side # "Buy" \/ leg.quantity_lots <= 0 \/ version = 0 \/ ~ Fits(planned)
  THEN [ok |-> FALSE, cost |-> 0, bundles |-> 0, margin_bps |-> 0, enough_depth |-> FALSE]
  ELSE IF depth_views
  THEN LegOf(leg, planned, BuyVwapPrefix(AskBooks[leg.asset_id][version], planned))
  ELSE LegOf(leg, planned, BuyVwapLinear(AskBooks[leg.asset_id][version], planned))

\* VWAPRevalidator::reprice: the cost of the intent's own quantity, and the number of
\* bundles the books could fill, which may be larger.
PriceOf(intent, legs, total, bundles) ==
  IF \/ \E k \in LegIndexes(intent) : ~ legs[k].ok
     \/ ~ Fits(total) \/ bundles = MaxI64 \/ bundles < intent.bundle_qty
  THEN NoPrice
  ELSE [ok |-> TRUE, reason |-> "None", total_cost_tick |-> total, bundle_qty |-> bundles,
        legs |-> legs]

PriceOfLegs(intent, legs) ==
  PriceOf(intent, legs,
          PrefixSum([k \in LegIndexes(intent) |-> legs[k].cost], Len(intent.legs)),
          CHOOSE q \in {legs[k].bundles : k \in LegIndexes(intent)} :
            \A k \in LegIndexes(intent) : q <= legs[k].bundles)

Reprice(intent, input) ==
  IF intent.bundle_qty <= 0 \/ Len(intent.legs) \notin 1 .. MaxIntentLegs THEN NoPrice
  ELSE PriceOfLegs(intent,
         [k \in LegIndexes(intent) |->
            RepricedLeg(input.depth_views, Version(intent, input, k), intent.legs[k],
                        intent.legs[k].quantity_lots * intent.bundle_qty)])

\* CostRevalidator::revalidate.
CheckDrift(intent, cost) ==
  IF cost.ok /\ cost.total_cost_tick - intent.estimated_cost_tick
                  > Policy.max_allowed_cost_drift_tick
  THEN [cost EXCEPT !.ok = FALSE, !.reason = "CostDrift"] ELSE cost

Revalidate(intent, input) ==
  CheckDrift(intent, IF CanReuseSignal(intent, input) THEN ReuseSignal(intent)
                                                      ELSE Reprice(intent, input))

-----------------------------------------------------------------------------
(* The guards after pricing.                                                *)

Buffers(intent) ==
  intent.estimated_fee_tick + intent.slippage_buffer_tick + intent.latency_buffer_tick

\* compute_post_risk_edge for a number of bundles.
PostRiskEdge(intent, total_cost_tick, bundle_qty) ==
  TruncDiv(intent.guaranteed_payout_tick, intent.bundle_qty) * bundle_qty
    - total_cost_tick - Buffers(intent)

\* passes_edge_thresholds, in the order EdgeGuard names what failed.
EdgeThresholds(total_edge_tick, unit_edge_tick, edge_bps) ==
  IF total_edge_tick < Policy.min_post_risk_total_edge_tick THEN "LowTotalEdge"
  ELSE IF unit_edge_tick < Policy.min_post_risk_unit_edge_tick THEN "LowUnitEdge"
  ELSE Unless(edge_bps >= Policy.min_edge_bps, "LowEdgeBps")

\* Every intermediate value must fit; the buffers are not negative.
EdgeGuard(intent, cost) ==
  LET edge   == PostRiskEdge(intent, cost.total_cost_tick, cost.bundle_qty)
      payout == TruncDiv(intent.guaranteed_payout_tick, intent.bundle_qty) * cost.bundle_qty
  IN  IF ~ cost.ok \/ cost.bundle_qty <= 0 THEN "InternalError"
      ELSE IF ~ Fits(payout) \/ ~ Fits(payout - cost.total_cost_tick) \/ ~ Fits(edge)
      THEN "InternalError"
      ELSE EdgeThresholds(edge, TruncDiv(edge, cost.bundle_qty),
                          RatioBps(edge, cost.total_cost_tick))

MaxLossGuard(intent, cost) ==
  IF ~ cost.ok \/ \E k \in LegIndexes(intent) : intent.legs[k].side # "Buy"
  THEN "InternalError"
  ELSE Unless(Policy.max_total_cost_tick > 0 =>
                cost.total_cost_tick <= Policy.max_total_cost_tick, "CostLimit")

MarketsOf(intent) == {intent.legs[k].market_id : k \in LegIndexes(intent)}

\* market_costs: an intent on one market is charged its revalidated cost, an intent on
\* several the signal's cost of the legs on each.
MarketCost(intent, cost, m) ==
  IF MarketsOf(intent) = {m} THEN NonNegative(cost.total_cost_tick)
                             ELSE MarketExposure(intent, m)

ExposureGuard(ledger, intent, cost) ==
  IF ~ cost.ok THEN "InternalError"
  ELSE IF /\ Policy.max_total_exposure_tick > 0
          /\ ledger["exposure"] + NonNegative(cost.total_cost_tick)
               > Policy.max_total_exposure_tick
  THEN "TotalExposureLimit"
  ELSE Unless(Policy.max_single_market_exposure_tick > 0 =>
                \A m \in MarketsOf(intent) :
                  ledger[m] + MarketCost(intent, cost, m)
                    <= Policy.max_single_market_exposure_tick,
              "SingleMarketExposureLimit")

AssetsOf(intent) == {intent.legs[k].asset_id : k \in LegIndexes(intent)}

\* Faulty variant: what is already held is not counted.
InventoryGuardForgetful(ledger, intent, cost) ==
  Unless(\A a \in AssetsOf(intent) :
           AssetLots(intent, a) <= Policy.max_inventory_lots_per_asset, "InventoryLimit")

InventoryGuard(ledger, intent, cost) ==
  IF ~ cost.ok THEN "InternalError"
  ELSE Unless(Policy.max_inventory_lots_per_asset > 0 =>
                \A a \in AssetsOf(intent) :
                  ledger[a] + AssetLots(intent, a) <= Policy.max_inventory_lots_per_asset,
              "InventoryLimit")

PartialFillGuard(intent, cost) ==
  IF ~ cost.ok \/ cost.bundle_qty <= 0 \/ Len(intent.legs) \notin 1 .. MaxIntentLegs
  THEN "InternalError"
  ELSE Unless(Len(intent.legs) > 1 =>
                \A k \in LegIndexes(intent) :
                  /\ intent.legs[k].side = "Buy" /\ intent.legs[k].quantity_lots > 0
                  /\ cost.legs[k].enough_depth
                  /\ cost.legs[k].margin_bps >= Policy.min_depth_margin_bps,
              "PartialFillRisk")

TrackLedgerDetail ==
  \/ Policy.max_total_exposure_tick > 0
  \/ Policy.max_single_market_exposure_tick > 0
  \/ Policy.max_inventory_lots_per_asset > 0

\* What the pipeline reports when try_reserve refuses.
ReservationReason(b, intent) ==
  LET reason == ReserveRejection(b, intent, now)
  IN  IF reason \in {"None", "DuplicateReservation", "ExpiredIntent"} THEN reason
      ELSE "TotalExposureLimit"

-----------------------------------------------------------------------------
(* RiskPipeline::evaluate_view: the checks in the order they run, one entry *)
(* per step of the audit trace.                                             *)

IntakeChecks(intent, input) ==
  << KillSwitchGuard(input), IntentValidator(intent), IntentEvidenceVerifier(intent),
     IntentExpiryGuard(intent) >>

MarketChecks(intent, input) ==
  [j \in 1 .. 2 * Len(intent.legs) |->
     IF j % 2 = 1 THEN MarketStateGuard(intent, input, (j + 1) \div 2)
                  ELSE SnapshotFreshnessGuard(intent, input, j \div 2)]

BudgetChecks(b, ledger, intent, cost) ==
  << IF cost.ok THEN "None" ELSE cost.reason,
     EdgeGuard(intent, cost), MaxLossGuard(intent, cost),
     ExposureGuard(ledger, intent, cost), InventoryGuard(ledger, intent, cost),
     PartialFillGuard(intent, cost), ReservationReason(b, intent) >>

Checks(b, ledger, intent, input) ==
  IntakeChecks(intent, input)
    \o << DuplicateIntentGuard(intent), RateLimitGuard >>
    \o MarketChecks(intent, input)
    \o BudgetChecks(b, ledger, intent, Revalidate(intent, input))

AllPass(checks) == \A k \in DOMAIN checks : checks[k] = "None"

\* The checks up to the n-th all pass, so that the next one runs.
Reached(checks, n) == \A k \in 1 .. n : checks[k] = "None"

-----------------------------------------------------------------------------
(* RiskEngine.                                                              *)

FirstTime == CHOOSE t \in Times : \A u \in Times : t <= u

RiskInit ==
  /\ book = EmptyBook
  /\ market = [a \in Assets |-> << >>]
  /\ now = FirstTime
  /\ seen = {}
  /\ window = [second |-> 0, used |-> 0]
  /\ approved = << >>

\* A signal exists once the books it priced have been published.
Offered(intent) ==
  /\ intent.created_ts_ns <= now
  /\ \A k \in LegIndexes(intent) :
       intent.priced_versions[k] <= Len(market[intent.legs[k].asset_id])

\* The two guards that keep state change it when they run, whatever is decided later.
GuardsRemember(intent, checks) ==
  LET at == WindowAt(now \div NsPerSecond)
  IN  /\ seen' = IF Reached(checks, 4) THEN seen \cup {IdempotencyEntry(intent)} ELSE seen
      /\ window' = IF Reached(checks, 6) THEN [at EXCEPT !.used = at.used + 1]
                   ELSE IF Reached(checks, 5) THEN at ELSE window

\* evaluate and evaluate_view first expire what is due, then run the pipeline against
\* the ledger that is left.
EvaluationOf(intent, input) ==
  LET b == Expire(book, now) IN Checks(b, b.ledger, intent, input)

ApprovedIntent(intent, cost) ==
  [intent |-> intent, reservation_id |-> book.next_reservation_id, approved_at_ns |-> now,
   risk_total_cost_tick |-> cost.total_cost_tick]

EvaluateView(intent, input) ==
  /\ Offered(intent)
  /\ Len(book.reservations) < MaxReservations
  /\ \E checks \in {EvaluationOf(intent, input)} :
       /\ GuardsRemember(intent, checks)
       /\ \/ /\ AllPass(checks)
             /\ book' = Reserve(Expire(book, now), intent, TrackLedgerDetail)
             /\ approved' = Append(approved, ApprovedIntent(intent, Revalidate(intent, input)))
          \/ /\ ~ AllPass(checks)
             /\ book' = Expire(book, now)
             /\ UNCHANGED approved
  /\ UNCHANGED << market, now >>

\* intent_from_decision: the sized decision overwrites the signal's figures.  A leg counts
\* one lot per bundle and claims the depth it asks for.
IntentFromDecision(d) ==
  [d.source EXCEPT
     !.paper_opportunity      = TRUE,
     !.guaranteed_payout_tick = d.guaranteed_payout_tick,
     !.estimated_cost_tick    = d.estimated_total_cost_tick,
     !.bundle_qty             = d.chosen_bundle_qty,
     !.original_bundle_qty    = d.chosen_bundle_qty,
     !.total_edge_tick        = d.total_edge_tick,
     !.expires_at_ns          = d.expires_at_ns,
     !.legs = [k \in LegIndexes(d) |->
                 [d.source.legs[k] EXCEPT
                    !.side = d.legs[k].side, !.quantity_lots = 1,
                    !.requested_qty_lots  = d.legs[k].quantity_lots,
                    !.executable_qty_lots = d.legs[k].quantity_lots,
                    !.depth_margin_bps    = Greater(10000, Policy.min_depth_margin_bps),
                    !.enough_depth = TRUE,
                    !.estimated_cost_tick = d.legs[k].estimated_cost_tick]]]

ASSUME OfferAssumption ==
  Signals \subseteq Intents /\ \A d \in Decisions : IntentFromDecision(d) \in Intents

\* evaluate_decision's own checks, before the book is touched: a rejection changes nothing.
DecisionRejection(d) ==
  IF ~ d.paper_order_decision \/ d.chosen_bundle_qty <= 0
     \/ d.estimated_total_cost_tick <= 0 \/ Len(d.legs) \notin 1 .. MaxIntentLegs
  THEN "InvalidIntent"
  ELSE IF d.expires_at_ns <= now THEN "ExpiredIntent"
  ELSE IF ~ d.matches_source \/ ~ d.policy_hash_matches THEN "InvalidIntent"
  ELSE IF /\ Policy.max_total_cost_tick > 0
          /\ d.estimated_total_cost_tick > Policy.max_total_cost_tick
  THEN "CostLimit"
  ELSE Unless(EdgeThresholds(d.total_edge_tick, d.unit_edge_tick, d.edge_bps) = "None",
              "LowTotalEdge")

EvaluateDecision(d, input) ==
  /\ DecisionRejection(d) = "None"
  /\ EvaluateView(IntentFromDecision(d), input)

ReleaseReservation(id) ==
  /\ Release(id)
  /\ UNCHANGED << market, now, seen, window, approved >>

ExpireReservations ==
  /\ ExpireOld(now)
  /\ UNCHANGED << market, now, seen, window, approved >>

-----------------------------------------------------------------------------
(* The surroundings.                                                        *)

PublishSnapshot(a, usable) ==
  /\ Len(market[a]) < Len(AskBooks[a])
  /\ market' = [market EXCEPT ![a] = Append(@, [last_book_update_ns |-> now, usable |-> usable])]
  /\ UNCHANGED << book, now, seen, window, approved >>

Tick ==
  /\ now + 1 \in Times
  /\ now' = now + 1
  /\ UNCHANGED << book, market, seen, window, approved >>

RiskNext ==
  \/ \E intent \in Signals, input \in Inputs : EvaluateView(intent, input)
  \/ \E d \in Decisions, input \in Inputs : EvaluateDecision(d, input)
  \/ \E id \in 0 .. book.next_reservation_id : ReleaseReservation(id)
  \/ ExpireReservations
  \/ \E a \in Assets, usable \in BOOLEAN : PublishSnapshot(a, usable)
  \/ Tick

RiskSpec == RiskInit /\ [][RiskNext]_riskVars

-----------------------------------------------------------------------------
(* Properties.                                                              *)

\* The state has its types, and the book is well formed.
RiskTypeOK ==
  /\ BookType(book)
  /\ now \in Times
  /\ window \in [second : Nat, used : Nat]
  /\ \A k \in DOMAIN approved : approved[k].intent \in Intents

\* An approval has made exactly one reservation, under its own key and with the id the
\* ApprovedIntent carries, and nothing else has: a rejected evaluation holds no budget.
ApprovalsAreReservations ==
  /\ Len(approved) = Len(book.reservations)
  /\ \A k \in DOMAIN approved :
       /\ approved[k].reservation_id = k
       /\ book.reservations[k].key = ReservationKeyFor(approved[k].intent)

\* An intent that carries its hash is never approved twice, even after its first
\* reservation was released or has expired.
ApprovedOnce ==
  \A j, k \in DOMAIN approved :
    /\ approved[j].intent.idempotency_hash = approved[k].intent.idempotency_hash
    /\ approved[j].intent.idempotency_hash # 0
    => j = k

\* No second sees more approvals than the policy allows.
RateWithinLimit ==
  \A t \in Times :
    Cardinality({k \in DOMAIN approved :
                   approved[k].approved_at_ns \div NsPerSecond = t \div NsPerSecond})
      <= Policy.max_approvals_per_second

\* What the active reservations hold of an asset never exceeds the policy's limit, however
\* approvals, releases, expiries and duplicates interleave.
InventoryWithinLimit ==
  Policy.max_inventory_lots_per_asset > 0 =>
    \A a \in Assets : book.ledger[a] <= Policy.max_inventory_lots_per_asset

\* The book as the grants of RiskBudget.
Grants(b) ==
  [i \in 1 .. Len(b.reservations) |->
     [key |-> b.reservations[i].key, lots |-> [a \in Assets |-> b.reservations[i].amounts[a]],
      held |-> IsActive(b, i)]]

Budget == INSTANCE RiskBudget
            WITH grants <- Grants(book), Limit <- Policy.max_inventory_lots_per_asset

\* The engine implements RiskBudget.  Whatever evaluate, evaluate_decision, release and
\* expire_old do to the book, one call makes at most one grant, after taking back what has
\* expired; a grant that was released or has expired never comes back, however late the
\* second release; and a new one fits beside those still held.
ImplementsBudget == Budget!Spec

-----------------------------------------------------------------------------
(* Statements of docs/risk_engine.md that the code does not keep.           *)

\* An approved intent still has the policy's edge at the quantity it asks for.  The guard
\* multiplies the payout by the bundles the books could fill, and subtracts the cost of
\* the intent's own bundles.
ApprovedEdgeMeetsPolicy ==
  \A k \in DOMAIN approved :
    PostRiskEdge(approved[k].intent, approved[k].risk_total_cost_tick,
                 approved[k].intent.bundle_qty) >= Policy.min_post_risk_total_edge_tick
=============================================================================
