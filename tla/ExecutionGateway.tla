-------------------------- MODULE ExecutionGateway --------------------------
(***************************************************************************)
(* The execution gateway (engine/execution/core): from an envelope that    *)
(* Risk approved to a plan of child orders, through the planner and the    *)
(* validator to the adapter, and back to a plan status, the reports and    *)
(* the disposition of the reservation.                                     *)
(*                                                                         *)
(* One call is one step; the gateway has one thread.  With the live        *)
(* adapter a step also talks to the venue, which keeps orders of its own,  *)
(* may fill them at any time, and whose answers may be lost.               *)
(***************************************************************************)
EXTENDS PaperAdapter

CONSTANTS
  Envelopes,        \* the approved intents and approved decisions submitted
  BookViews,        \* the books a caller may pass, one for each asset
  Configs,          \* ExecutionConfig, with the LiveExecutionConfig of the adapter
  Clock,            \* the values of now_ns
  MaxChildOrders,   \* kMaxChildOrdersPerPlan
  MaxLots,          \* the largest std::int64_t
  MaxSubmits,       \* bound: calls of submit
  MaxCancels        \* bound: calls of cancel_plan that find a plan

ASSUME ClockAssumption == Clock \subseteq Nat /\ Clock # {}

\* The types of what the gateway is given.
ASSUME EnvelopeAssumption ==
  \A env \in Envelopes :
    /\ Len(env.legs) \in Nat /\ DOMAIN env.legs = 1 .. Len(env.legs)
    /\ env.approved_bundle_qty \in Int
    /\ \A k \in DOMAIN env.legs :
         env.legs[k].quantity_lots \in Int /\ env.legs[k].price_tick \in Int

ASSUME BooksAssumption ==
  \A env \in Envelopes, books \in BookViews : \A k \in DOMAIN env.legs :
    LET asks == books[env.legs[k].asset_id].asks
    IN  /\ Len(asks) \in Nat /\ DOMAIN asks = 1 .. Len(asks)
        /\ \A i \in DOMAIN asks : asks[i].price_tick \in Int /\ asks[i].size \in Int

ASSUME ConfigAssumption == \A c \in Configs : c.mode \in {"Paper", "Sandbox", "Live"}

VARIABLES
  config,           \* fixed when the gateway is built
  now,
  plans,            \* ExecutionPlanStore
  runtime,          \* runtime_: plan and FillTracker by plan_id
  results,          \* what each submit returned, and the disposition it published
  published,        \* reports given to the ExecutionReportPublisher
  pending,          \* pending_reports_
  cancels,          \* calls of cancel_plan
  accepted,         \* accepted_orders_by_plan_ of the live adapter
  venue             \* venue orders: acknowledged to the adapter or not, open or not

gatewayVars == << config, now, plans, runtime, results, published, pending, cancels,
                  accepted, venue >>

Put(f, key, value) ==
  [x \in DOMAIN f \cup {key} |-> IF x = key THEN value ELSE f[x]]

-----------------------------------------------------------------------------
(* ExecutionPlanner and PlanValidator.                                      *)

\* make_plan_id hashes these; the model takes the hash to be injective.
PlanId(env) ==
  << env.kind, env.source_intent_id, env.decision_id, env.reservation_id_hash,
     env.idempotency_key >>

MaxOrders == Least(config.max_child_orders_per_plan, MaxChildOrders)

\* The early returns of both build_plan's.
EnvelopeRejected(env) ==
  \/ env.decision_id = 0 \/ env.reservation_id = 0
  \/ ~ env.paper_opportunity \/ env.expires_at_ns <= now
  \/ ~ env.identities_match
  \/ Len(env.legs) \notin 1 .. MaxOrders
  \/ \E k \in DOMAIN env.legs : env.legs[k].side # "Buy" \/ env.legs[k].quantity_lots <= 0

\* build_plan(ApprovedIntentEnvelope): the approved quantity counts bundles.
IntentRejected(env) ==
  \/ EnvelopeRejected(env)
  \/ env.approved_bundle_qty <= 0
  \/ \E k \in DOMAIN env.legs :
       env.approved_bundle_qty * env.legs[k].quantity_lots > MaxLots

\* build_plan(ApprovedOrderDecisionEnvelope): the hashes are compared unless the
\* configuration trusts them.
DecisionRejected(env) ==
  \/ EnvelopeRejected(env)
  \/ ~ env.approved
  \/ ~ config.hot_path_trust_hashes /\ ~ env.hashes_match
  \/ \E k \in DOMAIN env.legs : env.legs[k].price_tick <= 0

SkipStrings(env) == env.kind = "decision" /\ config.hot_path_skip_order_strings

NoKey == "none"

PlanOf(env) ==
  [reservation_id      |-> env.reservation_id_hash,
   source_intent_id    |-> env.source_intent_id,
   approved_intent_id  |-> env.decision_id,
   status              |-> "Created",
   max_total_cost_tick |-> env.estimated_cost_tick,
   max_slippage_tick   |-> env.slippage_buffer_tick,
   created_ts_ns       |-> now,
   expire_after_ns     |-> env.expires_at_ns,
   idempotency_key     |-> IF SkipStrings(env) THEN NoKey ELSE env.idempotency_key,
   orders |-> [k \in DOMAIN env.legs |->
                 [asset_id         |-> env.legs[k].asset_id,
                  client_order_id  |-> ~ SkipStrings(env),
                  quantity_lots    |-> IF env.kind = "intent"
                                       THEN env.approved_bundle_qty * env.legs[k].quantity_lots
                                       ELSE env.legs[k].quantity_lots,
                  limit_price_tick |-> env.legs[k].price_tick,
                  status           |-> "Created"]]]

\* validate_child_order.
OrderValid(order) ==
  order.client_order_id /\ order.quantity_lots > 0 /\ order.limit_price_tick > 0

\* validate_impl; an age of 0 is not limited.
PlanValid(plan, max_orders, max_age_ns) ==
  /\ plan.source_intent_id # 0 /\ plan.approved_intent_id # 0 /\ plan.reservation_id # 0
  /\ Len(plan.orders) \in 1 .. max_orders
  /\ plan.max_total_cost_tick > 0 /\ plan.max_slippage_tick >= 0
  /\ plan.idempotency_key # NoKey
  /\ plan.expire_after_ns > plan.created_ts_ns
  /\ max_age_ns > 0 => plan.expire_after_ns - plan.created_ts_ns <= max_age_ns
  /\ \A k \in DOMAIN plan.orders : OrderValid(plan.orders[k])

\* The planner validates what it built without the configuration's limits.
PlannerRejects(env) ==
  \/ env.kind = "intent" /\ IntentRejected(env)
  \/ env.kind = "decision" /\ DecisionRejected(env)
  \/ /\ env.kind = "intent" \/ ~ config.hot_path_skip_plan_validation
     /\ ~ PlanValid(PlanOf(env), MaxChildOrders, 0)

Valid(env) == PlanValid(PlanOf(env), MaxOrders, config.max_order_age_ns)

-----------------------------------------------------------------------------
(* The adapters.  An answer is what the venue makes of an order and tells   *)
(* the adapter: it may hold an order whose acceptance never arrived.        *)

Answers == {"accepted", "refused", "lost"}

\* SandboxExecutionAdapter, and LiveExecutionAdapter::disabled_submit.
Disabled == Outcome(FALSE, "Failed", 0, << >>)

\* side_allowed and child_notional_allowed.
LiveAllowed(order) ==
  /\ config.allow_buy_orders
  /\ config.max_child_notional_tick > 0 =>
       order.quantity_lots * order.limit_price_tick <= config.max_child_notional_tick

\* The orders of a plan that reach the venue.
LiveSent(plan) ==
  IF \/ config.mode # "Live" \/ ~ config.live_enabled
     \/ Len(plan.orders) > Least(config.live_max_child_orders, MaxChildOrders)
     \/ plan.expire_after_ns # 0 /\ now >= plan.expire_after_ns
  THEN {} ELSE {k \in DOMAIN plan.orders : LiveAllowed(plan.orders[k])}

LiveAcked(plan, answers) == {k \in LiveSent(plan) : answers[k] = "accepted"}

\* live_report.
LiveReport(k, order, is_acked) ==
  [order_id |-> k, status |-> IF is_acked THEN "Acked" ELSE "Failed", filled_lots |-> 0,
   remaining_lots |-> IF is_acked THEN order.quantity_lots ELSE 0, avg_fill_price_tick |-> 0]

LiveOutcome(orders, ok) ==
  Outcome(ok = DOMAIN orders, IF ok = DOMAIN orders THEN "Acked" ELSE "Failed",
          Len(orders) - Cardinality(ok),
          [k \in DOMAIN orders |-> LiveReport(k, orders[k], k \in ok)])

\* LiveExecutionAdapter::submit_plan.
LiveSubmit(plan, answers) ==
  IF ~ config.live_enabled THEN Disabled
  ELSE IF Len(plan.orders) > Least(config.live_max_child_orders, MaxChildOrders)
  THEN Outcome(FALSE, "Failed", Len(plan.orders), << >>)
  ELSE LiveOutcome(plan.orders, LiveAcked(plan, answers))

AdapterSubmit(plan, books, answers) ==
  CASE config.mode = "Paper"   -> PaperSubmit(plan, books, config, now)
    [] config.mode = "Sandbox" -> Disabled
    [] config.mode = "Live"    -> LiveSubmit(plan, answers)

-----------------------------------------------------------------------------
(* ExecutionGateway.                                                        *)

GatewayInit ==
  /\ config \in Configs
  /\ now = CHOOSE t \in Clock : \A u \in Clock : t <= u
  /\ plans = << >> /\ runtime = << >> /\ accepted = << >>
  /\ results = << >> /\ published = << >> /\ pending = << >>
  /\ cancels = 0
  /\ venue = {}

\* The status moves through the machines before the adapter is called.
Prepared(plan) ==
  [plan EXCEPT !.status = PrepareForAdapter(PlanMoves),
               !.orders = [k \in DOMAIN plan.orders |->
                             [plan.orders[k] EXCEPT !.status = PrepareForAdapter(OrderMoves)]]]

\* One report of the adapter: the order moves if it may, and the report is published with
\* the status the order has then.
StatusAfter(order, report) == Transition(OrderMoves, order.status, report.status)

\* The loop over the adapter's reports.  Every adapter reports each order of the plan once,
\* in the plan's order, or reports nothing.
AfterReports(orders, reports) ==
  [orders  |-> [k \in DOMAIN orders |->
                  IF k \notin DOMAIN reports THEN orders[k]
                  ELSE [orders[k] EXCEPT !.status = StatusAfter(orders[k], reports[k])]],
   fills   |-> [k \in DOMAIN orders |->
                  IF k \notin DOMAIN reports THEN NoFills(orders)[k]
                  ELSE ChildAfter(NoFills(orders)[k], reports[k])],
   reports |-> [k \in DOMAIN reports |->
                  [reports[k] EXCEPT !.status = StatusAfter(orders[k], reports[k])]]]

\* consume_reservation and release_reservation.
DispositionFor(status, fills) ==
  IF status = "Filled" /\ AllFilled(fills) THEN "Consume"
  ELSE IF status \in {"Failed", "Expired", "Cancelled"} THEN "Release" ELSE "None"

Result(env, status, disposition, fills) ==
  [plan_id |-> PlanId(env), reservation_id |-> env.reservation_id, status |-> status,
   disposition |-> disposition, fills |-> fills]

\* A report names its plan and the call that made it.
Stamped(env, reports) ==
  [k \in DOMAIN reports |->
     [plan_id |-> PlanId(env), order_id |-> reports[k].order_id, status |-> reports[k].status,
      filled_lots |-> reports[k].filled_lots,
      avg_fill_price_tick |-> reports[k].avg_fill_price_tick, event_ts_ns |-> now,
      submit |-> Len(results) + 1]]

\* The planner refuses: the call returns Failed and publishes nothing.
RejectEnvelope(env) ==
  /\ Len(results) < MaxSubmits
  /\ PlannerRejects(env)
  /\ results' = Append(results, Result(env, "Failed", "None", << >>))
  /\ UNCHANGED << config, now, plans, runtime, published, pending, cancels, accepted,
                  venue >>

\* The gateway's own validation refuses what the planner built.
RejectPlan(env) ==
  /\ Len(results) < MaxSubmits
  /\ ~ PlannerRejects(env) /\ ~ Valid(env)
  /\ results' = Append(results, Result(env, "Failed", "Release", << >>))
  /\ UNCHANGED << config, now, plans, runtime, published, pending, cancels, accepted,
                  venue >>

\* What submit keeps of a plan once the adapter has answered.
Conclude(env, plan, outcome, after) ==
  LET status == ApplyPlanLifecycle(outcome, after.fills)
      done   == [plan EXCEPT !.status = status, !.orders = after.orders]
  IN  /\ plans' = Put(plans, PlanId(env), done)
      /\ runtime' = Put(runtime, PlanId(env),
                        [plan |-> done, fills |-> after.fills, submit |-> Len(results) + 1])
      /\ results' = Append(results,
                           Result(env, status, DispositionFor(status, after.fills), after.fills))
      /\ published' = published \o Stamped(env, after.reports)
      /\ pending' = pending \o Stamped(env, after.reports)

\* submit_approved_intent and submit_approved_decision.  A venue order is named by the
\* call that sent it.
Submit(env, books, answers) ==
  /\ Len(results) < MaxSubmits
  /\ ~ PlannerRejects(env) /\ Valid(env)
  /\ \E plan \in {Prepared(PlanOf(env))} :
       /\ \E outcome \in {AdapterSubmit(plan, books, answers)} :
            \E after \in {AfterReports(plan.orders, outcome.reports)} :
              Conclude(env, plan, outcome, after)
       /\ venue' = venue \cup
            {[submit |-> Len(results) + 1, plan_id |-> PlanId(env), order_id |-> k,
              acked |-> answers[k] = "accepted", state |-> "open"] :
               k \in {j \in LiveSent(plan) : answers[j] # "refused"}}
       /\ accepted' = IF LiveAcked(plan, answers) = {} THEN accepted
                      ELSE Put(accepted, PlanId(env),
                               {<< Len(results) + 1, k >> : k \in LiveAcked(plan, answers)})
  /\ UNCHANGED << config, now, cancels >>

Poll ==
  /\ pending # << >>
  /\ pending' = << >>
  /\ UNCHANGED << config, now, plans, runtime, results, published, cancels, accepted, venue >>

-----------------------------------------------------------------------------
(* cancel_plan, through CancelManager::cancel_open_orders.                  *)

\* open_remaining_lots, from the plan and the fills kept at submission.
OpenOrders(kept) ==
  {k \in DOMAIN kept.plan.orders :
     kept.plan.orders[k].status \notin Terminal /\ kept.fills[k].remaining > 0}

\* Two reports for each open order, in the order of the plan.  cancel_plan gives no time, so
\* that they bear the default, zero.
CancelReports(pid, kept) ==
  LET open   == OpenOrders(kept)
      Nth(m) == CHOOSE k \in open : Cardinality({j \in open : j <= k}) = m
  IN  [i \in 1 .. 2 * Cardinality(open) |->
         [plan_id |-> pid, order_id |-> Nth((i + 1) \div 2),
          status |-> IF i % 2 = 1 THEN "CancelRequested" ELSE "Cancelled",
          filled_lots |-> 0, avg_fill_price_tick |-> 0, event_ts_ns |-> 0,
          submit |-> kept.submit]]

\* The plan's status is overwritten, whatever it was; the plan store, the orders and the
\* reservation are left as they are.
MarkCancelled(pid) == runtime' = [runtime EXCEPT ![pid].plan.status = "Cancelled"]

CancelPaper(pid) ==
  /\ config.mode = "Paper" /\ cancels < MaxCancels
  /\ published' = published \o CancelReports(pid, runtime[pid])
  /\ pending' = pending \o CancelReports(pid, runtime[pid])
  /\ MarkCancelled(pid)
  /\ cancels' = cancels + 1
  /\ UNCHANGED << config, now, plans, results, accepted, venue >>

\* The venue orders that LiveExecutionAdapter::cancel_plan asks the venue to cancel.
Named(ids) == {v \in venue : << v.submit, v.order_id >> \in ids}

OpenAmong(ids) == {v \in Named(ids) : v.state = "open"}

Closing(orders, state) ==
  (venue \ orders) \cup {[v EXCEPT !.state = state] : v \in orders}

\* Faulty variant: the plan's orders are forgotten whatever the venue answered.
AfterLiveCancelForgetting(pid, ok) == [x \in DOMAIN accepted \ {pid} |-> accepted[x]]

\* The adapter forgets the plan's orders only once all of them are cancelled in one call.
AfterLiveCancel(pid, ok) ==
  IF ok = accepted[pid] THEN [x \in DOMAIN accepted \ {pid} |-> accepted[x]] ELSE accepted

\* closed: what the venue cancels; told: for which of them the answer arrives.  An order
\* that is no longer open cannot be cancelled.
CancelLive(pid, closed, told) ==
  /\ config.mode = "Live" /\ config.live_enabled /\ cancels < MaxCancels
  /\ pid \in DOMAIN accepted
  /\ closed \subseteq OpenAmong(accepted[pid]) /\ told \subseteq closed
  /\ venue' = Closing(closed, "cancelled")
  /\ \E ok \in {{<< v.submit, v.order_id >> : v \in told}} :
       /\ accepted' = AfterLiveCancel(pid, ok)
       /\ \/ ok = accepted[pid] /\ MarkCancelled(pid)
          \/ ok # accepted[pid] /\ UNCHANGED runtime
  /\ cancels' = cancels + 1
  /\ UNCHANGED << config, now, plans, results, published, pending >>

-----------------------------------------------------------------------------
(* The surroundings.                                                        *)

\* The venue fills an order.  Nothing tells the gateway.
VenueFills(v) ==
  /\ v.state = "open"
  /\ venue' = Closing({v}, "filled")
  /\ UNCHANGED << config, now, plans, runtime, results, published, pending, cancels,
                  accepted >>

ClockTick ==
  /\ now + 1 \in Clock
  /\ now' = now + 1
  /\ UNCHANGED << config, plans, runtime, results, published, pending, cancels,
                  accepted, venue >>

GatewayNext ==
  \/ \E env \in Envelopes : RejectEnvelope(env) \/ RejectPlan(env)
  \/ \E env \in Envelopes :
       \/ /\ config.mode # "Live"
          /\ \E books \in BookViews : Submit(env, books, [k \in DOMAIN env.legs |-> "refused"])
       \/ /\ config.mode = "Live"
          /\ \E books \in BookViews, answers \in [DOMAIN env.legs -> Answers] :
               Submit(env, books, answers)
  \/ Poll
  \/ \E pid \in DOMAIN runtime : CancelPaper(pid)
  \/ \E pid \in DOMAIN runtime :
       \E closed \in SUBSET venue : \E told \in SUBSET closed : CancelLive(pid, closed, told)
  \/ \E v \in venue : VenueFills(v)
  \/ ClockTick

GatewaySpec == GatewayInit /\ [][GatewayNext]_gatewayVars

-----------------------------------------------------------------------------
(* Properties.                                                              *)

\* A reservation is consumed only when every lot was bought, and released only when none
\* was: a plan that bought a part of its lots keeps its reservation (apply_plan_lifecycle,
\* consume_reservation, release_reservation).
DispositionMatchesFills ==
  \A i \in DOMAIN results :
    /\ results[i].disposition = "Consume" => AllFilled(results[i].fills)
    /\ results[i].disposition = "Release" => ~ AnyFilled(results[i].fills)
    /\ AllFilled(results[i].fills) => results[i].disposition = "Consume"

\* The status the state machine gave an order agrees with what the FillTracker counted
\* for it: the two are computed apart from the same reports.
StatusMatchesFills ==
  \A pid \in DOMAIN runtime : \A k \in DOMAIN runtime[pid].fills :
    LET fill   == runtime[pid].fills[k]
        status == plans[pid].orders[k].status
    IN  /\ status = "Filled" <=> fill.filled = fill.requested
        /\ status = "PartiallyFilled" <=> 0 < fill.filled /\ fill.filled < fill.requested

\* What the gateway concludes of a plan and of its orders is what their fills say.
OutcomeMatchesFills == DispositionMatchesFills /\ StatusMatchesFills

\* In PaperAtomic mode a plan buys every lot or none (docs/execution_gateway.md, 6).
AtomicAllOrNothing ==
  config.mode = "Paper" /\ config.paper_mode = "PaperAtomic" =>
    \A i \in DOMAIN results : AnyFilled(results[i].fills) => AllFilled(results[i].fills)

\* An order the venue acknowledged and still holds can be cancelled: the live adapter
\* names it for as long as the plan is not submitted again, whatever cancels failed or
\* were answered in part.
AcknowledgedStaysCancellable ==
  \A v \in venue :
    /\ v.acked /\ v.state = "open" /\ v.submit = runtime[v.plan_id].submit
    => v.plan_id \in DOMAIN accepted /\ << v.submit, v.order_id >> \in accepted[v.plan_id]

-----------------------------------------------------------------------------
(* Statements of docs/execution_gateway.md that the code does not keep.     *)

\* A plan that was cancelled has settled its reservation (4: Cancelled -> Release; a plan
\* that had consumed it before the cancel is not held against the code).
CancelledReleases ==
  \A pid \in DOMAIN runtime :
    runtime[pid].plan.status = "Cancelled" =>
      \E i \in DOMAIN results :
        results[i].plan_id = pid /\ results[i].disposition # "None"
=============================================================================
