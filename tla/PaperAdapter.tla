---------------------------- MODULE PaperAdapter ----------------------------
(***************************************************************************)
(* What becomes of the orders of a plan (engine/execution/state): the two  *)
(* state machines, the FillTracker and the PartialFillPolicy; and the      *)
(* paper adapter (engine/execution/adapter/PaperExecutionAdapter.cpp): the *)
(* orders filled against the asks of the books the caller passes.          *)
(*                                                                         *)
(* An order is [asset_id, quantity_lots, limit_price_tick, status]; its    *)
(* order_id is its place in the plan.  A report is                         *)
(* [order_id, status, filled_lots, remaining_lots, avg_fill_price_tick].   *)
(* books[a] is [found, usable_for_depth, asks] whether it came as a        *)
(* snapshot or as a depth view, which fill alike.  Every order sees the    *)
(* whole book: what an earlier order of the plan took is not subtracted.   *)
(***************************************************************************)
EXTENDS Integers, Sequences, FiniteSets

-----------------------------------------------------------------------------
(* OrderStateMachine and PlanStateMachine.                                  *)

Terminal == {"Filled", "Cancelled", "Failed", "Expired"}

OrderStatuses ==
  Terminal \cup {"Created", "Planned", "Sent", "Acked", "PartiallyFilled", "CancelRequested"}

PlanStatuses == OrderStatuses \cup {"HedgeRequired"}

Sending == {<< "Created", "Planned" >>, << "Planned", "Sent" >>, << "Sent", "Acked" >>,
            << "Acked", "PartiallyFilled" >>, << "Acked", "Filled" >>,
            << "PartiallyFilled", "CancelRequested" >>, << "CancelRequested", "Cancelled" >>}

OrderMoves == Sending \cup {<< "PartiallyFilled", "Filled" >>}

PlanMoves == Sending \cup {<< "PartiallyFilled", "HedgeRequired" >>,
                           << "HedgeRequired", "CancelRequested" >>}

CanTransition(moves, current, next) ==
  \/ current = next
  \/ /\ current \notin Terminal
     /\ next \in {"Failed", "Expired"} \/ << current, next >> \in moves

\* An illegal transition keeps the current status.
Transition(moves, current, next) ==
  IF CanTransition(moves, current, next) THEN next ELSE current

\* prepare_child_for_adapter and prepare_plan_for_adapter.
PrepareForAdapter(moves) ==
  Transition(moves,
             Transition(moves, Transition(moves, "Created", "Planned"), "Sent"), "Acked")

-----------------------------------------------------------------------------
(* FillTracker.                                                             *)

Least(a, b) == IF a <= b THEN a ELSE b
Most(a, b) == IF a >= b THEN a ELSE b

\* FillTracker::reset.
NoFills(orders) ==
  [k \in DOMAIN orders |->
     [requested |-> orders[k].quantity_lots, filled |-> 0,
      remaining |-> orders[k].quantity_lots, cost |-> 0]]

\* FillTracker::apply for the order the report names.  What the report says remains counts
\* only when it is positive, or when the order is filled.
ChildAfter(child, report) ==
  LET lots   == Most(0, report.filled_lots)
      filled == Least(child.requested, child.filled + lots)
      left   == Most(0, child.requested - filled)
  IN  [child EXCEPT
         !.filled    = filled,
         !.remaining = IF report.remaining_lots > 0 \/ filled >= child.requested
                       THEN Least(left, Most(0, report.remaining_lots)) ELSE left,
         !.cost      = IF lots > 0 /\ report.avg_fill_price_tick > 0
                       THEN child.cost + lots * report.avg_fill_price_tick ELSE child.cost]

\* refresh_plan_flags.
AnyFilled(fills) == \E k \in DOMAIN fills : fills[k].filled > 0

AllFilled(fills) ==
  /\ fills # << >>
  /\ \A k \in DOMAIN fills : fills[k].requested > 0 /\ fills[k].filled >= fills[k].requested

AnyPartial(fills) ==
  \E k \in DOMAIN fills : fills[k].filled > 0 /\ fills[k].filled < fills[k].requested

-----------------------------------------------------------------------------
(* PartialFillPolicy, and ExecutionGateway::apply_plan_lifecycle.           *)

MustHedge(fills) == AnyFilled(fills) /\ ~ AllFilled(fills) /\ Len(fills) > 1

\* Faulty variant: what the adapter says goes before what was filled.
LifecycleTrustingAdapter(result, fills) ==
  IF ~ result.ok \/ result.rejected > 0 THEN "Failed"
  ELSE IF MustHedge(fills) THEN "HedgeRequired" ELSE result.status

ApplyPlanLifecycle(result, fills) ==
  IF MustHedge(fills)
  THEN Transition(PlanMoves, Transition(PlanMoves, "Acked", "PartiallyFilled"),
                  "HedgeRequired")
  ELSE IF result.status = "Filled" /\ AllFilled(fills)
  THEN Transition(PlanMoves, "Acked", "Filled")
  ELSE IF result.status = "PartiallyFilled" \/ AnyPartial(fills)
  THEN Transition(PlanMoves, "Acked", "PartiallyFilled")
  ELSE IF ~ result.ok \/ result.status = "Failed" \/ result.rejected > 0
  THEN Transition(PlanMoves, "Acked", "Failed")
  ELSE result.status

-----------------------------------------------------------------------------
(* PaperExecutionAdapter.                                                   *)

CONSTANT SizeUnit       \* sizes are doubles: a level counts in parts of a lot

ASSUME SizeUnitAssumption == SizeUnit \in Nat \ {0}

\* One level of the loop of simulate_buy.
Take(order, s, level) ==
  LET lots == Least(order.quantity_lots - s.filled, level.size \div SizeUnit)
  IN  IF \/ s.filled = order.quantity_lots
         \/ level.price_tick <= 0 \/ level.price_tick > order.limit_price_tick
         \/ level.size <= 0 \/ lots <= 0
      THEN s
      ELSE [filled |-> s.filled + lots, notional |-> s.notional + lots * level.price_tick]

Bought(order, asks) ==
  LET Walk[i \in 0 .. Len(asks)] ==
        IF i = 0 THEN [filled |-> 0, notional |-> 0] ELSE Take(order, Walk[i - 1], asks[i])
  IN  Walk[Len(asks)]

\* simulate_buy and simulate_buy_depth_view.
SimulateBuy(order, view) ==
  IF ~ view.found \/ ~ view.usable_for_depth THEN [filled |-> 0, notional |-> 0]
  ELSE Bought(order, view.asks)

\* make_report: the average price is rounded down.
PaperReport(k, order, status, s) ==
  [order_id |-> k, status |-> status, filled_lots |-> s.filled,
   remaining_lots |-> order.quantity_lots - s.filled,
   avg_fill_price_tick |-> IF s.filled > 0 THEN s.notional \div s.filled ELSE 0]

RejectedReport(k, order) == PaperReport(k, order, "Failed", [filled |-> 0, notional |-> 0])

Outcome(ok, status, rejected, reports) ==
  [ok |-> ok, status |-> status, rejected |-> rejected, reports |-> reports]

RejectAll(orders) ==
  Outcome(FALSE, "Failed", Len(orders),
          [k \in DOMAIN orders |-> RejectedReport(k, orders[k])])

Full(orders, sims) == {k \in DOMAIN orders : sims[k].filled = orders[k].quantity_lots}

\* Faulty variant: one order that can be filled is enough.
AtomicIfAny(orders, sims) ==
  IF Full(orders, sims) # {}
  THEN Outcome(TRUE, "Filled", 0,
               [k \in DOMAIN orders |-> PaperReport(k, orders[k], "Filled", sims[k])])
  ELSE RejectAll(orders)

\* PaperAtomic: every order in full, or none.
SubmitAtomic(orders, sims) ==
  IF Full(orders, sims) = DOMAIN orders
  THEN Outcome(TRUE, "Filled", 0,
               [k \in DOMAIN orders |-> PaperReport(k, orders[k], "Filled", sims[k])])
  ELSE RejectAll(orders)

\* PaperSequential: each order on its own; a partial fill counts only when it is allowed.
SequentialReport(k, order, s, allow_partial) ==
  IF s.filled = order.quantity_lots THEN PaperReport(k, order, "Filled", s)
  ELSE IF s.filled > 0 /\ allow_partial THEN PaperReport(k, order, "PartiallyFilled", s)
  ELSE RejectedReport(k, order)

Having(reports, status) == Cardinality({k \in DOMAIN reports : reports[k].status = status})

SequentialOutcome(reports) ==
  Outcome(Having(reports, "Failed") = 0,
          IF Having(reports, "PartiallyFilled") > 0 THEN "PartiallyFilled"
          ELSE IF Having(reports, "Failed") = 0 THEN "Filled" ELSE "Failed",
          Having(reports, "Failed"), reports)

\* PaperExecutionAdapter::submit_plan.
PaperFill(orders, sims, config) ==
  IF config.paper_mode = "PaperAtomic" THEN SubmitAtomic(orders, sims)
  ELSE SequentialOutcome([k \in DOMAIN orders |->
         SequentialReport(k, orders[k], sims[k], config.allow_partial_fill_paper)])

PaperSubmit(plan, books, config, now) ==
  IF plan.expire_after_ns # 0 /\ now >= plan.expire_after_ns THEN RejectAll(plan.orders)
  ELSE PaperFill(plan.orders,
                 [k \in DOMAIN plan.orders |->
                    SimulateBuy(plan.orders[k], books[plan.orders[k].asset_id])],
                 config)
=============================================================================
