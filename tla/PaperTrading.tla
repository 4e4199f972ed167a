---------------------------- MODULE PaperTrading ----------------------------
(***************************************************************************)
(* The paper trading engine (engine/paper/core) behind the execution       *)
(* gateway, as run_worldcup_feed_to_execution joins them: the gateway      *)
(* shows it every plan before the adapter sees it and every report it      *)
(* publishes, and the books show it their marks.                           *)
(*                                                                         *)
(* The engine keeps the fills twice, in its ledger and in its portfolio,   *)
(* and the progress of every plan.  A view is [asset, bid, ask, usable],   *)
(* with the price 0 for an empty side; the asset is kept to tell whose     *)
(* book it is, the engine itself keeps views by asset_index only.          *)
(***************************************************************************)
EXTENDS ExecutionGateway, FiniteSetsExt

CONSTANTS
  Assets, StartingCash,
  AssetIndex,         \* the artifact reader numbers the assets from 0
  MarkPrices,         \* the [bid, ask, usable] of the books that are marked
  MaxMarks            \* bound: calls of on_mark_snapshot

Ledger == INSTANCE PaperLedger

VARIABLES
  paper,              \* PaperTradingEngine
  marks               \* calls of on_mark_snapshot

paperVars == << gatewayVars, paper, marks >>

NewEngine ==
  [child_orders |-> << >>, terminal_by_plan |-> << >>, asset_index |-> << >>,
   depth_views |-> << >>, ledger |-> Ledger!NewLedger,
   portfolio |-> [a \in Assets |-> Ledger!NoPosition],
   filled_orders |-> << >>, filled_notional_tick |-> 0,
   filled_plan_ids |-> {}, failed_plan_ids |-> {}]

Over(f, g) == [x \in DOMAIN f \cup DOMAIN g |-> IF x \in DOMAIN f THEN f[x] ELSE g[x]]

-----------------------------------------------------------------------------
(* The plan.                                                                *)

NewTerminal(orders) ==
  [expected_child_orders |-> Len(orders), filled_child_orders |-> 0, actual_buy_cost_tick |-> 0]

\* Faulty variant: what is known of the plan is kept when it is seen again.
RecordTerminalOnce(e, pid, orders) ==
  IF pid \in DOMAIN e.terminal_by_plan THEN e.terminal_by_plan
  ELSE Put(e.terminal_by_plan, pid, NewTerminal(orders))

\* record_order_plan starts the plan anew, also when it is submitted again.
RecordTerminal(e, pid, orders) == Put(e.terminal_by_plan, pid, NewTerminal(orders))

\* on_order_plan; PaperEventAdapter keeps the orders by the same key.
OnOrderPlan(e, pid, orders) ==
  LET assets == {orders[k].asset_id : k \in DOMAIN orders}
  IN  [e EXCEPT
         !.terminal_by_plan = RecordTerminal(e, pid, orders),
         !.child_orders = Over([key \in {<< pid, k >> : k \in DOMAIN orders} |-> orders[key[2]]], @),
         !.asset_index = Over([a \in assets |-> AssetIndex[a]], @)]

-----------------------------------------------------------------------------
(* The reports.                                                             *)

\* Faulty variant: the time of the report is not part of its id.
ReportIdUntimed(r) ==
  << r.plan_id, r.order_id, r.status, r.filled_lots, r.avg_fill_price_tick >>

\* derive_execution_report_id; the hash is taken to be injective.
ReportId(r) ==
  << r.plan_id, r.order_id, r.event_ts_ns, r.status, r.filled_lots, r.avg_fill_price_tick >>

\* PaperEventAdapter::observe: a report of an order that was never shown fills nothing.
HasFill(e, r) ==
  /\ r.status \in {"Filled", "PartiallyFilled"} /\ r.filled_lots > 0
  /\ << r.plan_id, r.order_id >> \in DOMAIN e.child_orders

FillOf(e, r) ==
  [asset |-> e.child_orders[<< r.plan_id, r.order_id >>].asset_id, side |-> "Buy",
   lots |-> r.filled_lots, price |-> r.avg_fill_price_tick, fee |-> 0]

\* PaperPortfolio::apply_fill.
InPortfolio(portfolio, fill) ==
  [portfolio EXCEPT ![fill.asset] = Ledger!Bought(@, fill.lots, fill.lots * fill.price)]

\* record_filled_order: every fill that is applied counts as one order of its plan.
RecordFilledOrder(e, r, fill) ==
  [e EXCEPT
     !.filled_orders = Append(@, [id |-> ReportId(r), asset_index |-> AssetIndex[fill.asset],
                                  notional_tick |-> fill.lots * fill.price]),
     !.terminal_by_plan[r.plan_id].filled_child_orders = @ + 1,
     !.terminal_by_plan[r.plan_id].actual_buy_cost_tick = @ + fill.lots * fill.price]

\* handle_observed_event: the portfolio and the plan follow the ledger.
HandleFill(e, r, fill) ==
  LET ledger == Ledger!ApplyExecutionFill(e.ledger, ReportId(r), fill)
      taken  == [e EXCEPT !.ledger = ledger, !.portfolio = InPortfolio(@, fill)]
  IN  IF ledger = e.ledger THEN e
      ELSE [RecordFilledOrder(taken, r, fill) EXCEPT !.filled_notional_tick = @ + fill.lots * fill.price]

\* on_execution_report.
OnExecutionReport(e, r) ==
  LET noted == [e EXCEPT
                  !.filled_plan_ids = IF r.status = "Filled" THEN @ \cup {r.plan_id} ELSE @,
                  !.failed_plan_ids = IF r.status \in {"Failed", "Expired", "Cancelled"}
                                      THEN @ \cup {r.plan_id} ELSE @]
  IN  IF HasFill(e, r) THEN HandleFill(noted, r, FillOf(e, r)) ELSE noted

OnExecutionReports(e, reports) ==
  LET Walk[i \in 0 .. Len(reports)] ==
        IF i = 0 THEN e ELSE OnExecutionReport(Walk[i - 1], reports[i])
  IN  Walk[Len(reports)]

-----------------------------------------------------------------------------
(* The marks.                                                               *)

\* on_mark_snapshot: an asset that no plan has named yet gets the index 0.
OnMark(e, a, prices) ==
  LET index == IF a \in DOMAIN e.asset_index THEN e.asset_index[a] ELSE 0
      view  == [asset |-> a, bid |-> prices.bid, ask |-> prices.ask, usable |-> prices.usable]
  IN  [e EXCEPT !.depth_views = Put(@, index, view)]

NoView == [asset |-> "none", bid |-> 0, ask |-> 0, usable |-> FALSE]

\* find_depth.
DepthFor(e, a) ==
  IF AssetIndex[a] \in DOMAIN e.depth_views THEN e.depth_views[AssetIndex[a]] ELSE NoView

\* mark_from_depth.
MidMark(view) == IF view.bid = 0 \/ view.ask = 0 THEN 0 ELSE (view.bid + view.ask) \div 2

LiquidationMark(view) == view.bid

MarkQuality(view) ==
  IF view.bid = 0 \/ view.ask = 0 THEN "Missing" ELSE IF view.usable THEN "Good" ELSE "Degraded"

Held(e) == {a \in Assets : e.portfolio[a].qty_lots > 0}

\* PaperPnLEngine::compute: the cash is the ledger's and the positions the portfolio's.
Pnl(e) ==
  LET ValueAt(Mark(_)) ==
        MapThenSumSet(LAMBDA a : e.portfolio[a].qty_lots * Mark(DepthFor(e, a)), Held(e))
      Basis == MapThenSumSet(LAMBDA a : e.portfolio[a].cost_basis_tick, Held(e))
  IN  [equity_mid_tick |-> e.ledger.cash_tick + ValueAt(MidMark),
       equity_liquidation_tick |-> e.ledger.cash_tick + ValueAt(LiquidationMark),
       unrealized_pnl_mid_tick |-> ValueAt(MidMark) - Basis,
       unrealized_pnl_liquidation_tick |-> ValueAt(LiquidationMark) - Basis,
       good |-> \A a \in Held(e) : MarkQuality(DepthFor(e, a)) = "Good"]

\* build_terminal_pnl_snapshots.
Complete(terminal) ==
  /\ terminal.expected_child_orders > 0
  /\ terminal.filled_child_orders >= terminal.expected_child_orders

-----------------------------------------------------------------------------
(* The gateway with the engine attached.                                    *)

NewReports == SubSeq(published', Len(published) + 1, Len(published'))

\* The plans whose submission reached the adapter in this step: at most one.
Planned == {pid \in DOMAIN runtime' : runtime'[pid].submit > Len(results)}

WithPlans(e) ==
  IF Planned = {} THEN e
  ELSE LET pid == CHOOSE p \in Planned : TRUE
       IN  OnOrderPlan(e, pid, runtime'[pid].plan.orders)

\* The driver attaches the engine to the paper adapter only.
Attached == config.mode = "Paper"

GatewayStep ==
  /\ GatewayNext
  /\ paper' = IF Attached THEN OnExecutionReports(WithPlans(paper), NewReports) ELSE paper
  /\ UNCHANGED marks

MarkSnapshot(a, prices) ==
  /\ Attached /\ marks < MaxMarks
  /\ marks' = marks + 1
  /\ paper' = OnMark(paper, a, prices)
  /\ UNCHANGED gatewayVars

PaperInit == GatewayInit /\ paper = NewEngine /\ marks = 0

PaperNext ==
  \/ GatewayStep
  \/ \E a \in Assets, prices \in MarkPrices : MarkSnapshot(a, prices)

PaperSpec == PaperInit /\ [][PaperNext]_paperVars

-----------------------------------------------------------------------------
(* Properties.                                                              *)

\* When the fills of a submission were reported.
FilledAt(i) ==
  {published[r].event_ts_ns :
     r \in {q \in DOMAIN published : published[q].submit = i /\ published[q].filled_lots > 0}}

\* Two submissions of one plan filled at one time, whose reports the ledger cannot tell apart.
Indistinct(i, j) ==
  i # j /\ results[i].plan_id = results[j].plan_id /\ FilledAt(i) \cap FilledAt(j) # {}

FilledFor(i, a) ==
  LET orders == plans[results[i].plan_id].orders
  IN  MapThenSumSet(LAMBDA k : results[i].fills[k].filled,
                    {k \in DOMAIN results[i].fills : orders[k].asset_id = a})

CostOf(i) == MapThenSumSet(LAMBDA k : results[i].fills[k].cost, DOMAIN results[i].fills)

\* The paper account holds exactly what the gateway's fill trackers counted as bought, and
\* its cash fell by exactly what that cost, however often a plan was submitted, as long as
\* no plan was filled by two submissions at one time (derive_execution_report_id, PaperLedger and
\* PaperEventAdapter against FillTracker).
AccountFollowsGateway ==
  Attached /\ ~ (\E i, j \in DOMAIN results : Indistinct(i, j)) =>
    /\ \A a \in Assets :
         paper.ledger.positions[a].qty_lots
           = MapThenSumSet(LAMBDA i : FilledFor(i, a), DOMAIN results)
    /\ paper.ledger.cash_tick = StartingCash - MapThenSumSet(CostOf, DOMAIN results)

\* A plan that the dashboard shows as complete, and whose guaranteed payout it books, was
\* bought in full by its latest submission, unless partial fills are simulated
\* (record_order_plan, record_filled_order, build_terminal_pnl_snapshots).
CompletePlansAreBought ==
  ~ config.allow_partial_fill_paper =>
    \A pid \in DOMAIN paper.terminal_by_plan :
      Complete(paper.terminal_by_plan[pid]) => AllFilled(runtime[pid].fills)

\* The equity on the dashboard is the starting cash plus the unrealized profit: what the
\* ledger paid and what the portfolio holds are the same fills (handle_observed_event,
\* PaperPnLEngine::compute).
EquityAddsUp ==
  LET pnl == Pnl(paper)
  IN  /\ pnl.equity_mid_tick = StartingCash + pnl.unrealized_pnl_mid_tick
      /\ pnl.equity_liquidation_tick = StartingCash + pnl.unrealized_pnl_liquidation_tick

\* The paper account adds up: it holds what the gateway bought, and its equity is what it holds
\* (PaperTradingEngine).
AccountAddsUp == AccountFollowsGateway /\ EquityAddsUp

-----------------------------------------------------------------------------
(* A statement of docs/paper_trading_framework.md that the code does not    *)
(* keep.                                                                    *)

\* A mark of good quality comes from the book of the asset that is held ("missing or
\* degraded market marks degrade PnL quality").
GoodMarksAreOwn ==
  Pnl(paper).good => \A a \in Held(paper) : DepthFor(paper, a).asset = a
=============================================================================
