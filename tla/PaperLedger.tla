---------------------------- MODULE PaperLedger ----------------------------
(***************************************************************************)
(* The paper account (engine/paper/ledger): cash, positions with an        *)
(* average cost, and the ids of what has been applied.                     *)
(*                                                                         *)
(* A fill is [asset, side, lots, price, fee]; its id is whatever the       *)
(* report was hashed from, so equal reports have equal ids.                *)
(***************************************************************************)
EXTENDS Integers, FiniteSets

CONSTANTS Assets, StartingCash

ASSUME CashAssumption == StartingCash \in Int

NoPosition == [qty_lots |-> 0, cost_basis_tick |-> 0, avg_cost_tick |-> 0]

NewLedger ==
  [cash_tick |-> StartingCash, realized_pnl_tick |-> 0, fees_paid_tick |-> 0,
   positions |-> [a \in Assets |-> NoPosition],
   applied_fill_ids |-> {}, applied_execution_report_ids |-> {}]

-----------------------------------------------------------------------------
(* PositionLedger.                                                          *)

\* apply_buy: the average is rounded down, the basis keeps what the rounding leaves.
Bought(p, lots, cost) ==
  [qty_lots        |-> p.qty_lots + lots,
   cost_basis_tick |-> p.cost_basis_tick + cost,
   avg_cost_tick   |-> IF p.qty_lots + lots > 0
                       THEN (p.cost_basis_tick + cost) \div (p.qty_lots + lots)
                       ELSE p.avg_cost_tick]

\* apply_sell for a quantity that is held; a position that is closed forgets its basis.
Sold(p, lots) ==
  IF p.qty_lots = lots THEN NoPosition
  ELSE [qty_lots        |-> p.qty_lots - lots,
        cost_basis_tick |-> p.cost_basis_tick - p.avg_cost_tick * lots,
        avg_cost_tick   |-> (p.cost_basis_tick - p.avg_cost_tick * lots)
                              \div (p.qty_lots - lots)]

Holds(p, lots) == p.qty_lots >= lots

-----------------------------------------------------------------------------
(* PaperLedger.                                                             *)

Buy(ledger, fill) ==
  [ledger EXCEPT
     !.cash_tick = @ - (fill.lots * fill.price + fill.fee),
     !.fees_paid_tick = @ + fill.fee,
     !.positions[fill.asset] = Bought(@, fill.lots, fill.lots * fill.price)]

Sell(ledger, fill) ==
  [ledger EXCEPT
     !.cash_tick = @ + (fill.lots * fill.price - fill.fee),
     !.realized_pnl_tick =
        @ + (fill.price - ledger.positions[fill.asset].avg_cost_tick) * fill.lots - fill.fee,
     !.fees_paid_tick = @ + fill.fee,
     !.positions[fill.asset] = Sold(@, fill.lots)]

\* Faulty variant: a fill that was applied is applied again.
FillSeenNever(ledger, id) == FALSE

FillSeen(ledger, id) == id \in ledger.applied_fill_ids

\* apply_fill(PaperFill).  A fill that is refused is not remembered.
ApplyPaperFill(ledger, id, fill) ==
  IF \/ FillSeen(ledger, id)
     \/ fill.side = "Sell" /\ ~ Holds(ledger.positions[fill.asset], fill.lots)
  THEN ledger
  ELSE [(IF fill.side = "Buy" THEN Buy(ledger, fill) ELSE Sell(ledger, fill))
          EXCEPT !.applied_fill_ids = @ \cup {id}]

\* apply_fill(FillApplication): a report on an order that filled nothing is remembered,
\* a sale is not supported.
ApplyExecutionFill(ledger, id, fill) ==
  IF \/ id \in ledger.applied_execution_report_ids
     \/ fill.lots > 0 /\ fill.side = "Sell"
  THEN ledger
  ELSE [(IF fill.lots = 0 THEN ledger ELSE Buy(ledger, fill))
          EXCEPT !.applied_execution_report_ids = @ \cup {id}]
=============================================================================
