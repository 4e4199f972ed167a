-------------------------- MODULE ExecutionProofs ---------------------------
(***************************************************************************)
(* Proofs about the execution gateway and the paper engine behind it, for  *)
(* all envelopes, books and configurations, any number of calls and every  *)
(* behaviour of the venue.                                                 *)
(***************************************************************************)
EXTENDS PaperTrading, PrefixSumTheorems, FiniteSetTheorems

-----------------------------------------------------------------------------
(* simulate_buy never takes more than the order asks for.                   *)

\* What it means for w to be the states of the loop over the first n asks.
IsPurchase(w, order, asks, n) ==
  w = [i \in 0 .. n |-> IF i = 0 THEN [filled |-> 0, notional |-> 0]
                        ELSE Take(order, w[i - 1], asks[i])]

\* The loop can be continued by one level.
LEMMA PurchaseExtends ==
  ASSUME NEW order, NEW asks, NEW n \in Nat, NEW w, IsPurchase(w, order, asks, n)
  PROVE  \E x : IsPurchase(x, order, asks, n + 1)
<1> DEFINE x == [i \in 0 .. n + 1 |-> IF i = n + 1 THEN Take(order, w[n], asks[n + 1]) ELSE w[i]]
           y == [i \in 0 .. n + 1 |-> IF i = 0 THEN [filled |-> 0, notional |-> 0]
                                      ELSE Take(order, x[i - 1], asks[i])]
<1>1. ASSUME NEW i \in 0 .. n + 1 PROVE x[i] = y[i]
  <2>1. CASE i = 0
    BY <2>1 DEF IsPurchase
  <2>2. CASE i = n + 1
    <3>1. i - 1 = n /\ i # 0 /\ i - 1 \in 0 .. n + 1 /\ n # n + 1
      BY <2>2
    <3>2. x[i - 1] = w[n]
      BY <3>1
    <3> QED BY <2>2, <3>1, <3>2
  <2>3. CASE i # 0 /\ i # n + 1
    <3>1. i \in 0 .. n /\ i - 1 \in 0 .. n /\ i - 1 \in 0 .. n + 1 /\ i - 1 # n + 1
      BY <2>3
    <3>2. w[i] = Take(order, w[i - 1], asks[i])
      BY <2>3, <3>1 DEF IsPurchase
    <3>3. x[i - 1] = w[i - 1] /\ x[i] = w[i]
      BY <2>3, <3>1
    <3> QED BY <2>3, <3>2, <3>3, Zenon
  <2> QED BY <2>1, <2>2, <2>3
<1>2. x = y
  BY <1>1, Zenon
<1> QED BY <1>2, Zenon DEF IsPurchase

\* The loop has states for every number of levels.
LEMMA PurchaseExists ==
  ASSUME NEW order, NEW asks, NEW n \in Nat
  PROVE  \E w : IsPurchase(w, order, asks, n)
<1> DEFINE Good == {m \in Nat : \E w : IsPurchase(w, order, asks, m)}
<1>1. 0 \in Good
  <2>1. IsPurchase([i \in 0 .. 0 |-> [filled |-> 0, notional |-> 0]], order, asks, 0)
    BY DEF IsPurchase
  <2> QED BY <2>1
<1>2. \A m \in Good : m + 1 \in Good
  BY PurchaseExtends
<1>3. Good = Nat
  <2>1. Good \in SUBSET Nat
    OBVIOUS
  <2> HIDE DEF Good
  <2> QED BY <1>1, <1>2, <2>1, NatSetInduction, Zenon
<1> QED BY <1>3

\* A well-formed list of asks.
IsAsks(asks) ==
  /\ Len(asks) \in Nat /\ DOMAIN asks = 1 .. Len(asks)
  /\ \A i \in DOMAIN asks : asks[i].price_tick \in Int /\ asks[i].size \in Int

\* One level takes no more than what is missing.
LEMMA TakeWithin ==
  ASSUME NEW order, order.quantity_lots \in Nat, NEW s, s.filled \in 0 .. order.quantity_lots,
         NEW level, level.size \in Int
  PROVE  Take(order, s, level).filled \in 0 .. order.quantity_lots
<1> DEFINE lots == Least(order.quantity_lots - s.filled, level.size \div SizeUnit)
<1>1. level.size \div SizeUnit \in Int
  BY SizeUnitAssumption
<1>2. lots \in Int /\ lots <= order.quantity_lots - s.filled
  BY <1>1 DEF Least
<1>3. Take(order, s, level) = s \/ (lots > 0 /\ Take(order, s, level).filled = s.filled + lots)
  <2> HIDE DEF lots
  <2>1. Take(order, s, level) =
          IF \/ s.filled = order.quantity_lots
             \/ level.price_tick <= 0 \/ level.price_tick > order.limit_price_tick
             \/ level.size <= 0 \/ lots <= 0
          THEN s
          ELSE [filled |-> s.filled + lots, notional |-> s.notional + lots * level.price_tick]
    BY DEF Take, lots
  <2> QED BY <1>2, <2>1
<1> HIDE DEF lots
<1> QED BY <1>2, <1>3

\* simulate_buy fills at most the quantity of the order, whatever the asks.
LEMMA BoughtWithin ==
  ASSUME NEW order, order.quantity_lots \in Nat, NEW asks, IsAsks(asks)
  PROVE  Bought(order, asks).filled \in 0 .. order.quantity_lots
<1> DEFINE n == Len(asks)
           w == CHOOSE x : IsPurchase(x, order, asks, n)
<1>1. n \in Nat
  BY DEF IsAsks
<1>2. IsPurchase(w, order, asks, n)
  BY <1>1, PurchaseExists
<1>3. Bought(order, asks) = w[n]
  BY DEF Bought, IsPurchase
<1> HIDE DEF w
<1> DEFINE Good == {i \in Nat : i <= n => w[i].filled \in 0 .. order.quantity_lots}
<1>4. 0 \in Good
  BY <1>1, <1>2 DEF IsPurchase
<1>5. \A i \in Good : i + 1 \in Good
  <2> SUFFICES ASSUME NEW i \in Good, i + 1 <= n
               PROVE  w[i + 1].filled \in 0 .. order.quantity_lots
    OBVIOUS
  <2>1. i \in Nat /\ i + 1 \in 1 .. n /\ i <= n /\ (i + 1) - 1 = i /\ i + 1 # 0
    BY <1>1
  <2>2. w[i].filled \in 0 .. order.quantity_lots
    BY <2>1
  <2>3. w[i + 1] = Take(order, w[i], asks[i + 1])
    BY <1>1, <1>2, <2>1 DEF IsPurchase
  <2>4. asks[i + 1].size \in Int
    BY <2>1 DEF IsAsks
  <2> QED BY <2>2, <2>3, <2>4, TakeWithin, Zenon
<1>6. Good = Nat
  <2>1. Good \in SUBSET Nat
    OBVIOUS
  <2> HIDE DEF Good
  <2> QED BY <1>4, <1>5, <2>1, NatSetInduction, Zenon
<1>7. n \in Good
  BY <1>1, <1>6, Zenon
<1> QED BY <1>1, <1>3, <1>7

-----------------------------------------------------------------------------
(* What the adapters report.                                                *)

\* The orders of a plan as submit gives them to the adapter.
IsOrders(orders) ==
  /\ Len(orders) \in Nat /\ Len(orders) > 0 /\ DOMAIN orders = 1 .. Len(orders)
  /\ \A k \in DOMAIN orders :
       /\ orders[k].quantity_lots \in Nat /\ orders[k].quantity_lots > 0
       /\ "status" \in DOMAIN orders[k] /\ orders[k].status = "Acked"

\* A report says of an order what was bought of it.
HonestReport(k, order, r) ==
  /\ "status" \in DOMAIN r
  /\ r.order_id = k
  /\ \/ r.status = "Filled" /\ r.filled_lots = order.quantity_lots
     \/ r.status = "PartiallyFilled" /\ r.filled_lots \in 1 .. order.quantity_lots - 1
     \/ r.status \in {"Failed", "Acked"} /\ r.filled_lots = 0

Honest(orders, outcome) ==
  /\ outcome.status \in {"Filled", "PartiallyFilled", "Failed", "Acked"}
  /\ DOMAIN outcome.reports \in {{}, DOMAIN orders}
  /\ \A k \in DOMAIN outcome.reports : HonestReport(k, orders[k], outcome.reports[k])
  /\ /\ DOMAIN outcome.reports = DOMAIN orders
     /\ \A k \in DOMAIN orders : outcome.reports[k].status = "Filled"
     => outcome.status = "Filled"

\* Every order or none.
AllOrNone(orders, outcome) ==
  \/ /\ DOMAIN outcome.reports = DOMAIN orders
     /\ \A k \in DOMAIN orders : outcome.reports[k].status = "Filled"
  \/ \A k \in DOMAIN outcome.reports : outcome.reports[k].status # "Filled"
                                       /\ outcome.reports[k].status # "PartiallyFilled"

\* No order in part.
NonePartial(outcome) ==
  \A k \in DOMAIN outcome.reports : outcome.reports[k].status # "PartiallyFilled"

\* reject_all reports every order as failed.
LEMMA RejectAllHonest ==
  ASSUME NEW orders, IsOrders(orders)
  PROVE  Honest(orders, RejectAll(orders)) /\ AllOrNone(orders, RejectAll(orders))
<1> DEFINE reports == [k \in DOMAIN orders |-> RejectedReport(k, orders[k])]
<1>1. RejectAll(orders).status = "Failed" /\ RejectAll(orders).reports = reports
  BY DEF RejectAll, Outcome
<1>2. \A k \in DOMAIN orders :
        /\ "status" \in DOMAIN reports[k] /\ reports[k].order_id = k
        /\ reports[k].status = "Failed" /\ reports[k].filled_lots = 0
  BY DEF RejectedReport, PaperReport
<1>3. DOMAIN reports = DOMAIN orders /\ 1 \in DOMAIN orders
  BY DEF IsOrders
<1> HIDE DEF reports
<1> QED BY <1>1, <1>2, <1>3, Zenon DEF Honest, HonestReport, AllOrNone

\* No order is counted exactly if there is none.
LEMMA HavingNone ==
  ASSUME NEW orders, IsOrders(orders), NEW reports, DOMAIN reports = DOMAIN orders,
         NEW status
  PROVE  /\ Having(reports, status) \in Nat
         /\ Having(reports, status) = 0 <=> \A k \in DOMAIN orders : reports[k].status # status
<1> DEFINE S == {k \in DOMAIN reports : reports[k].status = status}
<1>1. IsFiniteSet(1 .. Len(orders))
  BY FS_Interval DEF IsOrders
<1>2. S \subseteq 1 .. Len(orders)
  BY DEF IsOrders
<1>3. IsFiniteSet(S)
  BY <1>1, <1>2, FS_Subset, Zenon
<1>4. Cardinality(S) \in Nat /\ (Cardinality(S) = 0 <=> S = {})
  <2> HIDE DEF S
  <2> QED BY <1>3, FS_CardinalityType, FS_EmptySet, Zenon
<1> QED BY <1>4 DEF Having

\* All or none leaves no part.
LEMMA AllOrNoneIsWhole ==
  ASSUME NEW orders, NEW outcome, AllOrNone(orders, outcome)
  PROVE  NonePartial(outcome)
BY DEF AllOrNone, NonePartial

\* The paper adapter, for fills within the quantities.
LEMMA PaperFillHonest ==
  ASSUME NEW orders, IsOrders(orders), NEW sims, NEW c,
         \A k \in DOMAIN orders : sims[k].filled \in 0 .. orders[k].quantity_lots
  PROVE  /\ Honest(orders, PaperFill(orders, sims, c))
         /\ c.paper_mode = "PaperAtomic" => AllOrNone(orders, PaperFill(orders, sims, c))
         /\ ~ c.allow_partial_fill_paper => NonePartial(PaperFill(orders, sims, c))
<1>1. CASE c.paper_mode = "PaperAtomic"
  <2>1. PaperFill(orders, sims, c) = SubmitAtomic(orders, sims)
    BY <1>1, Zenon DEF PaperFill
  <2>2. CASE Full(orders, sims) = DOMAIN orders
    <3> DEFINE reports == [k \in DOMAIN orders |-> PaperReport(k, orders[k], "Filled", sims[k])]
               out == SubmitAtomic(orders, sims)
    <3>1. out.status = "Filled" /\ out.reports = reports
      BY <2>2, Zenon DEF SubmitAtomic, Outcome
    <3>2. \A k \in DOMAIN orders :
            /\ "status" \in DOMAIN reports[k] /\ reports[k].order_id = k
            /\ reports[k].status = "Filled" /\ reports[k].filled_lots = orders[k].quantity_lots
      <4> TAKE k \in DOMAIN orders
      <4>1. sims[k].filled = orders[k].quantity_lots
        BY <2>2, Zenon DEF Full
      <4> QED BY <4>1, Zenon DEF PaperReport
    <3>3. DOMAIN reports = DOMAIN orders
      OBVIOUS
    <3> HIDE DEF reports, out
    <3>4. Honest(orders, out) /\ AllOrNone(orders, out)
      BY <3>1, <3>2, <3>3, Zenon DEF Honest, HonestReport, AllOrNone
    <3> QED BY <2>1, <3>4, AllOrNoneIsWhole, Zenon DEF out
  <2>3. CASE Full(orders, sims) # DOMAIN orders
    BY <2>1, <2>3, RejectAllHonest, AllOrNoneIsWhole, Zenon DEF SubmitAtomic
  <2> QED BY <2>2, <2>3, Zenon
<1>2. CASE c.paper_mode # "PaperAtomic"
  <2> DEFINE reports == [k \in DOMAIN orders |->
                           SequentialReport(k, orders[k], sims[k], c.allow_partial_fill_paper)]
             out == SequentialOutcome(reports)
  <2>1. PaperFill(orders, sims, c) = out
    BY <1>2, Zenon DEF PaperFill
  <2>2. ASSUME NEW k \in DOMAIN orders
        PROVE  /\ HonestReport(k, orders[k], reports[k]) /\ reports[k].status # "Acked"
               /\ ~ c.allow_partial_fill_paper => reports[k].status # "PartiallyFilled"
    <3>1. /\ sims[k].filled \in 0 .. orders[k].quantity_lots
          /\ orders[k].quantity_lots \in Nat /\ orders[k].quantity_lots > 0
      BY Zenon DEF IsOrders
    <3>2. CASE sims[k].filled = orders[k].quantity_lots
      <4>1. reports[k] = PaperReport(k, orders[k], "Filled", sims[k])
        BY <3>2, Zenon DEF SequentialReport
      <4>2. /\ "status" \in DOMAIN reports[k] /\ reports[k].order_id = k
            /\ reports[k].status = "Filled" /\ reports[k].filled_lots = sims[k].filled
        BY <4>1 DEF PaperReport
      <4> HIDE DEF reports
      <4> QED BY <3>1, <3>2, <4>2, Zenon DEF HonestReport
    <3>3. CASE /\ sims[k].filled # orders[k].quantity_lots
               /\ sims[k].filled > 0 /\ c.allow_partial_fill_paper
      <4>1. reports[k] = PaperReport(k, orders[k], "PartiallyFilled", sims[k])
        BY <3>3, Zenon DEF SequentialReport
      <4>2. /\ "status" \in DOMAIN reports[k] /\ reports[k].order_id = k
            /\ reports[k].status = "PartiallyFilled" /\ reports[k].filled_lots = sims[k].filled
        BY <4>1 DEF PaperReport
      <4> HIDE DEF reports
      <4> QED BY <3>1, <3>3, <4>2 DEF HonestReport
    <3>4. CASE /\ sims[k].filled # orders[k].quantity_lots
               /\ ~ (sims[k].filled > 0 /\ c.allow_partial_fill_paper)
      <4>1. reports[k] = RejectedReport(k, orders[k])
        BY <3>4, Zenon DEF SequentialReport
      <4>2. /\ "status" \in DOMAIN reports[k] /\ reports[k].order_id = k
            /\ reports[k].status = "Failed" /\ reports[k].filled_lots = 0
        BY <4>1 DEF RejectedReport, PaperReport
      <4> HIDE DEF reports
      <4> QED BY <4>2, Zenon DEF HonestReport
    <3> QED BY <3>2, <3>3, <3>4, Zenon
  <2>3. DOMAIN reports = DOMAIN orders
    OBVIOUS
  <2> HIDE DEF reports
  <2>4. /\ Having(reports, "PartiallyFilled") > 0 =>
             \E k \in DOMAIN orders : reports[k].status = "PartiallyFilled"
        /\ Having(reports, "Failed") # 0 =>
             \E k \in DOMAIN orders : reports[k].status = "Failed"
    BY <2>3, HavingNone
  <2>5. /\ out.reports = reports
        /\ out.status = IF Having(reports, "PartiallyFilled") > 0 THEN "PartiallyFilled"
                        ELSE IF Having(reports, "Failed") = 0 THEN "Filled" ELSE "Failed"
    BY Zenon DEF SequentialOutcome, Outcome
  <2> HIDE DEF out
  <2>6. Honest(orders, out)
    BY <2>2, <2>3, <2>4, <2>5, Zenon DEF Honest
  <2>7. ~ c.allow_partial_fill_paper => NonePartial(out)
    BY <2>2, <2>3, <2>5, Zenon DEF NonePartial
  <2> QED BY <1>2, <2>1, <2>6, <2>7, Zenon
<1> QED BY <1>1, <1>2, Zenon

\* The orders that submit prepares from a plan that is valid.
LEMMA PreparedOrders ==
  ASSUME NEW env \in Envelopes, Valid(env)
  PROVE  /\ IsOrders(Prepared(PlanOf(env)).orders)
         /\ DOMAIN Prepared(PlanOf(env)).orders = DOMAIN env.legs
         /\ \A k \in DOMAIN env.legs :
              Prepared(PlanOf(env)).orders[k].asset_id = env.legs[k].asset_id
<1> DEFINE plan == PlanOf(env)
           orders == plan.orders
           ready == Prepared(plan).orders
           n == Len(env.legs)
<1>1. n \in Nat /\ DOMAIN env.legs = 1 .. n
  BY EnvelopeAssumption, Zenon
<1>2. DOMAIN orders = 1 .. n
  BY <1>1, Zenon DEF PlanOf
<1>3. \A k \in 1 .. n :
        /\ orders[k].asset_id = env.legs[k].asset_id
        /\ DOMAIN orders[k] = {"asset_id", "client_order_id", "quantity_lots",
                               "limit_price_tick", "status"}
        /\ orders[k].quantity_lots \in Int
  <2> TAKE k \in 1 .. n
  <2>1. /\ env.legs[k].quantity_lots \in Int /\ env.approved_bundle_qty \in Int
        /\ env.approved_bundle_qty * env.legs[k].quantity_lots \in Int
    BY <1>1, EnvelopeAssumption
  <2> QED BY <1>1, <2>1, Zenon DEF PlanOf
<1>4. Len(orders) = n
  <2>1. orders \in [1 .. n -> {orders[k] : k \in 1 .. n}]
    BY <1>1, Zenon DEF PlanOf
  <2> QED BY <1>1, <2>1, LenOfFunction, Zenon
<1>5. n > 0 /\ \A k \in 1 .. n : orders[k].quantity_lots > 0
  <2> HIDE DEF plan
  <2> QED BY <1>1, <1>2, <1>4 DEF Valid, PlanValid, OrderValid, plan
<1>6. PrepareForAdapter(OrderMoves) = "Acked"
  BY DEF PrepareForAdapter, Transition, CanTransition, OrderMoves, Sending, Terminal
<1>7. ready = [k \in 1 .. n |-> [orders[k] EXCEPT !.status = "Acked"]]
  <2>1. "orders" \in DOMAIN plan /\ "status" \in DOMAIN plan
    BY DEF PlanOf
  <2> HIDE DEF plan
  <2> QED BY <1>2, <1>6, <2>1, Zenon DEF Prepared
<1> HIDE DEF orders, ready
<1>8. DOMAIN ready = 1 .. n
  BY <1>7
<1>9. Len(ready) = n
  <2>1. ready \in [1 .. n -> {ready[k] : k \in 1 .. n}]
    BY <1>7
  <2> QED BY <1>1, <2>1, LenOfFunction, Zenon
<1>10. \A k \in 1 .. n :
         /\ ready[k].quantity_lots = orders[k].quantity_lots
         /\ ready[k].asset_id = orders[k].asset_id
         /\ ready[k].status = "Acked" /\ "status" \in DOMAIN ready[k]
  BY <1>3, <1>7, Zenon
<1>11. IsOrders(ready)
  BY <1>1, <1>3, <1>5, <1>8, <1>9, <1>10 DEF IsOrders
<1> QED BY <1>1, <1>3, <1>8, <1>10, <1>11, Zenon DEF ready

\* Every adapter answers honestly, and the atomic one with all orders or none.
LEMMA AdapterHonest ==
  ASSUME config \in Configs, NEW env \in Envelopes, Valid(env), NEW books \in BookViews,
         NEW answers
  PROVE  LET plan == Prepared(PlanOf(env))
             out  == AdapterSubmit(plan, books, answers)
         IN  /\ Honest(plan.orders, out)
             /\ config.mode = "Paper" /\ config.paper_mode = "PaperAtomic" =>
                  AllOrNone(plan.orders, out)
             /\ config.mode = "Paper" /\ ~ config.allow_partial_fill_paper => NonePartial(out)
<1> DEFINE plan == Prepared(PlanOf(env))
           orders == plan.orders
           out == AdapterSubmit(plan, books, answers)
<1>1. /\ IsOrders(orders)
      /\ \A k \in DOMAIN orders : k \in DOMAIN env.legs
                                  /\ orders[k].asset_id = env.legs[k].asset_id
  BY PreparedOrders, Zenon
<1> HIDE DEF plan
<1>2. CASE config.mode = "Paper"
  <2>1. out = PaperSubmit(plan, books, config, now)
    BY <1>2, Zenon DEF AdapterSubmit
  <2> DEFINE sims == [k \in DOMAIN orders |-> SimulateBuy(orders[k], books[orders[k].asset_id])]
  <2>2. out = RejectAll(orders) \/ out = PaperFill(orders, sims, config)
    BY <2>1, Zenon DEF PaperSubmit
  <2>3. \A k \in DOMAIN orders : sims[k].filled \in 0 .. orders[k].quantity_lots
    <3> TAKE k \in DOMAIN orders
    <3>1. orders[k].quantity_lots \in Nat
      BY <1>1, Zenon DEF IsOrders
    <3>2. IsAsks(books[orders[k].asset_id].asks)
      BY <1>1, BooksAssumption, Zenon DEF IsAsks
    <3>3. Bought(orders[k], books[orders[k].asset_id].asks).filled \in 0 .. orders[k].quantity_lots
      BY <3>1, <3>2, BoughtWithin, Zenon
    <3> DEFINE view == books[orders[k].asset_id]
    <3>4. sims[k] = SimulateBuy(orders[k], view)
      BY Zenon
    <3>5. SimulateBuy(orders[k], view) \in {Bought(orders[k], view.asks),
                                           [filled |-> 0, notional |-> 0]}
      BY DEF SimulateBuy
    <3>6. [filled |-> 0, notional |-> 0].filled = 0
      BY Zenon
    <3> HIDE DEF sims
    <3> QED BY <3>1, <3>3, <3>4, <3>5, <3>6
  <2> HIDE DEF sims, out
  <2>4. /\ Honest(orders, out)
        /\ config.paper_mode = "PaperAtomic" => AllOrNone(orders, out)
        /\ ~ config.allow_partial_fill_paper => NonePartial(out)
    BY <1>1, <2>2, <2>3, RejectAllHonest, AllOrNoneIsWhole, PaperFillHonest, Zenon
  <2> QED BY <2>4, Zenon DEF plan, out
<1>3. Honest(orders, Disabled) /\ Disabled.reports = << >>
  BY <1>1 DEF Honest, Disabled, Outcome, IsOrders
<1>4. CASE config.mode = "Sandbox"
  BY <1>3, <1>4, Zenon DEF AdapterSubmit, plan
<1>5. CASE config.mode = "Live"
  <2>1. out = LiveSubmit(plan, answers)
    BY <1>5 DEF AdapterSubmit
  <2>2. CASE out = Disabled
    BY <1>3, <1>5, <2>2 DEF plan
  <2>3. CASE out = Outcome(FALSE, "Failed", Len(orders), << >>)
    <3>1. out.status = "Failed" /\ DOMAIN out.reports = {}
      BY <2>3 DEF Outcome
    <3> HIDE DEF out
    <3>2. Honest(orders, out)
      BY <1>1, <3>1 DEF Honest, IsOrders
    <3> QED BY <1>5, <3>2, Zenon DEF plan, out
  <2>4. CASE out = LiveOutcome(orders, LiveAcked(plan, answers))
    <3> DEFINE ok == LiveAcked(plan, answers)
               reports == [k \in DOMAIN orders |-> LiveReport(k, orders[k], k \in ok)]
    <3>1. out.status \in {"Acked", "Failed"} /\ out.reports = reports
      BY <2>4 DEF LiveOutcome, Outcome
    <3>2. \A k \in DOMAIN orders :
            /\ "status" \in DOMAIN reports[k] /\ reports[k].order_id = k
            /\ reports[k].status \in {"Acked", "Failed"} /\ reports[k].filled_lots = 0
      BY Zenon DEF LiveReport
    <3>3. DOMAIN reports = DOMAIN orders /\ 1 \in DOMAIN orders
      BY <1>1 DEF IsOrders
    <3> HIDE DEF out, reports
    <3>4. Honest(orders, out)
      BY <3>1, <3>2, <3>3, Zenon DEF Honest, HonestReport
    <3> QED BY <1>5, <3>4 DEF plan, out
  <2> QED BY <2>1, <2>2, <2>3, <2>4, Zenon DEF LiveSubmit
<1> QED BY <1>2, <1>4, <1>5, ConfigAssumption, Zenon

-----------------------------------------------------------------------------
(* What submit concludes from the reports.                                  *)

\* The orders and the fills after the reports: they agree order by order.
OrderAgrees(order, fill) ==
  /\ fill.requested \in Nat /\ fill.requested > 0 /\ fill.filled \in 0 .. fill.requested
  /\ order.status = "Filled" <=> fill.filled = fill.requested
  /\ order.status = "PartiallyFilled" <=> 0 < fill.filled /\ fill.filled < fill.requested

\* The order machine accepts what an adapter reports of an order it was sent.
LEMMA AckedMoves ==
  ASSUME NEW status \in {"Filled", "PartiallyFilled", "Failed", "Acked"}
  PROVE  Transition(OrderMoves, "Acked", status) = status
BY Zenon DEF Transition, CanTransition, OrderMoves, Sending, Terminal

\* What the reports of a submission leave behind: every order agrees with its count, nothing is
\* counted as filled that was not reported as filled, and the reports are passed on as they came.
ReportsApplied(orders, out, after) ==
  /\ DOMAIN after.fills = DOMAIN orders /\ DOMAIN after.orders = DOMAIN orders
  /\ \A k \in DOMAIN orders : OrderAgrees(after.orders[k], after.fills[k])
  /\ \A k \in DOMAIN orders : after.fills[k].filled = after.fills[k].requested =>
       k \in DOMAIN out.reports /\ out.reports[k].status = "Filled"
  /\ \A k \in DOMAIN orders : after.fills[k].filled > 0 =>
       k \in DOMAIN out.reports /\ out.reports[k].status \in {"Filled", "PartiallyFilled"}
  /\ DOMAIN after.reports = DOMAIN out.reports
  /\ \A k \in DOMAIN out.reports :
       /\ after.orders[k].status = out.reports[k].status
       /\ after.reports[k].order_id = k
       /\ after.reports[k].status = out.reports[k].status
       /\ after.reports[k].filled_lots = out.reports[k].filled_lots

\* After honest reports, status and count of every order agree (submit_approved_intent).
LEMMA AfterReportsAgree ==
  ASSUME NEW orders, IsOrders(orders), NEW out, Honest(orders, out)
  PROVE  ReportsApplied(orders, out, AfterReports(orders, out.reports))
<1> DEFINE reports == out.reports
           after == AfterReports(orders, reports)
<1>1. /\ DOMAIN after.fills = DOMAIN orders /\ DOMAIN after.orders = DOMAIN orders
      /\ DOMAIN after.reports = DOMAIN reports
  BY Zenon DEF AfterReports
<1>2. ASSUME NEW k \in DOMAIN orders, k \notin DOMAIN reports
      PROVE  /\ OrderAgrees(after.orders[k], after.fills[k])
             /\ after.fills[k].filled = 0 /\ after.fills[k].requested > 0
  <2>1. /\ after.fills[k].requested = orders[k].quantity_lots /\ after.fills[k].filled = 0
        /\ after.orders[k] = orders[k]
    BY <1>2, Zenon DEF AfterReports, NoFills
  <2>2. /\ orders[k].quantity_lots \in Nat /\ orders[k].quantity_lots > 0
        /\ orders[k].status = "Acked"
    BY DEF IsOrders
  <2> HIDE DEF after
  <2> QED BY <2>1, <2>2 DEF OrderAgrees
<1>3. ASSUME NEW k \in DOMAIN reports
      PROVE  /\ k \in DOMAIN orders
             /\ after.orders[k].status = reports[k].status
             /\ after.reports[k].order_id = k
             /\ after.reports[k].status = reports[k].status
             /\ after.reports[k].filled_lots = reports[k].filled_lots
             /\ after.fills[k].requested = orders[k].quantity_lots
             /\ after.fills[k].filled = reports[k].filled_lots
  <2>1. k \in DOMAIN orders
    BY Zenon DEF Honest
  <2>2. HonestReport(k, orders[k], reports[k])
    BY Zenon DEF Honest
  <2>3. /\ orders[k].quantity_lots \in Nat /\ orders[k].quantity_lots > 0
        /\ orders[k].status = "Acked" /\ "status" \in DOMAIN orders[k]
    BY <2>1, Zenon DEF IsOrders
  <2>4. StatusAfter(orders[k], reports[k]) = reports[k].status
    BY <2>2, <2>3, AckedMoves, Zenon DEF StatusAfter, HonestReport
  <2>5. /\ after.orders[k] = [orders[k] EXCEPT !.status = reports[k].status]
        /\ after.reports[k] = [reports[k] EXCEPT !.status = reports[k].status]
        /\ after.fills[k] = ChildAfter(NoFills(orders)[k], reports[k])
    BY <2>1, <2>4, Zenon DEF AfterReports
  <2> DEFINE child == NoFills(orders)[k]
  <2>6. child = [requested |-> orders[k].quantity_lots, filled |-> 0,
                 remaining |-> orders[k].quantity_lots, cost |-> 0]
    BY <2>1, Zenon DEF NoFills
  <2>7. reports[k].filled_lots \in 0 .. orders[k].quantity_lots
    BY <2>2, <2>3 DEF HonestReport
  <2>8. /\ ChildAfter(child, reports[k]).requested = orders[k].quantity_lots
        /\ ChildAfter(child, reports[k]).filled = reports[k].filled_lots
    <3>1. Least(child.requested, child.filled + Most(0, reports[k].filled_lots))
            = reports[k].filled_lots
      BY <2>3, <2>6, <2>7 DEF Least, Most
    <3>2. /\ DOMAIN child = {"requested", "filled", "remaining", "cost"}
          /\ child.requested = orders[k].quantity_lots
      BY <2>6
    <3> HIDE DEF child
    <3> QED BY <3>1, <3>2, Zenon DEF ChildAfter
  <2>9. "status" \in DOMAIN reports[k] /\ reports[k].order_id = k
    BY <2>2, Zenon DEF HonestReport
  <2> HIDE DEF after
  <2> QED BY <2>1, <2>3, <2>5, <2>8, <2>9
<1>4. ASSUME NEW k \in DOMAIN reports
      PROVE  OrderAgrees(after.orders[k], after.fills[k])
  <2>1. HonestReport(k, orders[k], reports[k])
    BY DEF Honest
  <2>2. k \in DOMAIN orders /\ orders[k].quantity_lots \in Nat /\ orders[k].quantity_lots > 0
    BY <1>3, Zenon DEF IsOrders
  <2> HIDE DEF after
  <2> QED BY <1>3, <2>1, <2>2 DEF OrderAgrees, HonestReport
<1>5. ASSUME NEW k \in DOMAIN reports
      PROVE  /\ after.fills[k].filled = after.fills[k].requested => reports[k].status = "Filled"
             /\ after.fills[k].filled > 0 => reports[k].status \in {"Filled", "PartiallyFilled"}
  <2>1. HonestReport(k, orders[k], reports[k])
    BY DEF Honest
  <2>2. k \in DOMAIN orders /\ orders[k].quantity_lots \in Nat /\ orders[k].quantity_lots > 0
    BY <1>3 DEF IsOrders
  <2> HIDE DEF after
  <2> QED BY <1>3, <2>1, <2>2 DEF HonestReport
<1> HIDE DEF after
<1>6. \A k \in DOMAIN orders : OrderAgrees(after.orders[k], after.fills[k])
  BY <1>2, <1>4, Zenon
<1>7. \A k \in DOMAIN orders : after.fills[k].filled = after.fills[k].requested =>
        k \in DOMAIN out.reports /\ out.reports[k].status = "Filled"
  BY <1>2, <1>5
<1>8. \A k \in DOMAIN orders : after.fills[k].filled > 0 =>
        k \in DOMAIN out.reports /\ out.reports[k].status \in {"Filled", "PartiallyFilled"}
  BY <1>2, <1>5
<1> QED BY <1>1, <1>3, <1>6, <1>7, <1>8, Zenon DEF after, ReportsApplied

\* What is asked of one result: its disposition is what its fills say.
DispositionSound(disposition, fills) ==
  /\ disposition = "Consume" => AllFilled(fills)
  /\ disposition = "Release" => ~ AnyFilled(fills)
  /\ AllFilled(fills) => disposition = "Consume"

\* apply_plan_lifecycle with consume_reservation and release_reservation: the plan's status
\* decides about the reservation, and never against the fills.
LEMMA LifecycleSound ==
  ASSUME NEW n \in Nat, n > 0, NEW fills, DOMAIN fills = 1 .. n, Len(fills) = n,
         \A k \in 1 .. n : /\ fills[k].requested \in Nat /\ fills[k].requested > 0
                           /\ fills[k].filled \in 0 .. fills[k].requested,
         NEW out, out.status \in {"Filled", "PartiallyFilled", "Failed", "Acked"},
         AllFilled(fills) => out.status = "Filled"
  PROVE  DispositionSound(DispositionFor(ApplyPlanLifecycle(out, fills), fills), fills)
<1>1. /\ Transition(PlanMoves, "Acked", "PartiallyFilled") = "PartiallyFilled"
      /\ Transition(PlanMoves, "PartiallyFilled", "HedgeRequired") = "HedgeRequired"
      /\ Transition(PlanMoves, "Acked", "Filled") = "Filled"
      /\ Transition(PlanMoves, "Acked", "Failed") = "Failed"
  BY Zenon DEF Transition, CanTransition, PlanMoves, Sending, Terminal
<1> DEFINE status == ApplyPlanLifecycle(out, fills)
<1>2. /\ MustHedge(fills) => status = "HedgeRequired"
      /\ ~ MustHedge(fills) /\ out.status = "Filled" /\ AllFilled(fills) => status = "Filled"
      /\ ~ MustHedge(fills) /\ AnyPartial(fills) /\ ~ AllFilled(fills) =>
           status = "PartiallyFilled"
      /\ status \in {"HedgeRequired", "Filled", "PartiallyFilled", "Failed", "Acked"}
  BY <1>1, Zenon DEF ApplyPlanLifecycle
<1>3. AllFilled(fills) => status = "Filled"
  BY <1>2, Zenon DEF MustHedge
<1>4. ASSUME AnyFilled(fills), ~ AllFilled(fills)
      PROVE  status \in {"HedgeRequired", "PartiallyFilled"}
  <2>1. CASE n > 1
    BY <1>2, <1>4, <2>1, Zenon DEF MustHedge
  <2>2. CASE n = 1
    <3>1. fills # << >>
      <4>1. Len(fills) # 0
        BY <2>2
      <4>2. Len(<< >>) = 0
        BY Zenon
      <4> QED BY <4>1, <4>2, Zenon
    <3>2. fills[1].filled > 0 /\ fills[1].filled < fills[1].requested
      BY <1>4, <2>2, <3>1 DEF AnyFilled, AllFilled
    <3>3. AnyPartial(fills)
      BY <2>2, <3>2 DEF AnyPartial
    <3>4. ~ MustHedge(fills)
      BY <2>2 DEF MustHedge
    <3> QED BY <1>2, <1>4, <3>3, <3>4, Zenon
  <2> QED BY <2>1, <2>2
<1> HIDE DEF status
<1>5. DispositionSound(DispositionFor(status, fills), fills)
  BY <1>3, <1>4, Zenon DEF DispositionSound, DispositionFor
<1> QED BY <1>5, Zenon DEF status

\* The fills and the result of one submit.
LEMMA SubmitSound ==
  ASSUME config \in Configs, NEW env \in Envelopes, Valid(env), NEW books \in BookViews,
         NEW answers
  PROVE  LET plan  == Prepared(PlanOf(env))
             out   == AdapterSubmit(plan, books, answers)
             after == AfterReports(plan.orders, out.reports)
         IN  /\ DOMAIN after.fills = DOMAIN after.orders
             /\ IsFiniteSet(DOMAIN after.orders)
             /\ \A k \in DOMAIN after.fills : OrderAgrees(after.orders[k], after.fills[k])
             /\ DispositionSound(DispositionFor(ApplyPlanLifecycle(out, after.fills), after.fills),
                                 after.fills)
             /\ config.mode = "Paper" /\ config.paper_mode = "PaperAtomic" =>
                  (AnyFilled(after.fills) => AllFilled(after.fills))
<1> DEFINE plan == Prepared(PlanOf(env))
           orders == plan.orders
           out == AdapterSubmit(plan, books, answers)
           after == AfterReports(orders, out.reports)
           fills == after.fills
<1>1. IsOrders(orders)
  BY PreparedOrders, Zenon
<1>2. /\ Honest(orders, out)
      /\ config.mode = "Paper" /\ config.paper_mode = "PaperAtomic" => AllOrNone(orders, out)
  BY AdapterHonest, Zenon
<1> HIDE DEF plan, out
<1>3. /\ DOMAIN after.fills = DOMAIN orders /\ DOMAIN after.orders = DOMAIN orders
      /\ \A k \in DOMAIN orders : OrderAgrees(after.orders[k], after.fills[k])
      /\ \A k \in DOMAIN orders : after.fills[k].filled = after.fills[k].requested =>
           k \in DOMAIN out.reports /\ out.reports[k].status = "Filled"
      /\ \A k \in DOMAIN orders : after.fills[k].filled > 0 =>
           k \in DOMAIN out.reports /\ out.reports[k].status \in {"Filled", "PartiallyFilled"}
      /\ \A k \in DOMAIN out.reports : after.orders[k].status = out.reports[k].status
  <2>1. ReportsApplied(orders, out, after)
    BY <1>1, <1>2, AfterReportsAgree, Zenon
  <2> HIDE DEF orders, after
  <2> QED BY <2>1, Zenon DEF ReportsApplied
<1>4. Len(fills) = Len(orders)
  <2>1. fills \in [1 .. Len(orders) -> {fills[k] : k \in 1 .. Len(orders)}]
    BY <1>1, Zenon DEF AfterReports, IsOrders
  <2>2. Len(orders) \in Nat
    BY <1>1, Zenon DEF IsOrders
  <2> HIDE DEF fills
  <2> QED BY <2>1, <2>2, LenOfFunction, Zenon
<1> HIDE DEF after
<1>5. /\ Len(orders) \in Nat /\ Len(orders) > 0 /\ DOMAIN fills = 1 .. Len(orders)
      /\ \A k \in 1 .. Len(orders) :
           /\ fills[k].requested \in Nat /\ fills[k].requested > 0
           /\ fills[k].filled \in 0 .. fills[k].requested
  BY <1>1, <1>3, Zenon DEF IsOrders, OrderAgrees
<1>6. ASSUME AllFilled(fills) PROVE out.status = "Filled"
  <2>1. \A k \in DOMAIN orders : fills[k].filled = fills[k].requested
    BY <1>3, <1>5, <1>6 DEF AllFilled
  <2>2. \A k \in DOMAIN orders : k \in DOMAIN out.reports /\ out.reports[k].status = "Filled"
    BY <1>3, <2>1, Zenon
  <2>3. DOMAIN out.reports = DOMAIN orders
    BY <1>1, <1>2, <2>2, Zenon DEF Honest, IsOrders
  <2> QED BY <1>2, <2>2, <2>3, Zenon DEF Honest
<1>7. out.status \in {"Filled", "PartiallyFilled", "Failed", "Acked"}
  BY <1>2, Zenon DEF Honest
<1>8. DispositionSound(DispositionFor(ApplyPlanLifecycle(out, fills), fills), fills)
  <2> DEFINE n == Len(orders)
  <2> HIDE DEF fills, n
  <2>1. /\ n \in Nat /\ n > 0 /\ DOMAIN fills = 1 .. n /\ Len(fills) = n
        /\ \A k \in 1 .. n : /\ fills[k].requested \in Nat /\ fills[k].requested > 0
                             /\ fills[k].filled \in 0 .. fills[k].requested
    BY <1>4, <1>5, Zenon DEF n
  <2> QED BY <1>6, <1>7, <2>1, LifecycleSound
<1>9. ASSUME AllOrNone(orders, out), AnyFilled(fills) PROVE AllFilled(fills)
  <2>1. PICK j \in DOMAIN orders : fills[j].filled > 0
    BY <1>3, <1>9, Zenon DEF AnyFilled
  <2>2. j \in DOMAIN out.reports /\ out.reports[j].status \in {"Filled", "PartiallyFilled"}
    BY <1>3, <2>1, Zenon
  <2>3. /\ DOMAIN out.reports = DOMAIN orders
        /\ \A k \in DOMAIN orders : out.reports[k].status = "Filled"
    BY <1>9, <2>2, Zenon DEF AllOrNone
  <2>4. \A k \in DOMAIN orders : fills[k].filled = fills[k].requested
    BY <1>3, <2>3, Zenon DEF OrderAgrees
  <2>5. fills # << >>
    BY <1>5
  <2> QED BY <1>3, <1>5, <2>4, <2>5 DEF AllFilled
<1>10. IsFiniteSet(DOMAIN after.orders)
  BY <1>1, <1>3, FS_Interval DEF IsOrders
<1> QED BY <1>2, <1>3, <1>8, <1>9, <1>10, Zenon DEF plan, out, after

-----------------------------------------------------------------------------
(* The inductive invariant.  The properties need the agreement of the plan  *)
(* store with the runtime, and that a call and a place in the plan name one *)
(* venue order: only so does a cancel that was answered for every accepted  *)
(* order leave no acknowledged order open.                                  *)

ResultInv ==
  /\ config \in Configs
  /\ IsList(results)
  /\ \A i \in DOMAIN results :
       /\ DispositionSound(results[i].disposition, results[i].fills)
       /\ config.mode = "Paper" /\ config.paper_mode = "PaperAtomic" =>
            (AnyFilled(results[i].fills) => AllFilled(results[i].fills))

RuntimeInv ==
  \A pid \in DOMAIN runtime :
    /\ DOMAIN runtime[pid] = {"plan", "fills", "submit"}
    /\ "orders" \in DOMAIN runtime[pid].plan /\ IsFiniteSet(DOMAIN runtime[pid].plan.orders)
    /\ runtime[pid].submit \in 1 .. Len(results)
    /\ pid \in DOMAIN plans
    /\ DOMAIN runtime[pid].fills = DOMAIN plans[pid].orders
    /\ \A k \in DOMAIN runtime[pid].fills :
         OrderAgrees(plans[pid].orders[k], runtime[pid].fills[k])

VenueInv ==
  /\ \A v \in venue :
       /\ DOMAIN v = {"submit", "plan_id", "order_id", "acked", "state"}
       /\ v.submit \in 1 .. Len(results)
       /\ v.plan_id \in DOMAIN runtime
  /\ \A v, w \in venue : v.submit = w.submit /\ v.order_id = w.order_id => v = w
  /\ AcknowledgedStaysCancellable

GatewayInv == ResultInv /\ RuntimeInv /\ VenueInv

\* A result with no fills is sound unless it consumes.
LEMMA NothingFilled ==
  ASSUME NEW d \in {"None", "Release"}
  PROVE  DispositionSound(d, << >>) /\ ~ AnyFilled(<< >>)
<1>1. ~ AllFilled(<< >>)
  BY DEF AllFilled
<1>2. ~ AnyFilled(<< >>)
  BY DEF AnyFilled
<1> QED BY <1>1, <1>2, Zenon DEF DispositionSound

\* Every call adds a result whose disposition agrees with its fills, or none.
LEMMA ResultStep ==
  ASSUME GatewayInv, [GatewayNext]_gatewayVars
  PROVE  ResultInv'
<1>1. ResultInv
  BY DEF GatewayInv
\* Every step leaves results alone or appends one sound result.
<1>2. ASSUME config' = config, NEW r, results' = Append(results, r),
             DispositionSound(r.disposition, r.fills),
             config.mode = "Paper" /\ config.paper_mode = "PaperAtomic" =>
               (AnyFilled(r.fills) => AllFilled(r.fills))
      PROVE  ResultInv'
  <2>1. /\ IsList(results') /\ Len(results) \in Nat
        /\ DOMAIN results = 1 .. Len(results) /\ DOMAIN results' = 1 .. Len(results) + 1
        /\ \A i \in 1 .. Len(results) : results'[i] = results[i]
        /\ results'[Len(results) + 1] = r
    BY <1>1, <1>2, ListAppend DEF ResultInv
  <2>2. ASSUME NEW i \in DOMAIN results'
        PROVE  /\ DispositionSound(results'[i].disposition, results'[i].fills)
               /\ config.mode = "Paper" /\ config.paper_mode = "PaperAtomic" =>
                    (AnyFilled(results'[i].fills) => AllFilled(results'[i].fills))
    <3>1. CASE i = Len(results) + 1
      BY <1>2, <2>1, <3>1, Zenon
    <3>2. CASE i # Len(results) + 1
      <4>1. i \in DOMAIN results /\ results'[i] = results[i]
        BY <2>1, <3>2
      <4> QED BY <1>1, <4>1, Zenon DEF ResultInv
    <3> QED BY <3>1, <3>2, Zenon
  <2> QED BY <1>1, <1>2, <2>1, <2>2 DEF ResultInv
<1>3. ASSUME UNCHANGED << config, results >> PROVE ResultInv'
  BY <1>1, <1>3, Zenon DEF ResultInv
<1>4. ASSUME NEW env \in Envelopes, RejectEnvelope(env) \/ RejectPlan(env) PROVE ResultInv'
  <2>1. \E d \in {"None", "Release"} :
          config' = config /\ results' = Append(results, Result(env, "Failed", d, << >>))
    BY <1>4 DEF RejectEnvelope, RejectPlan
  <2>2. PICK d \in {"None", "Release"} :
          config' = config /\ results' = Append(results, Result(env, "Failed", d, << >>))
    BY <2>1, Zenon
  <2> DEFINE r == Result(env, "Failed", d, << >>)
  <2>3. r.disposition = d /\ r.fills = << >>
    BY Zenon DEF Result
  <2> HIDE DEF r
  <2> QED BY <1>2, <2>2, <2>3, NothingFilled, Zenon DEF r
<1>5. ASSUME NEW env \in Envelopes, NEW books \in BookViews, NEW answers,
             Submit(env, books, answers)
      PROVE  ResultInv'
  <2> DEFINE plan == Prepared(PlanOf(env))
             out == AdapterSubmit(plan, books, answers)
             after == AfterReports(plan.orders, out.reports)
             status == ApplyPlanLifecycle(out, after.fills)
             r == Result(env, status, DispositionFor(status, after.fills), after.fills)
  <2>1. Valid(env) /\ config' = config /\ results' = Append(results, r)
    BY <1>5, Zenon DEF Submit, Conclude
  <2>2. /\ DispositionSound(DispositionFor(status, after.fills), after.fills)
        /\ config.mode = "Paper" /\ config.paper_mode = "PaperAtomic" =>
             (AnyFilled(after.fills) => AllFilled(after.fills))
    BY <1>1, <2>1, SubmitSound, Zenon DEF ResultInv
  <2> HIDE DEF after, status
  <2>3. r.disposition = DispositionFor(status, after.fills) /\ r.fills = after.fills
    BY Zenon DEF Result
  <2> HIDE DEF r
  <2> QED BY <1>2, <2>1, <2>2, <2>3, Zenon
<1>6. CASE Poll \/ ClockTick
  BY <1>3, <1>6, Zenon DEF Poll, ClockTick
<1>7. ASSUME NEW pid, CancelPaper(pid) PROVE ResultInv'
  BY <1>3, <1>7, Zenon DEF CancelPaper
<1>8. ASSUME NEW pid, NEW closed, NEW told, CancelLive(pid, closed, told) PROVE ResultInv'
  BY <1>3, <1>8, Zenon DEF CancelLive
<1>9. ASSUME NEW v, VenueFills(v) PROVE ResultInv'
  BY <1>3, <1>9, Zenon DEF VenueFills
<1>10. CASE UNCHANGED gatewayVars
  BY <1>3, <1>10, Zenon DEF gatewayVars
<1> QED BY <1>4, <1>5, <1>6, <1>7, <1>8, <1>9, <1>10, Zenon DEF GatewayNext

\* MarkCancelled leaves the fills and the call of every plan alone.
LEMMA MarkCancelledKeeps ==
  ASSUME RuntimeInv, NEW pid \in DOMAIN runtime, MarkCancelled(pid)
  PROVE  /\ DOMAIN runtime' = DOMAIN runtime
         /\ \A p \in DOMAIN runtime :
              /\ DOMAIN runtime'[p] = DOMAIN runtime[p]
              /\ runtime'[p].fills = runtime[p].fills
              /\ runtime'[p].submit = runtime[p].submit
              /\ DOMAIN runtime'[p].plan = DOMAIN runtime[p].plan
              /\ runtime'[p].plan.orders = runtime[p].plan.orders
<1>1. runtime' = [runtime EXCEPT ![pid] =
                    [runtime[pid] EXCEPT !.plan = [runtime[pid].plan EXCEPT !.status = "Cancelled"]]]
  BY Zenon DEF MarkCancelled
<1>2. DOMAIN runtime[pid] = {"plan", "fills", "submit"} /\ "orders" \in DOMAIN runtime[pid].plan
  BY Zenon DEF RuntimeInv
<1> QED BY <1>1, <1>2, Zenon

\* What the gateway keeps of a plan stays in step with the plan store.
LEMMA RuntimeStep ==
  ASSUME GatewayInv, [GatewayNext]_gatewayVars
  PROVE  RuntimeInv'
<1>1. ResultInv /\ RuntimeInv
  BY DEF GatewayInv
<1>2. Len(results) \in Nat
  BY <1>1, ListAppend DEF ResultInv
\* Every step but a submission keeps the plan store, the fills and the calls.
<1>3. ASSUME plans' = plans, DOMAIN runtime' = DOMAIN runtime,
             Len(results') \in Nat, Len(results') >= Len(results),
             \A p \in DOMAIN runtime :
               /\ DOMAIN runtime'[p] = DOMAIN runtime[p]
               /\ runtime'[p].fills = runtime[p].fills
               /\ runtime'[p].submit = runtime[p].submit
               /\ DOMAIN runtime'[p].plan = DOMAIN runtime[p].plan
               /\ runtime'[p].plan.orders = runtime[p].plan.orders
      PROVE  RuntimeInv'
  BY <1>1, <1>2, <1>3 DEF RuntimeInv
<1>4. ASSUME NEW env \in Envelopes, RejectEnvelope(env) \/ RejectPlan(env) PROVE RuntimeInv'
  <2>1. /\ UNCHANGED << plans, runtime >>
        /\ \E r : results' = Append(results, r)
    BY <1>4, Zenon DEF RejectEnvelope, RejectPlan
  <2>2. Len(results') = Len(results) + 1
    BY <1>1, <2>1, ListAppend, Zenon DEF ResultInv
  <2> QED BY <1>2, <1>3, <2>1, <2>2
<1>5. ASSUME NEW env \in Envelopes, NEW books \in BookViews, NEW answers,
             Submit(env, books, answers)
      PROVE  RuntimeInv'
  <2> DEFINE plan == Prepared(PlanOf(env))
             out == AdapterSubmit(plan, books, answers)
             after == AfterReports(plan.orders, out.reports)
             status == ApplyPlanLifecycle(out, after.fills)
             done == [plan EXCEPT !.status = status, !.orders = after.orders]
             kept == [plan |-> done, fills |-> after.fills, submit |-> Len(results) + 1]
             id == PlanId(env)
  <2>1. /\ Valid(env)
        /\ plans' = Put(plans, id, done) /\ runtime' = Put(runtime, id, kept)
        /\ \E r : results' = Append(results, r)
    BY <1>5, Zenon DEF Submit, Conclude
  <2>2. Len(results') = Len(results) + 1
    BY <1>1, <2>1, ListAppend DEF ResultInv
  <2>3. /\ DOMAIN after.fills = DOMAIN after.orders
        /\ \A k \in DOMAIN after.fills : OrderAgrees(after.orders[k], after.fills[k])
        /\ IsFiniteSet(DOMAIN after.orders)
    BY <1>1, <2>1, SubmitSound, Zenon DEF ResultInv
  <2>4. "orders" \in DOMAIN plan /\ "status" \in DOMAIN plan
    BY DEF PlanOf, Prepared
  <2> HIDE DEF plan, after, status, id
  <2>5. done.orders = after.orders /\ "orders" \in DOMAIN done
    BY <2>4
  <2> HIDE DEF done
  <2>6. /\ kept.plan = done /\ kept.fills = after.fills /\ kept.submit = Len(results) + 1
        /\ DOMAIN kept = {"plan", "fills", "submit"}
    OBVIOUS
  <2> HIDE DEF kept
  <2>7. /\ DOMAIN runtime' = DOMAIN runtime \cup {id} /\ runtime'[id] = kept
        /\ \A p \in DOMAIN runtime : p # id => runtime'[p] = runtime[p]
        /\ DOMAIN plans' = DOMAIN plans \cup {id} /\ plans'[id] = done
        /\ \A p \in DOMAIN plans : p # id => plans'[p] = plans[p]
    BY <2>1 DEF Put
  <2> SUFFICES ASSUME NEW p \in DOMAIN runtime'
               PROVE  /\ DOMAIN runtime'[p] = {"plan", "fills", "submit"}
                      /\ "orders" \in DOMAIN runtime'[p].plan
                      /\ IsFiniteSet(DOMAIN runtime'[p].plan.orders)
                      /\ runtime'[p].submit \in 1 .. Len(results')
                      /\ p \in DOMAIN plans'
                      /\ DOMAIN runtime'[p].fills = DOMAIN plans'[p].orders
                      /\ \A k \in DOMAIN runtime'[p].fills :
                           OrderAgrees(plans'[p].orders[k], runtime'[p].fills[k])
    BY Zenon DEF RuntimeInv
  <2>8. CASE p = id
    BY <1>2, <2>2, <2>3, <2>5, <2>6, <2>7, <2>8
  <2>9. CASE p # id
    <3>1. p \in DOMAIN runtime /\ p \in DOMAIN plans
          /\ runtime'[p] = runtime[p] /\ plans'[p] = plans[p]
      BY <1>1, <2>7, <2>9, Zenon DEF RuntimeInv
    <3> QED BY <1>1, <1>2, <2>2, <2>7, <3>1 DEF RuntimeInv
  <2> QED BY <2>8, <2>9, Zenon
<1>6. CASE Poll \/ ClockTick \/ UNCHANGED gatewayVars
  BY <1>2, <1>3, <1>6 DEF Poll, ClockTick, gatewayVars
<1>7. ASSUME NEW pid \in DOMAIN runtime, CancelPaper(pid) PROVE RuntimeInv'
  <2>1. UNCHANGED << plans, results >> /\ MarkCancelled(pid)
    BY <1>7, Zenon DEF CancelPaper
  <2> QED BY <1>1, <1>2, <1>3, <2>1, MarkCancelledKeeps
<1>8. ASSUME NEW pid \in DOMAIN runtime, NEW closed, NEW told, CancelLive(pid, closed, told)
      PROVE  RuntimeInv'
  <2>1. UNCHANGED << plans, results >> /\ (MarkCancelled(pid) \/ UNCHANGED runtime)
    BY <1>8, Zenon DEF CancelLive
  <2> QED BY <1>1, <1>2, <1>3, <2>1, MarkCancelledKeeps
<1>9. ASSUME NEW v, VenueFills(v) PROVE RuntimeInv'
  BY <1>2, <1>3, <1>9 DEF VenueFills
<1> QED BY <1>4, <1>5, <1>6, <1>7, <1>8, <1>9, Zenon DEF GatewayNext

\* An order that is closed keeps its name.
LEMMA ClosingOrders ==
  ASSUME VenueInv, NEW orders \in SUBSET venue, NEW state, state # "open",
         NEW v \in Closing(orders, state)
  PROVE  \E w \in venue :
           /\ v.submit = w.submit /\ v.plan_id = w.plan_id /\ v.order_id = w.order_id
           /\ DOMAIN v = DOMAIN w
           /\ \/ v = w /\ w \notin orders
              \/ v.state # "open" /\ w \in orders /\ v = [w EXCEPT !.state = state]
<1>1. CASE v \in venue \ orders
  <2>1. v \in venue /\ v \notin orders
    BY <1>1, Zenon
  <2> QED BY <2>1, Zenon
<1>2. CASE v \in {[w EXCEPT !.state = state] : w \in orders}
  <2>1. PICK w \in orders : v = [w EXCEPT !.state = state]
    BY <1>2, Zenon
  <2>2. DOMAIN w = {"submit", "plan_id", "order_id", "acked", "state"}
    BY DEF VenueInv
  <2>3. /\ v.submit = w.submit /\ v.plan_id = w.plan_id /\ v.order_id = w.order_id
        /\ DOMAIN v = DOMAIN w /\ v.state # "open"
    BY <2>1, <2>2, Zenon
  <2> QED BY <2>1, <2>3, Zenon
<1> QED BY <1>1, <1>2, Zenon DEF Closing

\* No submission, fill, lost answer or cancel puts an acknowledged order out of reach.
LEMMA VenueStep ==
  ASSUME GatewayInv, [GatewayNext]_gatewayVars
  PROVE  VenueInv'
<1>1. ResultInv /\ RuntimeInv /\ VenueInv
  BY DEF GatewayInv
<1>2. Len(results) \in Nat
  BY <1>1, ListAppend DEF ResultInv
\* A step that keeps the venue's orders and what the adapter names, and the calls.
<1>3. ASSUME UNCHANGED << venue, accepted >>, DOMAIN runtime' = DOMAIN runtime,
             Len(results') \in Nat, Len(results') >= Len(results),
             \A p \in DOMAIN runtime : runtime'[p].submit = runtime[p].submit
      PROVE  VenueInv'
  <2>1. AcknowledgedStaysCancellable'
    BY <1>1, <1>3, Zenon DEF VenueInv, AcknowledgedStaysCancellable
  <2> QED BY <1>1, <1>2, <1>3, <2>1 DEF VenueInv
<1>4. ASSUME NEW env \in Envelopes, RejectEnvelope(env) \/ RejectPlan(env) PROVE VenueInv'
  <2>1. /\ UNCHANGED << runtime, venue, accepted >>
        /\ \E r : results' = Append(results, r)
    BY <1>4, Zenon DEF RejectEnvelope, RejectPlan
  <2>2. Len(results') = Len(results) + 1
    BY <1>1, <2>1, ListAppend, Zenon DEF ResultInv
  <2> QED BY <1>2, <1>3, <2>1, <2>2
<1>5. ASSUME NEW env \in Envelopes, NEW books \in BookViews, NEW answers,
             Submit(env, books, answers)
      PROVE  VenueInv'
  <2> DEFINE plan == Prepared(PlanOf(env))
             id == PlanId(env)
             n == Len(results) + 1
             acked == LiveAcked(plan, answers)
             sent == {j \in LiveSent(plan) : answers[j] # "refused"}
             new == {[submit |-> n, plan_id |-> id, order_id |-> k,
                      acked |-> answers[k] = "accepted", state |-> "open"] : k \in sent}
  <2>1. /\ venue' = venue \cup new
        /\ accepted' = IF acked = {} THEN accepted
                       ELSE Put(accepted, id, {<< n, k >> : k \in acked})
        /\ \E kept : runtime' = Put(runtime, id, kept) /\ kept.submit = n
        /\ \E r : results' = Append(results, r)
    <3>1. /\ venue' = venue \cup new
          /\ accepted' = IF acked = {} THEN accepted
                         ELSE Put(accepted, id, {<< n, k >> : k \in acked})
      BY <1>5, Zenon DEF Submit
    <3>2. \E out, after : Conclude(env, plan, out, after)
      BY <1>5, Zenon DEF Submit
    <3>3. \E p, f : runtime' = Put(runtime, id, [plan |-> p, fills |-> f, submit |-> n])
      BY <3>2, Zenon DEF Conclude
    <3>4. \E r : results' = Append(results, r)
      BY <3>2 DEF Conclude
    <3>5. \A p, f : [plan |-> p, fills |-> f, submit |-> n].submit = n
      OBVIOUS
    <3> QED BY <3>1, <3>3, <3>4, <3>5, Zenon
  <2>2. Len(results') = n
    <3>1. IsList(results)
      BY <1>1 DEF ResultInv
    <3>2. PICK r : results' = Append(results, r)
      BY <2>1, Zenon
    <3>3. Len(Append(results, r)) = Len(results) + 1
      BY <3>1, ListAppend, Zenon
    <3> QED BY <3>2, <3>3
  <2>3. /\ DOMAIN runtime' = DOMAIN runtime \cup {id} /\ runtime'[id].submit = n
        /\ \A p \in DOMAIN runtime : p # id => runtime'[p] = runtime[p]
    BY <2>1, Zenon DEF Put
  <2>4. ASSUME NEW v \in new
        PROVE  /\ DOMAIN v = {"submit", "plan_id", "order_id", "acked", "state"}
               /\ v.submit = n /\ v.plan_id = id /\ v.order_id \in sent
               /\ v = [submit |-> n, plan_id |-> id, order_id |-> v.order_id,
                       acked |-> answers[v.order_id] = "accepted", state |-> "open"]
               /\ v.acked => answers[v.order_id] = "accepted"
    <3>1. PICK k \in sent : v = [submit |-> n, plan_id |-> id, order_id |-> k,
                                 acked |-> answers[k] = "accepted", state |-> "open"]
      OBVIOUS
    <3> HIDE DEF sent
    <3>2. v.submit = n /\ v.plan_id = id /\ v.order_id = k
          /\ DOMAIN v = {"submit", "plan_id", "order_id", "acked", "state"}
      BY <3>1
    <3>3. v.acked = (answers[k] = "accepted")
      BY <3>1, Zenon
    <3> QED BY <3>1, <3>2, <3>3, Zenon
  <2>5. \A k \in sent : answers[k] = "accepted" => k \in acked
    BY Zenon DEF LiveAcked
  <2> HIDE DEF plan, id, new, acked, sent
  <2>6. ASSUME NEW v \in venue'
        PROVE  /\ DOMAIN v = {"submit", "plan_id", "order_id", "acked", "state"}
               /\ v.submit \in 1 .. Len(results') /\ v.plan_id \in DOMAIN runtime'
    <3>1. CASE v \in venue
      BY <1>1, <1>2, <2>2, <2>3, <3>1 DEF VenueInv
    <3>2. CASE v \in new
      BY <1>2, <2>2, <2>3, <2>4, <3>2
    <3> QED BY <2>1, <3>1, <3>2, Zenon
  <2>7. ASSUME NEW v \in venue', NEW w \in venue', v.submit = w.submit, v.order_id = w.order_id
        PROVE  v = w
    <3>1. \A x \in venue : x.submit # n
      BY <1>1, <1>2 DEF VenueInv
    <3>2. CASE v \in venue
      <4>1. w \in venue
        BY <2>1, <2>4, <2>7, <3>1, <3>2, Zenon
      <4> QED BY <1>1, <2>7, <3>2, <4>1, Zenon DEF VenueInv
    <3>3. CASE v \in new
      <4>1. w \in new
        BY <2>1, <2>4, <2>7, <3>1, <3>3, Zenon
      <4> QED BY <2>4, <2>7, <3>3, <4>1, Zenon
    <3> QED BY <2>1, <3>2, <3>3, Zenon
  <2>8. ASSUME NEW v \in venue', v.acked, v.state = "open", v.submit = runtime'[v.plan_id].submit
        PROVE  v.plan_id \in DOMAIN accepted' /\ << v.submit, v.order_id >> \in accepted'[v.plan_id]
    <3>1. CASE v \in new
      <4>1. v.order_id \in acked /\ v.submit = n /\ v.plan_id = id
        BY <2>4, <2>5, <2>8, <3>1, Zenon
      <4>2. accepted' = Put(accepted, id, {<< n, k >> : k \in acked})
        BY <2>1, <4>1, Zenon
      <4>3. id \in DOMAIN accepted' /\ accepted'[id] = {<< n, k >> : k \in acked}
        BY <4>2, Zenon DEF Put
      <4> QED BY <4>1, <4>3, Zenon
    <3>2. CASE v \in venue
      <4>1. v.submit # n /\ v.plan_id \in DOMAIN runtime
        BY <1>1, <1>2, <3>2 DEF VenueInv
      <4>2. v.plan_id # id
        BY <2>3, <2>8, <4>1, Zenon
      <4>3. v.plan_id \in DOMAIN accepted /\ << v.submit, v.order_id >> \in accepted[v.plan_id]
        BY <1>1, <2>3, <2>8, <3>2, <4>1, <4>2, Zenon DEF VenueInv, AcknowledgedStaysCancellable
      <4>4. v.plan_id \in DOMAIN accepted' /\ accepted'[v.plan_id] = accepted[v.plan_id]
        BY <2>1, <4>2, <4>3, Zenon DEF Put
      <4> QED BY <4>3, <4>4, Zenon
    <3> QED BY <2>1, <3>1, <3>2, Zenon
  <2>9. AcknowledgedStaysCancellable'
    BY <2>8, Zenon DEF AcknowledgedStaysCancellable
  <2> QED BY <2>6, <2>7, <2>9, Zenon DEF VenueInv
<1>6. CASE Poll \/ ClockTick \/ UNCHANGED gatewayVars
  BY <1>2, <1>3, <1>6 DEF Poll, ClockTick, gatewayVars
<1>7. ASSUME NEW pid \in DOMAIN runtime, CancelPaper(pid) PROVE VenueInv'
  <2>1. UNCHANGED << results, venue, accepted >> /\ MarkCancelled(pid)
    BY <1>7, Zenon DEF CancelPaper
  <2> QED BY <1>1, <1>2, <1>3, <2>1, MarkCancelledKeeps
\* Orders are closed; what the adapter still names covers those that are left.
<1>8. ASSUME NEW orders \in SUBSET venue, NEW state, state # "open",
             venue' = Closing(orders, state), UNCHANGED results, DOMAIN runtime' = DOMAIN runtime,
             \A p \in DOMAIN runtime : runtime'[p].submit = runtime[p].submit,
             \A v \in venue \ orders :
               /\ v.acked /\ v.state = "open" /\ v.submit = runtime[v.plan_id].submit
               => v.plan_id \in DOMAIN accepted' /\ << v.submit, v.order_id >> \in accepted'[v.plan_id]
      PROVE  VenueInv'
  <2>1. ASSUME NEW v \in venue'
        PROVE  /\ DOMAIN v = {"submit", "plan_id", "order_id", "acked", "state"}
               /\ v.submit \in 1 .. Len(results') /\ v.plan_id \in DOMAIN runtime'
    <3>1. v \in Closing(orders, state)
      BY <1>8, Zenon
    <3>2. \E x \in venue :
            /\ v.submit = x.submit /\ v.plan_id = x.plan_id /\ v.order_id = x.order_id
            /\ DOMAIN v = DOMAIN x
            /\ \/ v = x /\ x \notin orders
               \/ v.state # "open" /\ x \in orders /\ v = [x EXCEPT !.state = state]
      BY <1>1, <1>8, <3>1, ClosingOrders, SMTT(30)
    <3>3. PICK x \in venue :
            v.submit = x.submit /\ v.plan_id = x.plan_id /\ DOMAIN v = DOMAIN x
      BY <3>2, Zenon
    <3> QED BY <1>1, <1>8, <3>3, Zenon DEF VenueInv
  <2>2. ASSUME NEW v \in venue', NEW w \in venue', v.submit = w.submit, v.order_id = w.order_id
        PROVE  v = w
    <3>1. PICK x \in venue :
            /\ v.submit = x.submit /\ v.order_id = x.order_id
            /\ \/ v = x /\ x \notin orders
               \/ x \in orders /\ v = [x EXCEPT !.state = state]
      BY <1>1, <1>8, ClosingOrders
    <3>2. PICK y \in venue :
            /\ w.submit = y.submit /\ w.order_id = y.order_id
            /\ \/ w = y /\ y \notin orders
               \/ y \in orders /\ w = [y EXCEPT !.state = state]
      BY <1>1, <1>8, ClosingOrders
    <3>3. \A a, b \in venue : a.submit = b.submit /\ a.order_id = b.order_id => a = b
      BY <1>1, Zenon DEF VenueInv
    <3>4. x = y
      BY <2>2, <3>1, <3>2, <3>3, Zenon
    <3> QED BY <3>1, <3>2, <3>4, Zenon
  <2>3. ASSUME NEW v \in venue', v.acked, v.state = "open", v.submit = runtime'[v.plan_id].submit
        PROVE  v.plan_id \in DOMAIN accepted' /\ << v.submit, v.order_id >> \in accepted'[v.plan_id]
    <3>1. v \in venue \ orders
      BY <1>1, <1>8, <2>3, ClosingOrders
    <3>2. runtime'[v.plan_id].submit = runtime[v.plan_id].submit
      BY <1>1, <1>8, <3>1, Zenon DEF VenueInv
    <3> QED BY <1>8, <2>3, <3>1, <3>2
  <2>4. AcknowledgedStaysCancellable'
    BY <2>3, Zenon DEF AcknowledgedStaysCancellable
  <2> QED BY <2>1, <2>2, <2>4, Zenon DEF VenueInv
<1>9. ASSUME NEW pid \in DOMAIN runtime, NEW closed, NEW told, CancelLive(pid, closed, told)
      PROVE  VenueInv'
  <2> DEFINE ok == {<< v.submit, v.order_id >> : v \in told}
  <2>1. /\ UNCHANGED results /\ (MarkCancelled(pid) \/ UNCHANGED runtime)
        /\ venue' = Closing(closed, "cancelled") /\ accepted' = AfterLiveCancel(pid, ok)
        /\ closed \in SUBSET venue /\ told \subseteq closed /\ pid \in DOMAIN accepted
    BY <1>9, Zenon DEF CancelLive, OpenAmong, Named
  <2>2. /\ DOMAIN runtime' = DOMAIN runtime
        /\ \A p \in DOMAIN runtime : runtime'[p].submit = runtime[p].submit
    BY <1>1, <2>1, MarkCancelledKeeps
  <2>3. ASSUME NEW v \in venue \ closed, v.acked, v.state = "open",
               v.submit = runtime[v.plan_id].submit
        PROVE  v.plan_id \in DOMAIN accepted' /\ << v.submit, v.order_id >> \in accepted'[v.plan_id]
    <3>1. v.plan_id \in DOMAIN accepted /\ << v.submit, v.order_id >> \in accepted[v.plan_id]
      BY <1>1, <2>3, Zenon DEF VenueInv, AcknowledgedStaysCancellable
    <3>2. ASSUME v.plan_id = pid, ok = accepted[pid] PROVE FALSE
      <4>1. << v.submit, v.order_id >> \in ok
        BY <3>1, <3>2, Zenon
      <4>2. PICK w \in told : << v.submit, v.order_id >> = << w.submit, w.order_id >>
        BY <4>1, Zenon
      <4>3. w \in venue /\ w \in closed
        BY <2>1, Zenon
      <4>4. v = w
        BY <1>1, <4>2, <4>3, Zenon DEF VenueInv
      <4> QED BY <4>3, <4>4, Zenon
    <3> HIDE DEF ok
    <3> QED BY <2>1, <3>1, <3>2, Zenon DEF AfterLiveCancel
  <2> QED BY <1>8, <2>1, <2>2, <2>3, Zenon
<1>10. ASSUME NEW v \in venue, VenueFills(v) PROVE VenueInv'
  <2>1. /\ venue' = Closing({v}, "filled") /\ UNCHANGED << results, runtime, accepted >>
        /\ {v} \in SUBSET venue
    BY <1>10, Zenon DEF VenueFills
  <2>2. \A w \in venue \ {v} :
          /\ w.acked /\ w.state = "open" /\ w.submit = runtime[w.plan_id].submit
          => w.plan_id \in DOMAIN accepted' /\ << w.submit, w.order_id >> \in accepted'[w.plan_id]
    BY <1>1, <2>1, Zenon DEF VenueInv, AcknowledgedStaysCancellable
  <2> QED BY <1>8, <2>1, <2>2, Zenon
<1> QED BY <1>4, <1>5, <1>6, <1>7, <1>9, <1>10, Zenon DEF GatewayNext

\* A gateway that has just been built has nothing to disagree about.
LEMMA GatewayInitially == GatewayInit => GatewayInv
<1> SUFFICES ASSUME GatewayInit PROVE GatewayInv
  BY Zenon
<1>1. /\ config \in Configs /\ DOMAIN runtime = {} /\ venue = {}
      /\ results = << >> /\ DOMAIN results = {}
  BY DEF GatewayInit
<1>2. ResultInv
  BY <1>1, ListEmpty, Zenon DEF ResultInv
<1> QED BY <1>1, <1>2, Zenon DEF GatewayInv, RuntimeInv, VenueInv, AcknowledgedStaysCancellable

\* The gateway keeps its invariant with the paper engine attached: the engine only reads.
THEOREM GatewayInvariant == PaperSpec => []GatewayInv
<1>1. PaperInit => GatewayInv
  BY GatewayInitially, Zenon DEF PaperInit
<1>2. GatewayInv /\ [PaperNext]_paperVars => GatewayInv'
  <2> SUFFICES ASSUME GatewayInv, [PaperNext]_paperVars PROVE GatewayInv'
    OBVIOUS
  <2>1. [GatewayNext]_gatewayVars
    BY DEF PaperNext, GatewayStep, MarkSnapshot, paperVars
  <2>2. ResultInv' /\ RuntimeInv' /\ VenueInv'
    BY <2>1, ResultStep, RuntimeStep, VenueStep, Zenon
  <2> QED BY <2>2, Zenon DEF GatewayInv
<1> QED BY <1>1, <1>2, PTL DEF PaperSpec

\* For all envelopes, books and configurations: what the gateway concludes of a plan, of its
\* reservation and of each order is what the fills say.
THEOREM OutcomesMatchFills == PaperSpec => []OutcomeMatchesFills
<1>1. GatewayInv => OutcomeMatchesFills
  BY Zenon DEF GatewayInv, ResultInv, RuntimeInv, DispositionSound, OrderAgrees, OutcomeMatchesFills,
         DispositionMatchesFills, StatusMatchesFills
<1> QED BY <1>1, GatewayInvariant, PTL

\* For all plans and books, a PaperAtomic plan buys every lot or none.
THEOREM AtomicIsAllOrNothing == PaperSpec => []AtomicAllOrNothing
<1>1. GatewayInv => AtomicAllOrNothing
  BY Zenon DEF GatewayInv, ResultInv, AtomicAllOrNothing
<1> QED BY <1>1, GatewayInvariant, PTL

\* For every venue and any loss of answers, the live adapter can still cancel what the venue
\* acknowledged.
THEOREM AcknowledgedCancellable == PaperSpec => []AcknowledgedStaysCancellable
<1>1. GatewayInv => AcknowledgedStaysCancellable
  BY DEF GatewayInv, VenueInv
<1> QED BY <1>1, GatewayInvariant, PTL

-----------------------------------------------------------------------------
(* The paper engine.  on_execution_report counts an order of a plan for     *)
(* every report that fills, and the count starts anew with every plan.      *)

EngineFields ==
  {"child_orders", "terminal_by_plan", "asset_index", "depth_views", "ledger", "portfolio",
   "filled_orders", "filled_notional_tick", "filled_plan_ids", "failed_plan_ids"}

TerminalFields == {"expected_child_orders", "filled_child_orders", "actual_buy_cost_tick"}

Fills(r) == r.status \in {"Filled", "PartiallyFilled"}

\* The engine f that a report r makes of e counts the same orders, or one more for r.
CountedBy(e, f, r) ==
  \/ f.terminal_by_plan = e.terminal_by_plan
  \/ /\ Fills(r)
     /\ (/\ r.plan_id \in DOMAIN e.terminal_by_plan
         /\ DOMAIN e.terminal_by_plan[r.plan_id] = TerminalFields) =>
          /\ DOMAIN f.terminal_by_plan = DOMAIN e.terminal_by_plan
          /\ \A q \in DOMAIN e.terminal_by_plan :
               q # r.plan_id => f.terminal_by_plan[q] = e.terminal_by_plan[q]
          /\ DOMAIN f.terminal_by_plan[r.plan_id] = TerminalFields
          /\ f.terminal_by_plan[r.plan_id].expected_child_orders
               = e.terminal_by_plan[r.plan_id].expected_child_orders
          /\ f.terminal_by_plan[r.plan_id].filled_child_orders
               = e.terminal_by_plan[r.plan_id].filled_child_orders + 1

\* One report counts at most one order of the plan it names, and only if it fills.
LEMMA ReportStep ==
  ASSUME NEW e, DOMAIN e = EngineFields, NEW r
  PROVE  /\ DOMAIN OnExecutionReport(e, r) = EngineFields
         /\ CountedBy(e, OnExecutionReport(e, r), r)
<1> DEFINE filled == IF r.status = "Filled" THEN e.filled_plan_ids \cup {r.plan_id}
                     ELSE e.filled_plan_ids
           failed == IF r.status \in {"Failed", "Expired", "Cancelled"}
                     THEN e.failed_plan_ids \cup {r.plan_id} ELSE e.failed_plan_ids
           noted == [e EXCEPT !.filled_plan_ids = filled, !.failed_plan_ids = failed]
           fill == FillOf(e, r)
           p == r.plan_id
<1>1. OnExecutionReport(e, r) = IF HasFill(e, r) THEN HandleFill(noted, r, fill) ELSE noted
  BY DEF OnExecutionReport
<1> HIDE DEF filled, failed, fill
<1>2. DOMAIN noted = EngineFields /\ noted.terminal_by_plan = e.terminal_by_plan
  BY DEF EngineFields
<1> HIDE DEF noted
<1>3. CASE ~ HasFill(e, r)
  BY <1>1, <1>2, <1>3, Zenon DEF CountedBy
<1>4. CASE HasFill(e, r)
  <2>1. Fills(r)
    BY <1>4 DEF HasFill, Fills
  <2> DEFINE ledger == Ledger!ApplyExecutionFill(noted.ledger, ReportId(r), fill)
             portfolio == InPortfolio(noted.portfolio, fill)
             taken == [noted EXCEPT !.ledger = ledger, !.portfolio = portfolio]
             counted == RecordFilledOrder(taken, r, fill)
             amount == fill.lots * fill.price
             last == [counted EXCEPT !.filled_notional_tick = counted.filled_notional_tick + amount]
  <2>2. HandleFill(noted, r, fill) = IF ledger = noted.ledger THEN noted ELSE last
    BY DEF HandleFill
  <2> HIDE DEF ledger, portfolio, amount
  <2>3. DOMAIN taken = EngineFields /\ taken.terminal_by_plan = e.terminal_by_plan
    BY <1>2, Zenon DEF EngineFields
  <2> HIDE DEF taken
  <2> DEFINE order == [id |-> ReportId(r), asset_index |-> AssetIndex[fill.asset],
                       notional_tick |-> amount]
             t == taken.terminal_by_plan
             one == [t EXCEPT ![p].filled_child_orders = t[p].filled_child_orders + 1]
             two == [one EXCEPT ![p].actual_buy_cost_tick = one[p].actual_buy_cost_tick + amount]
  <2>4. DOMAIN counted = EngineFields /\ counted.terminal_by_plan = two
    BY <2>3 DEF RecordFilledOrder, EngineFields, amount
  <2> HIDE DEF counted
  <2>5. DOMAIN last = EngineFields /\ last.terminal_by_plan = two
    BY <2>4 DEF EngineFields
  <2> HIDE DEF last
  <2>6. ASSUME p \in DOMAIN t, DOMAIN t[p] = TerminalFields
        PROVE  /\ DOMAIN two = DOMAIN t
               /\ \A q \in DOMAIN t : q # p => two[q] = t[q]
               /\ DOMAIN two[p] = TerminalFields
               /\ two[p].expected_child_orders = t[p].expected_child_orders
               /\ two[p].filled_child_orders = t[p].filled_child_orders + 1
    <3>1. /\ DOMAIN one = DOMAIN t /\ \A q \in DOMAIN t : q # p => one[q] = t[q]
          /\ one[p] = [t[p] EXCEPT !.filled_child_orders = t[p].filled_child_orders + 1]
      BY <2>6, Zenon
    <3> HIDE DEF one
    <3>2. /\ DOMAIN two = DOMAIN one /\ \A q \in DOMAIN one : q # p => two[q] = one[q]
          /\ two[p] = [one[p] EXCEPT !.actual_buy_cost_tick = one[p].actual_buy_cost_tick + amount]
      BY <2>6, <3>1, Zenon
    <3> HIDE DEF two, t
    <3>3. /\ DOMAIN one[p] = TerminalFields
          /\ one[p].expected_child_orders = t[p].expected_child_orders
          /\ one[p].filled_child_orders = t[p].filled_child_orders + 1
      BY <2>6, <3>1, Zenon DEF TerminalFields
    <3>4. /\ DOMAIN two[p] = TerminalFields
          /\ two[p].expected_child_orders = one[p].expected_child_orders
          /\ two[p].filled_child_orders = one[p].filled_child_orders
      BY <3>2, <3>3, Zenon DEF TerminalFields
    <3> QED BY <3>1, <3>2, <3>3, <3>4, Zenon
  <2> HIDE DEF two
  <2>7. CASE ledger = noted.ledger
    BY <1>1, <1>2, <1>4, <2>2, <2>7, Zenon DEF CountedBy
  <2>8. CASE ledger # noted.ledger
    <3>1. OnExecutionReport(e, r) = last
      BY <1>1, <1>4, <2>2, <2>8, Zenon
    <3>2. CountedBy(e, last, r)
      BY <2>1, <2>3, <2>5, <2>6, Zenon DEF CountedBy
    <3> QED BY <2>5, <3>1, <3>2, Zenon
  <2> QED BY <2>7, <2>8, Zenon
<1> QED BY <1>3, <1>4, Zenon

\* What it means for w to be the engine's states over the first n reports.
IsRun(w, e, reports, n) ==
  w = [i \in 0 .. n |-> IF i = 0 THEN e ELSE OnExecutionReport(w[i - 1], reports[i])]

\* The loop over the reports can be continued by one report.
LEMMA RunExtends ==
  ASSUME NEW e, NEW reports, NEW n \in Nat, NEW w, IsRun(w, e, reports, n)
  PROVE  \E x : IsRun(x, e, reports, n + 1)
<1> DEFINE x == [i \in 0 .. n + 1 |->
                   IF i = n + 1 THEN OnExecutionReport(w[n], reports[n + 1]) ELSE w[i]]
           y == [i \in 0 .. n + 1 |-> IF i = 0 THEN e
                                      ELSE OnExecutionReport(x[i - 1], reports[i])]
<1>1. ASSUME NEW i \in 0 .. n + 1 PROVE x[i] = y[i]
  <2>1. CASE i = 0
    BY <2>1 DEF IsRun
  <2>2. CASE i = n + 1
    <3>1. i - 1 = n /\ i # 0 /\ i - 1 \in 0 .. n + 1 /\ n # n + 1
      BY <2>2
    <3>2. x[i - 1] = w[n]
      BY <3>1, Zenon
    <3> QED BY <2>2, <3>1, <3>2
  <2>3. CASE i # 0 /\ i # n + 1
    <3>1. i \in 0 .. n /\ i - 1 \in 0 .. n /\ i - 1 \in 0 .. n + 1 /\ i - 1 # n + 1
      BY <2>3
    <3>2. w[i] = OnExecutionReport(w[i - 1], reports[i])
      BY <2>3, <3>1, Zenon DEF IsRun
    <3>3. x[i - 1] = w[i - 1] /\ x[i] = w[i]
      BY <2>3, <3>1, Zenon
    <3> QED BY <2>3, <3>2, <3>3, Zenon
  <2> QED BY <2>1, <2>2, <2>3
<1>2. x = y
  BY <1>1, Zenon
<1> QED BY <1>2, Zenon DEF IsRun

\* OnExecutionReports walks through the states of a run.
LEMMA RunExists ==
  ASSUME NEW e, NEW reports, Len(reports) \in Nat
  PROVE  \E w : /\ w[0] = e
                /\ \A i \in 1 .. Len(reports) : w[i] = OnExecutionReport(w[i - 1], reports[i])
                /\ OnExecutionReports(e, reports) = w[Len(reports)]
<1> DEFINE Good == {m \in Nat : \E w : IsRun(w, e, reports, m)}
           n == Len(reports)
           w == CHOOSE x : IsRun(x, e, reports, n)
<1>1. 0 \in Good
  <2>1. IsRun([i \in 0 .. 0 |-> e], e, reports, 0)
    BY DEF IsRun
  <2> QED BY <2>1, Zenon
<1>2. \A m \in Good : m + 1 \in Good
  BY RunExtends
<1>3. Good = Nat
  <2>1. Good \in SUBSET Nat
    OBVIOUS
  <2> HIDE DEF Good
  <2> QED BY <1>1, <1>2, <2>1, NatSetInduction, Zenon
<1>4. IsRun(w, e, reports, n)
  BY <1>3, Zenon
<1>5. OnExecutionReports(e, reports) = w[n]
  BY DEF OnExecutionReports, IsRun
<1> HIDE DEF w
<1>6. w[0] = e /\ \A i \in 1 .. n : w[i] = OnExecutionReport(w[i - 1], reports[i])
  BY <1>4 DEF IsRun
<1> QED BY <1>5, <1>6, Zenon

\* Reports that fill nothing leave the plans' counts alone.
LEMMA ReportsIgnored ==
  ASSUME NEW e, DOMAIN e = EngineFields, NEW reports, Len(reports) \in Nat,
         \A i \in 1 .. Len(reports) : ~ Fills(reports[i])
  PROVE  /\ DOMAIN OnExecutionReports(e, reports) = EngineFields
         /\ OnExecutionReports(e, reports).terminal_by_plan = e.terminal_by_plan
<1> DEFINE n == Len(reports)
<1>1. PICK w : /\ w[0] = e
               /\ \A i \in 1 .. n : w[i] = OnExecutionReport(w[i - 1], reports[i])
               /\ OnExecutionReports(e, reports) = w[n]
  BY RunExists
<1> DEFINE Good == {i \in Nat : i <= n => /\ DOMAIN w[i] = EngineFields
                                          /\ w[i].terminal_by_plan = e.terminal_by_plan}
<1>2. 0 \in Good
  BY <1>1, Zenon
<1>3. \A i \in Good : i + 1 \in Good
  <2> SUFFICES ASSUME NEW i \in Good, i + 1 <= n
               PROVE  /\ DOMAIN w[i + 1] = EngineFields
                      /\ w[i + 1].terminal_by_plan = e.terminal_by_plan
    OBVIOUS
  <2>1. i + 1 \in 1 .. n /\ i <= n /\ (i + 1) - 1 = i
    OBVIOUS
  <2>2. w[i + 1] = OnExecutionReport(w[i], reports[i + 1])
    BY <1>1, <2>1, Zenon
  <2> DEFINE f == w[i]
             r == reports[i + 1]
             g == w[i + 1]
  <2>3. DOMAIN f = EngineFields /\ f.terminal_by_plan = e.terminal_by_plan /\ ~ Fills(r)
    BY <2>1, Zenon
  <2> HIDE DEF f, r
  <2>4. DOMAIN OnExecutionReport(f, r) = EngineFields
        /\ OnExecutionReport(f, r).terminal_by_plan = f.terminal_by_plan
    BY <2>3, ReportStep, Zenon DEF CountedBy
  <2> QED BY <2>2, <2>3, <2>4, Zenon DEF f, r
<1>4. Good = Nat
  <2>1. Good \in SUBSET Nat
    BY Zenon
  <2> HIDE DEF Good
  <2> QED BY <1>2, <1>3, <2>1, NatSetInduction, Zenon
<1> QED BY <1>1, <1>4

\* What is asked of the engine f after the first i reports of plan p, which it met as e.
CountedUpTo(e, p, reports, f, i) ==
  /\ DOMAIN f = EngineFields /\ DOMAIN f.terminal_by_plan = DOMAIN e.terminal_by_plan
  /\ \A q \in DOMAIN f.terminal_by_plan : q # p => f.terminal_by_plan[q] = e.terminal_by_plan[q]
  /\ DOMAIN f.terminal_by_plan[p] = TerminalFields
  /\ f.terminal_by_plan[p].expected_child_orders = e.terminal_by_plan[p].expected_child_orders
  /\ f.terminal_by_plan[p].filled_child_orders \in 0 .. i
  /\ f.terminal_by_plan[p].filled_child_orders = i => \A j \in 1 .. i : Fills(reports[j])

\* The reports of a plan count at most one order each, and as many as there are reports only
\* if every one of them fills.
LEMMA ReportsCount ==
  ASSUME NEW e, DOMAIN e = EngineFields, NEW p \in DOMAIN e.terminal_by_plan,
         DOMAIN e.terminal_by_plan[p] = TerminalFields,
         e.terminal_by_plan[p].filled_child_orders = 0,
         NEW reports, Len(reports) \in Nat,
         \A i \in 1 .. Len(reports) : reports[i].plan_id = p
  PROVE  CountedUpTo(e, p, reports, OnExecutionReports(e, reports), Len(reports))
<1> DEFINE n == Len(reports)
           Counted(f, i) == CountedUpTo(e, p, reports, f, i)
<1>1. PICK w : /\ w[0] = e
               /\ \A i \in 1 .. n : w[i] = OnExecutionReport(w[i - 1], reports[i])
               /\ OnExecutionReports(e, reports) = w[n]
  BY RunExists
<1> DEFINE Good == {i \in Nat : i <= n => Counted(w[i], i)}
<1>2. 0 \in Good
  BY <1>1 DEF CountedUpTo
<1>3. \A i \in Good : i + 1 \in Good
  <2> SUFFICES ASSUME NEW i \in Good, i + 1 <= n PROVE Counted(w[i + 1], i + 1)
    OBVIOUS
  <2>1. i \in Nat /\ i + 1 \in 1 .. n /\ i <= n /\ (i + 1) - 1 = i
    OBVIOUS
  <2>2. w[i + 1] = OnExecutionReport(w[i], reports[i + 1])
    BY <1>1, <2>1, Zenon
  <2>3. Counted(w[i], i)
    BY <2>1, Zenon
  <2> DEFINE f == w[i]
             g == w[i + 1]
             r == reports[i + 1]
  <2>4. /\ r.plan_id = p /\ g = OnExecutionReport(f, r)
        /\ DOMAIN f = EngineFields /\ p \in DOMAIN f.terminal_by_plan
        /\ DOMAIN f.terminal_by_plan[p] = TerminalFields
    BY <2>1, <2>2, <2>3, Zenon DEF CountedUpTo
  <2> HIDE DEF f, g, r
  <2> DEFINE x == f.terminal_by_plan[p].filled_child_orders
             y == g.terminal_by_plan[p].filled_child_orders
  <2>5. /\ DOMAIN g = EngineFields
        /\ \/ g.terminal_by_plan = f.terminal_by_plan
           \/ /\ Fills(r)
              /\ DOMAIN g.terminal_by_plan = DOMAIN f.terminal_by_plan
              /\ \A q \in DOMAIN f.terminal_by_plan :
                   q # p => g.terminal_by_plan[q] = f.terminal_by_plan[q]
              /\ DOMAIN g.terminal_by_plan[p] = TerminalFields
              /\ g.terminal_by_plan[p].expected_child_orders
                   = f.terminal_by_plan[p].expected_child_orders
              /\ g.terminal_by_plan[p].filled_child_orders
                   = f.terminal_by_plan[p].filled_child_orders + 1
    <3>1. DOMAIN g = EngineFields /\ CountedBy(f, g, r)
      BY <2>4, ReportStep, Zenon
    <3> QED BY <2>4, <3>1, Zenon DEF CountedBy
  <2>6. /\ DOMAIN f.terminal_by_plan = DOMAIN e.terminal_by_plan
        /\ \A q \in DOMAIN f.terminal_by_plan :
             q # p => f.terminal_by_plan[q] = e.terminal_by_plan[q]
        /\ f.terminal_by_plan[p].expected_child_orders = e.terminal_by_plan[p].expected_child_orders
        /\ x \in 0 .. i /\ (x = i => \A j \in 1 .. i : Fills(reports[j]))
    BY <2>3, Zenon DEF f, CountedUpTo
  <2>7. CASE g.terminal_by_plan = f.terminal_by_plan
    <3>1. x \in 0 .. i + 1 /\ x # i + 1
      BY <2>1, <2>6
    <3>2. Counted(g, i + 1)
      BY <2>4, <2>5, <2>6, <2>7, <3>1, Zenon DEF CountedUpTo
    <3> QED BY <3>2, Zenon DEF g
  <2>8. CASE g.terminal_by_plan # f.terminal_by_plan
    <3>1. y = x + 1 /\ Fills(reports[i + 1])
      BY <2>5, <2>8, Zenon DEF r
    <3> HIDE DEF x, y
    <3>2. y \in 0 .. i + 1 /\ (y = i + 1 => x = i)
      BY <2>1, <2>6, <3>1
    <3>3. \A j \in 1 .. i + 1 : j \in 1 .. i \/ j = i + 1
      BY <2>1
    <3>4. y = i + 1 => \A j \in 1 .. i + 1 : Fills(reports[j])
      BY <2>6, <3>1, <3>2, <3>3, Zenon
    <3>5. Counted(g, i + 1)
      BY <2>5, <2>6, <2>8, <3>2, <3>4, Zenon DEF CountedUpTo, y
    <3> QED BY <3>5, Zenon DEF g
  <2> QED BY <2>7, <2>8, Zenon
<1>4. Good = Nat
  <2>1. Good \in SUBSET Nat
    BY Zenon
  <2> HIDE DEF Good
  <2> QED BY <1>2, <1>3, <2>1, NatSetInduction, Zenon
<1>5. Counted(w[n], n)
  BY <1>4
<1> QED BY <1>1, <1>5, Zenon

\* The reports a submission publishes: one for each order or none, and all of them fill only
\* if the plan was bought in full.
LEMMA SubmitReports ==
  ASSUME config \in Configs, NEW env \in Envelopes, Valid(env), NEW books \in BookViews,
         NEW answers
  PROVE  LET plan  == Prepared(PlanOf(env))
             out   == AdapterSubmit(plan, books, answers)
             after == AfterReports(plan.orders, out.reports)
             sent  == Stamped(env, after.reports)
         IN  \E m \in Nat :
               /\ sent \in [1 .. m -> {sent[k] : k \in 1 .. m}]
               /\ Len(after.orders) \in Nat /\ Len(after.orders) > 0
               /\ m \in {0, Len(after.orders)}
               /\ \A i \in 1 .. m : sent[i].plan_id = PlanId(env)
               /\ config.mode = "Paper" /\ ~ config.allow_partial_fill_paper
                  /\ m = Len(after.orders) /\ (\A i \in 1 .. m : Fills(sent[i]))
                  => AllFilled(after.fills)
<1> DEFINE plan == Prepared(PlanOf(env))
           orders == plan.orders
           n == Len(orders)
           out == AdapterSubmit(plan, books, answers)
           after == AfterReports(orders, out.reports)
           sent == Stamped(env, after.reports)
<1>1. IsOrders(orders)
  BY PreparedOrders
<1>2. /\ Honest(orders, out)
      /\ config.mode = "Paper" /\ ~ config.allow_partial_fill_paper => NonePartial(out)
  BY AdapterHonest
<1> HIDE DEF plan, out
<1>3. /\ DOMAIN after.fills = DOMAIN orders /\ DOMAIN after.orders = DOMAIN orders
      /\ \A k \in DOMAIN orders : OrderAgrees(after.orders[k], after.fills[k])
      /\ DOMAIN after.reports = DOMAIN out.reports
      /\ \A k \in DOMAIN out.reports : /\ after.orders[k].status = out.reports[k].status
                                       /\ after.reports[k].status = out.reports[k].status
  <2>1. ReportsApplied(orders, out, after)
    BY <1>1, <1>2, AfterReportsAgree, Zenon
  <2> HIDE DEF orders, after
  <2> QED BY <2>1, Zenon DEF ReportsApplied
<1>4. n \in Nat /\ n > 0 /\ DOMAIN orders = 1 .. n
  BY <1>1, Zenon DEF IsOrders
<1>5. Len(after.orders) = n
  <2>1. after.orders \in [1 .. n -> {after.orders[k] : k \in 1 .. n}]
    BY <1>4, Zenon DEF AfterReports
  <2> HIDE DEF after, n
  <2> QED BY <1>4, <2>1, LenOfFunction, Zenon
<1> HIDE DEF after
<1>6. /\ DOMAIN sent = DOMAIN out.reports
      /\ sent \in [DOMAIN out.reports -> {sent[k] : k \in DOMAIN out.reports}]
      /\ \A k \in DOMAIN sent : sent[k].plan_id = PlanId(env)
                                /\ sent[k].status = after.reports[k].status
  BY <1>3 DEF Stamped
<1> HIDE DEF sent
<1>7. ASSUME DOMAIN out.reports = 1 .. n, NonePartial(out), \A i \in 1 .. n : Fills(sent[i])
      PROVE  AllFilled(after.fills)
  <2>1. \A k \in 1 .. n : after.orders[k].status = "Filled"
    BY <1>3, <1>6, <1>7, Zenon DEF Fills, NonePartial
  <2>2. \A k \in 1 .. n : /\ after.fills[k].filled = after.fills[k].requested
                          /\ after.fills[k].requested \in Nat /\ after.fills[k].requested > 0
    BY <1>3, <1>4, <2>1, Zenon DEF OrderAgrees
  <2>3. after.fills # << >>
    BY <1>3, <1>4
  <2> QED BY <1>3, <1>4, <2>2, <2>3 DEF AllFilled
<1>8. PICK m \in {0, n} : DOMAIN out.reports = 1 .. m
  <2>1. DOMAIN out.reports \in {{}, 1 .. n}
    BY <1>2, <1>4, Zenon DEF Honest
  <2>2. 1 .. 0 = {}
    OBVIOUS
  <2> QED BY <2>1, <2>2, Zenon
<1>9. m \in Nat /\ sent \in [1 .. m -> {sent[k] : k \in 1 .. m}]
  BY <1>4, <1>6, <1>8
<1>10. \A i \in 1 .. m : sent[i].plan_id = PlanId(env)
  BY <1>6, <1>8, Zenon
<1>11. config.mode = "Paper" /\ ~ config.allow_partial_fill_paper
       /\ m = n /\ (\A i \in 1 .. m : Fills(sent[i]))
       => AllFilled(after.fills)
  BY <1>2, <1>7, <1>8, Zenon
<1> HIDE DEF n
<1> QED BY <1>4, <1>5, <1>8, <1>9, <1>10, <1>11, Zenon DEF plan, out, after, sent

CountInv ==
  /\ IsList(published)
  /\ DOMAIN paper = EngineFields
  /\ ~ Attached => DOMAIN paper.terminal_by_plan = {}
  /\ DOMAIN paper.terminal_by_plan \subseteq DOMAIN runtime
  /\ CompletePlansAreBought

\* A gateway step that plans nothing and publishes no fill.
LEMMA QuietStep ==
  ASSUME GatewayInv, CountInv, GatewayStep, config' = config,
         NEW m \in Nat, NEW T, NEW t \in [1 .. m -> T],
         published' = published \/ published' = published \o t,
         \A i \in 1 .. m : ~ Fills(t[i]),
         DOMAIN runtime' = DOMAIN runtime,
         \A p \in DOMAIN runtime : /\ runtime'[p].submit = runtime[p].submit
                                   /\ runtime'[p].fills = runtime[p].fills
  PROVE  CountInv'
<1>1. IsList(published) /\ DOMAIN paper = EngineFields
  BY Zenon DEF CountInv
<1>2. /\ IsList(published')
      /\ NewReports = << >> \/ (NewReports = t /\ Len(t) = m)
  <2> DEFINE p == published
  <2>1. IsList(p)
    BY <1>1, Zenon
  <2> HIDE DEF p
  <2>2. /\ IsList(p \o t) /\ Len(t) = m
        /\ SubSeq(p \o t, Len(p) + 1, Len(p \o t)) = t
        /\ SubSeq(p, Len(p) + 1, Len(p)) = << >>
    BY <2>1, ListConcat, Zenon
  <2>3. CASE published' = published
    BY <1>1, <2>2, <2>3 DEF NewReports, p
  <2>4. CASE published' = published \o t
    BY <1>1, <2>2, <2>4, Zenon DEF NewReports, p
  <2> QED BY <2>3, <2>4, Zenon
<1>3. Planned = {}
  <2>1. ASSUME NEW p \in DOMAIN runtime' PROVE ~ (runtime'[p].submit > Len(results))
    <3>1. Len(results) \in Nat
      BY ListAppend, Zenon DEF GatewayInv, ResultInv
    <3>2. runtime'[p].submit \in 1 .. Len(results)
      BY DEF GatewayInv, RuntimeInv
    <3> QED BY <3>1, <3>2
  <2> QED BY <2>1 DEF Planned
<1>4. DOMAIN paper' = EngineFields /\ paper'.terminal_by_plan = paper.terminal_by_plan
  <2>1. CASE ~ Attached
    BY <1>1, <2>1, Zenon DEF GatewayStep
  <2>2. CASE Attached
    <3>1. paper' = OnExecutionReports(paper, NewReports)
      BY <1>3, <2>2, Zenon DEF GatewayStep, WithPlans
    <3>2. Len(NewReports) \in Nat /\ \A i \in 1 .. Len(NewReports) : ~ Fills(NewReports[i])
      BY <1>2
    <3> QED BY <1>1, <3>1, <3>2, ReportsIgnored, Zenon
  <2> QED BY <2>1, <2>2, Zenon
<1>5. CompletePlansAreBought'
  <2> SUFFICES ASSUME ~ config.allow_partial_fill_paper,
                      NEW p \in DOMAIN paper.terminal_by_plan,
                      Complete(paper.terminal_by_plan[p])
               PROVE  AllFilled(runtime'[p].fills)
    BY <1>4, Zenon DEF CompletePlansAreBought
  <2>1. p \in DOMAIN runtime /\ AllFilled(runtime[p].fills)
    BY Zenon DEF CountInv, CompletePlansAreBought
  <2> QED BY <2>1, Zenon
<1>6. ~ Attached' => DOMAIN paper'.terminal_by_plan = {}
  BY <1>4, Zenon DEF CountInv, Attached
<1> QED BY <1>2, <1>4, <1>5, <1>6, Zenon DEF CountInv

\* A submission: the plan's count starts at zero before its reports arrive.
LEMMA SubmitCounts ==
  ASSUME GatewayInv, CountInv, GatewayStep, NEW env \in Envelopes, NEW books \in BookViews,
         NEW answers, Submit(env, books, answers)
  PROVE  CountInv'
<1> DEFINE plan == Prepared(PlanOf(env))
           out == AdapterSubmit(plan, books, answers)
           after == AfterReports(plan.orders, out.reports)
           sent == Stamped(env, after.reports)
           status == ApplyPlanLifecycle(out, after.fills)
           done == [plan EXCEPT !.status = status, !.orders = after.orders]
           kept == [plan |-> done, fills |-> after.fills, submit |-> Len(results) + 1]
           id == PlanId(env)
           old == paper.terminal_by_plan
<1>1. /\ Valid(env) /\ config' = config
      /\ runtime' = Put(runtime, id, kept) /\ published' = published \o sent
  BY Zenon DEF Submit, Conclude
<1>2. config \in Configs /\ Len(results) \in Nat
  BY ListAppend, Zenon DEF GatewayInv, ResultInv
<1>3. PICK m \in Nat :
        /\ sent \in [1 .. m -> {sent[k] : k \in 1 .. m}]
        /\ Len(after.orders) \in Nat /\ Len(after.orders) > 0
        /\ m \in {0, Len(after.orders)}
        /\ \A i \in 1 .. m : sent[i].plan_id = id
        /\ config.mode = "Paper" /\ ~ config.allow_partial_fill_paper
           /\ m = Len(after.orders) /\ (\A i \in 1 .. m : Fills(sent[i]))
           => AllFilled(after.fills)
  BY <1>1, <1>2, SubmitReports, Zenon
<1>4. "orders" \in DOMAIN plan /\ "status" \in DOMAIN plan
  BY DEF PlanOf, Prepared
<1> DEFINE T == {sent[k] : k \in 1 .. m}
<1> HIDE DEF plan, out, after, sent, status, id
<1>5. done.orders = after.orders
  BY <1>4, Zenon
<1> HIDE DEF done
<1>6. kept.plan.orders = after.orders /\ kept.fills = after.fills /\ kept.submit = Len(results) + 1
  BY <1>5, Zenon
<1> HIDE DEF kept
<1>7. /\ DOMAIN runtime' = DOMAIN runtime \cup {id} /\ runtime'[id] = kept
      /\ \A p \in DOMAIN runtime : p # id => runtime'[p] = runtime[p]
  BY <1>1, Zenon DEF Put
<1>8. IsList(published') /\ NewReports = sent /\ Len(sent) = m
  <2> DEFINE p == published
  <2>1. IsList(p)
    BY DEF CountInv
  <2>2. PICK r \in [1 .. m -> T] : r = sent
    BY <1>3, Zenon
  <2> HIDE DEF p
  <2>3. /\ IsList(p \o r) /\ Len(r) = m
        /\ SubSeq(p \o r, Len(p) + 1, Len(p \o r)) = r
        /\ SubSeq(p, Len(p) + 1, Len(p)) = << >>
    BY <2>1, ListConcat, Zenon
  <2> QED BY <1>1, <2>2, <2>3, Zenon DEF NewReports, p
<1>9. CASE ~ Attached
  <2>1. paper' = paper /\ ~ Attached' /\ DOMAIN old = {} /\ DOMAIN paper = EngineFields
    BY <1>1, <1>9 DEF GatewayStep, CountInv, Attached
  <2> QED BY <1>8, <2>1 DEF CountInv, CompletePlansAreBought
<1>10. CASE Attached
  <2>1. Planned = {id}
    <3>1. ASSUME NEW p \in DOMAIN runtime, p # id PROVE ~ (runtime'[p].submit > Len(results))
      <4>1. runtime'[p].submit \in 1 .. Len(results)
        BY <1>7, <3>1, Zenon DEF GatewayInv, RuntimeInv
      <4> QED BY <1>2, <4>1
    <3>2. runtime'[id].submit > Len(results)
      BY <1>2, <1>6, <1>7
    <3> QED BY <1>7, <3>1, <3>2, Zenon DEF Planned
  <2> DEFINE e == OnOrderPlan(paper, id, after.orders)
  <2>2. paper' = OnExecutionReports(e, sent)
    <3>1. WithPlans(paper) = e
      <4>1. (CHOOSE p \in Planned : TRUE) = id
        BY <2>1, Zenon
      <4> QED BY <1>6, <1>7, <2>1, <4>1, Zenon DEF WithPlans
    <3> QED BY <1>8, <1>10, <3>1, Zenon DEF GatewayStep
  <2>3. DOMAIN paper = EngineFields
    BY DEF CountInv
  <2>4. DOMAIN e = EngineFields /\ e.terminal_by_plan = Put(old, id, NewTerminal(after.orders))
    BY <2>3, Zenon DEF OnOrderPlan, RecordTerminal, EngineFields
  <2> HIDE DEF e
  <2>5. /\ DOMAIN e.terminal_by_plan = DOMAIN old \cup {id}
        /\ e.terminal_by_plan[id] = NewTerminal(after.orders)
        /\ \A p \in DOMAIN old : p # id => e.terminal_by_plan[p] = old[p]
    BY <2>4, Zenon DEF Put
  <2>6. /\ DOMAIN e.terminal_by_plan[id] = TerminalFields
        /\ e.terminal_by_plan[id].filled_child_orders = 0
        /\ e.terminal_by_plan[id].expected_child_orders = Len(after.orders)
    BY <2>5 DEF NewTerminal, TerminalFields
  <2> DEFINE u == paper'.terminal_by_plan
  <2>7. /\ DOMAIN paper' = EngineFields /\ DOMAIN u = DOMAIN e.terminal_by_plan
        /\ \A q \in DOMAIN u : q # id => u[q] = e.terminal_by_plan[q]
        /\ u[id].expected_child_orders = Len(after.orders)
        /\ u[id].filled_child_orders \in 0 .. m
        /\ u[id].filled_child_orders = m => \A i \in 1 .. m : Fills(sent[i])
    <3>0. Len(sent) \in Nat /\ \A i \in 1 .. Len(sent) : sent[i].plan_id = id
      BY <1>3, <1>8
    <3>1. id \in DOMAIN e.terminal_by_plan
      BY <2>5
    <3> DEFINE f == OnExecutionReports(e, sent)
    <3>2. CountedUpTo(e, id, sent, f, Len(sent))
      BY <2>4, <2>6, <3>0, <3>1, ReportsCount
    <3> HIDE DEF f
    <3>3. /\ DOMAIN f = EngineFields /\ DOMAIN f.terminal_by_plan = DOMAIN e.terminal_by_plan
          /\ \A q \in DOMAIN f.terminal_by_plan :
               q # id => f.terminal_by_plan[q] = e.terminal_by_plan[q]
          /\ f.terminal_by_plan[id].expected_child_orders
               = e.terminal_by_plan[id].expected_child_orders
          /\ f.terminal_by_plan[id].filled_child_orders \in 0 .. Len(sent)
          /\ f.terminal_by_plan[id].filled_child_orders = Len(sent)
               => \A i \in 1 .. Len(sent) : Fills(sent[i])
      BY <3>2, Zenon DEF CountedUpTo
    <3> QED BY <1>8, <2>2, <2>6, <3>3, Zenon DEF f
  <2> HIDE DEF u
  <2>8. ASSUME ~ config.allow_partial_fill_paper, NEW p \in DOMAIN u, Complete(u[p])
        PROVE  AllFilled(runtime'[p].fills)
    <3>1. CASE p = id
      <4>1. u[id].filled_child_orders = m /\ m = Len(after.orders)
        BY <1>3, <2>7, <2>8, <3>1 DEF Complete
      <4>2. AllFilled(after.fills)
        BY <1>3, <1>10, <2>7, <2>8, <4>1, Zenon DEF Attached
      <4> QED BY <1>6, <1>7, <3>1, <4>2, Zenon
    <3>2. CASE p # id
      <4>1. p \in DOMAIN old /\ u[p] = old[p]
        BY <2>5, <2>7, <3>2, Zenon
      <4>2. p \in DOMAIN runtime /\ AllFilled(runtime[p].fills)
        BY <2>8, <4>1, Zenon DEF CountInv, CompletePlansAreBought
      <4> QED BY <1>7, <3>2, <4>2, Zenon
    <3> QED BY <3>1, <3>2, Zenon
  <2>9. CompletePlansAreBought'
    BY <1>1, <2>8, Zenon DEF CompletePlansAreBought, u
  <2>10. DOMAIN u \subseteq DOMAIN runtime'
    BY <1>7, <2>5, <2>7, Zenon DEF CountInv
  <2>11. Attached'
    BY <1>1, <1>10, Zenon DEF Attached
  <2> QED BY <1>8, <2>7, <2>9, <2>10, <2>11, Zenon DEF CountInv, u
<1> QED BY <1>9, <1>10, Zenon

\* An engine that has seen no plan counts none complete.
LEMMA CountInitially ==
  ASSUME PaperInit
  PROVE  CountInv
<1>1. IsList(published)
  <2>1. published = << >>
    BY DEF PaperInit, GatewayInit
  <2> QED BY <2>1, ListEmpty, Zenon
<1>2. paper = NewEngine
  BY Zenon DEF PaperInit
<1>3. DOMAIN paper = EngineFields /\ DOMAIN paper.terminal_by_plan = {}
  BY <1>2 DEF NewEngine, EngineFields
<1> QED BY <1>1, <1>3, Zenon DEF CountInv, CompletePlansAreBought

\* The paper engine's counts through every step of the gateway in front of it.
LEMMA CountStep ==
  ASSUME GatewayInv, CountInv, [PaperNext]_paperVars
  PROVE  CountInv'
<1> DEFINE none == [i \in 1 .. 0 |-> 0]
<1>1. none \in [1 .. 0 -> {0}] /\ \A i \in 1 .. 0 : ~ Fills(none[i])
  OBVIOUS
<1> HIDE DEF none
<1>2. RuntimeInv
  BY Zenon DEF GatewayInv
<1>3. ASSUME GatewayStep, UNCHANGED << config, published, runtime >> PROVE CountInv'
  BY <1>1, <1>3, QuietStep, Zenon
<1>4. ASSUME GatewayStep, NEW env \in Envelopes, RejectEnvelope(env) \/ RejectPlan(env)
      PROVE  CountInv'
  BY <1>3, <1>4 DEF RejectEnvelope, RejectPlan
<1>5. ASSUME GatewayStep, NEW env \in Envelopes, NEW books \in BookViews, NEW answers,
             Submit(env, books, answers)
      PROVE  CountInv'
  BY <1>5, SubmitCounts
<1>6. ASSUME GatewayStep, Poll \/ ClockTick \/ \E v \in venue : VenueFills(v) PROVE CountInv'
  BY <1>3, <1>6, Zenon DEF Poll, ClockTick, VenueFills
<1>7. ASSUME GatewayStep, NEW pid \in DOMAIN runtime, CancelPaper(pid) PROVE CountInv'
  <2> DEFINE open == OpenOrders(runtime[pid])
             m == 2 * Cardinality(open)
             t == CancelReports(pid, runtime[pid])
  <2>1. /\ config' = config /\ published' = published \o t /\ MarkCancelled(pid)
    BY <1>7, Zenon DEF CancelPaper
  <2>2. m \in Nat
    <3>1. IsFiniteSet(open)
      <4>1. IsFiniteSet(DOMAIN runtime[pid].plan.orders)
        BY <1>2, Zenon DEF RuntimeInv
      <4>2. open \subseteq DOMAIN runtime[pid].plan.orders
        BY DEF OpenOrders
      <4> QED BY <4>1, <4>2, FS_Subset, Zenon
    <3>2. Cardinality(open) \in Nat
      BY <3>1, FS_CardinalityType, Zenon
    <3> HIDE DEF open
    <3> QED BY <3>2
  <2>3. t = [i \in 1 .. m |-> t[i]] /\ \A i \in 1 .. m : ~ Fills(t[i])
    BY DEF CancelReports, Fills
  <2>4. t \in [1 .. m -> {t[i] : i \in 1 .. m}]
    <3> HIDE DEF t, m
    <3> QED BY <2>3, Zenon
  <2>5. /\ DOMAIN runtime' = DOMAIN runtime
        /\ \A p \in DOMAIN runtime : /\ runtime'[p].submit = runtime[p].submit
                                     /\ runtime'[p].fills = runtime[p].fills
    BY <1>2, <2>1, MarkCancelledKeeps, Zenon
  <2> HIDE DEF t, m
  <2> QED BY <1>7, <2>1, <2>2, <2>3, <2>4, <2>5, QuietStep, Zenon
<1>8. ASSUME GatewayStep, NEW pid \in DOMAIN runtime, NEW closed, NEW told,
             CancelLive(pid, closed, told)
      PROVE  CountInv'
  <2>1. UNCHANGED << config, published >> /\ (MarkCancelled(pid) \/ UNCHANGED runtime)
    BY <1>8 DEF CancelLive
  <2>2. /\ DOMAIN runtime' = DOMAIN runtime
        /\ \A p \in DOMAIN runtime : /\ runtime'[p].submit = runtime[p].submit
                                     /\ runtime'[p].fills = runtime[p].fills
    BY <1>2, <2>1, MarkCancelledKeeps
  <2> QED BY <1>1, <1>8, <2>1, <2>2, QuietStep, Zenon
<1>9. CASE GatewayStep
  <2>1. GatewayNext
    BY <1>9 DEF GatewayStep
  <2> QED BY <1>4, <1>5, <1>6, <1>7, <1>8, <1>9, <2>1, Zenon DEF GatewayNext
\* A market mark only replaces the asset's depth view.
<1>10. ASSUME NEW a, NEW prices, MarkSnapshot(a, prices) PROVE CountInv'
  <2>1. /\ UNCHANGED << config, published, runtime >> /\ paper' = OnMark(paper, a, prices)
    BY <1>10, Zenon DEF MarkSnapshot, gatewayVars
  <2>2. DOMAIN paper = EngineFields
    BY DEF CountInv
  <2>3. DOMAIN paper' = EngineFields /\ paper'.terminal_by_plan = paper.terminal_by_plan
    BY <2>1, <2>2, Zenon DEF OnMark, EngineFields
  <2> QED BY <2>1, <2>3, Zenon DEF CountInv, CompletePlansAreBought, Attached
<1>11. CASE UNCHANGED paperVars
  BY <1>11, Zenon DEF CountInv, CompletePlansAreBought, Attached, paperVars, gatewayVars
<1> QED BY <1>9, <1>10, <1>11, Zenon DEF PaperNext

\* For all envelopes, books and configurations without partial paper fills: a plan the paper
\* trading engine counts as complete, and so books the guaranteed payout of, was bought in
\* full on every leg (PaperTradingEngine::on_order_plan, handle_observed_event).
THEOREM CompletePlansBought == PaperSpec => []CompletePlansAreBought
<1>1. PaperInit => CountInv
  BY CountInitially, Zenon
<1>2. GatewayInv /\ CountInv /\ [PaperNext]_paperVars => CountInv'
  BY CountStep, Zenon
<1>3. CountInv => CompletePlansAreBought
  BY DEF CountInv
<1> QED BY <1>1, <1>2, <1>3, GatewayInvariant, PTL DEF PaperSpec
=============================================================================
