------------------------------ MODULE VwapMath ------------------------------
(* The arithmetic of the pricing and risk code (engine/common/math):             *)
(* fixed-width integers (FixedPointMath.h); the price of a purchase against the  *)
(* ask side of a book, by the walk over the levels (VwapMath.h, buy_vwap_linear) *)
(* or the look-up in sums that the state layer computes once per book            *)
(* (engine/state/book/DepthPrefix.h, build_depth_prefix, and buy_vwap_prefix     *)
(* over them); and the edge that a purchase leaves (EdgeMath.h, RiskMath.h).     *)
(*                                                                               *)
(* MaxI64 stands for the largest value of the integer type, so that a small      *)
(* instance can reach the overflow.  A level is [price_tick, size]; size counts  *)
(* in parts of a lot, LotUnit to one lot, because the code keeps a double and    *)
(* rounds it down.                                                               *)
EXTENDS Integers, Sequences

CONSTANT MaxI64

ASSUME MaxI64Assumption == MaxI64 \in Nat \ {0}

MinI64 == -MaxI64 - 1

\* checked_add_i64, checked_sub_i64 and checked_mul_i64 compute in 128 bits and fail
\* when the result does not fit.
Fits(x) == MinI64 <= x /\ x <= MaxI64

\* saturating_add_i64 and saturating_mul_i64, given the exact result.
Saturate(x) == IF x > MaxI64 THEN MaxI64 ELSE IF x < MinI64 THEN MinI64 ELSE x

\* Division of the C++ operator: towards zero.
TruncDiv(a, b) ==
  IF a >= 0 THEN IF b > 0 THEN a \div b ELSE -(a \div (-b))
  ELSE IF b > 0 THEN -((-a) \div b) ELSE (-a) \div (-b)

\* ratio_bps: a ratio in ten-thousandths, with a saturated answer for a zero
\* denominator.
RatioBps(numerator, denominator) ==
  IF denominator = 0
  THEN IF numerator > 0 THEN MaxI64 ELSE IF numerator < 0 THEN MinI64 ELSE 0
  ELSE Saturate(TruncDiv(numerator * 10000, denominator))

-----------------------------------------------------------------------------
(* The price of a purchase.                                                      *)

CONSTANT LotUnit

ASSUME LotUnitAssumption == LotUnit \in Nat \ {0}

Lesser(a, b) == IF a <= b THEN a ELSE b
Greater(a, b) == IF a >= b THEN a ELSE b

\* price_level_size_lots, and the price test both walks make before they use it.
Available(level) ==
  IF level.price_tick <= 0 \/ level.size <= 0 THEN 0
  ELSE Lesser(level.size \div LotUnit, MaxI64)

Unpriced ==
  [ok |-> FALSE, total_cost_tick |-> 0, vwap_tick |-> 0, worst_price_tick |-> 0,
   executable_qty_lots |-> 0]

\* Faulty variant: the walk stops counting depth once the quantity is filled.
VisitFilledStops(s, level) ==
  LET take == Lesser(s.remaining, Available(level))
  IN  [s EXCEPT !.depth     = s.depth + take,
                !.cost      = s.cost + level.price_tick * take,
                !.worst     = IF take > 0 THEN Greater(s.worst, level.price_tick) ELSE s.worst,
                !.remaining = s.remaining - take]

\* One level of buy_vwap_linear's loop.  Depth is counted on every level, cost only
\* until the quantity is filled; an overflow abandons the walk.
Visit(s, level) ==
  LET available == Available(level)
      take      == Lesser(s.remaining, available)
      cost      == level.price_tick * take
  IN  IF s.overflow \/ available = 0 THEN s
      ELSE IF ~ Fits(s.depth + available) \/ ~ Fits(cost) \/ ~ Fits(s.cost + cost)
      THEN [s EXCEPT !.overflow = TRUE]
      ELSE [overflow  |-> FALSE,
            depth     |-> s.depth + available,
            cost      |-> s.cost + cost,
            worst     |-> IF take > 0 THEN Greater(s.worst, level.price_tick) ELSE s.worst,
            remaining |-> s.remaining - take]

BuyVwapLinear(asks, qty_lots) ==
  LET Walk[i \in 0 .. Len(asks)] ==
        IF i = 0
        THEN [overflow |-> FALSE, depth |-> 0, cost |-> 0, worst |-> 0,
              remaining |-> qty_lots]
        ELSE Visit(Walk[i - 1], asks[i])
      end == Walk[Len(asks)]
  IN  IF asks = << >> \/ qty_lots <= 0 \/ end.overflow THEN Unpriced
      ELSE [ok                  |-> end.remaining = 0,
            total_cost_tick     |-> end.cost,
            vwap_tick           |-> IF end.remaining = 0 THEN end.cost \div qty_lots ELSE 0,
            worst_price_tick    |-> end.worst,
            executable_qty_lots |-> end.depth]

\* build_depth_prefix: cumulative depth and cost of the ask side, saturating.
DepthPrefix(asks) ==
  LET Sum[i \in 0 .. Len(asks)] ==
        IF i = 0 THEN [qty |-> 0, cost |-> 0]
        ELSE [qty  |-> Saturate(Sum[i - 1].qty + Available(asks[i])),
              cost |-> Saturate(Sum[i - 1].cost
                                + Saturate(asks[i].price_tick * Available(asks[i])))]
  IN  [i \in 1 .. Len(asks) |-> Sum[i]]

\* The first level at which the cumulative depth covers the quantity.
FillLevel(prefix, qty_lots) ==
  CHOOSE i \in DOMAIN prefix :
    prefix[i].qty >= qty_lots /\ \A j \in 1 .. i - 1 : prefix[j].qty < qty_lots

AskDepthFromPrefix(prefix) == IF prefix = << >> THEN 0 ELSE prefix[Len(prefix)].qty

BuyVwapPrefix(asks, qty_lots) ==
  LET prefix == DepthPrefix(asks)
      level  == FillLevel(prefix, qty_lots)
      before == IF level = 1 THEN [qty |-> 0, cost |-> 0] ELSE prefix[level - 1]
      part   == asks[level].price_tick * (qty_lots - before.qty)
      depth  == AskDepthFromPrefix(prefix)
  IN  IF asks = << >> \/ qty_lots <= 0 THEN Unpriced
      ELSE IF depth < qty_lots \/ asks[level].price_tick <= 0
      THEN [Unpriced EXCEPT !.executable_qty_lots = depth]
      ELSE IF ~ Fits(part) \/ ~ Fits(before.cost + part) THEN Unpriced
      ELSE [ok                  |-> TRUE,
            total_cost_tick     |-> before.cost + part,
            vwap_tick           |-> (before.cost + part) \div qty_lots,
            worst_price_tick    |-> asks[level].price_tick,
            executable_qty_lots |-> depth]

-----------------------------------------------------------------------------
(* What is left of a guaranteed payout after the cost of buying it.              *)

\* ceil_div_positive.
CeilDivPositive(numerator, denominator) ==
  IF denominator <= 0 THEN 0 ELSE Saturate(TruncDiv(numerator + denominator - 1, denominator))

\* compute_edge: the charges come off the payout of one bundle one after the other, and any
\* of the subtractions may overflow.
ComputeEdge(payout, cost, fee, latency, slippage, bundle_qty) ==
  LET unit == payout - cost - fee - latency - slippage
  IN  IF /\ Fits(payout - cost)
         /\ Fits(payout - cost - fee)
         /\ Fits(payout - cost - fee - latency)
         /\ Fits(unit)
         /\ Fits(unit * bundle_qty)
      THEN [ok |-> TRUE, unit_edge_tick |-> unit, total_edge_tick |-> unit * bundle_qty,
            edge_bps |-> RatioBps(unit, cost)]
      ELSE [ok |-> FALSE, unit_edge_tick |-> 0, total_edge_tick |-> 0, edge_bps |-> 0]

\* passes_edge_thresholds.
PassesEdgeThresholds(unit_edge, total_edge, edge_bps, policy) ==
  /\ total_edge >= policy.min_post_risk_total_edge_tick
  /\ unit_edge >= policy.min_post_risk_unit_edge_tick
  /\ edge_bps >= policy.min_edge_bps
=============================================================================
