------------------------------- MODULE Quoting -------------------------------
(***************************************************************************)
(* The market making strategy (engine/strategy/market_making): from the    *)
(* depth of a book and the position held to a quote, and from the quote to *)
(* what MarketMakingEngine tells its caller to place and to cancel.        *)
(*                                                                         *)
(* A book d is [bids, asks, usable, recovering, crossed, closed, resolved, *)
(* recv], levels best first; a configuration c is a record of the fields   *)
(* of MarketMakingConfig.  A quote maps the sides it has, "Bid" and "Ask", *)
(* to legs.  The two sides of the code are mirror images and are written   *)
(* once, with the side as a parameter.  Hashes are what they are hashed    *)
(* from.  Floating point is exact: fractions are pairs.                    *)
(***************************************************************************)
EXTENDS VwapMath

CONSTANTS
  PriceOne,      \* kPriceOneTick, the price of a certain outcome
  TteCurve(_, _) \* the exponential of tte_multiplier, from a fraction to a fraction

ASSUME PriceOneAssumption == PriceOne \in Nat \ {0}

QuoteIntentType == {"PlaceQuote", "ReplaceQuote", "PassiveUnwind", "ForcedUnwind"}
QuoteIntentRiskMode == {"Opening", "ReduceOnly", "ForcedReduce", "Mixed"}
QuoteSide == {"Bid", "Ask"}
CancelReason == {"MarketHalted", "BookStale", "QuoteExpired", "RiskDegraded", "FairValueMoved",
                 "InventoryChanged", "ReplacedByNewQuote"}
FairValueQuality == {"Valid", "StaleBook", "CrossedBook", "MissingBidAsk", "LowConfidence",
                     "ExternalStale"}

ClampTick(x, lo, hi) == Greater(lo, Lesser(hi, x))

Magnitude(x) == IF x < 0 THEN -x ELSE x

\* llround of a fraction: to the nearest integer, halves away from zero.
RoundDiv(n, d) ==
  IF n >= 0 THEN (2 * n + d) \div (2 * d) ELSE -((2 * (-n) + d) \div (2 * d))

TopPrice(levels) == IF levels = << >> THEN 0 ELSE levels[1].price_tick
TopLots(levels) == Available(levels[1])
SideDepth(levels) == AskDepthFromPrefix(DepthPrefix(levels))

\* midpoint_tick, for a book with both sides.
Midpoint(d) == (TopPrice(d.bids) + TopPrice(d.asks)) \div 2

-----------------------------------------------------------------------------
(* FairValueModel.                                                          *)

BpsToTick(fair, bps) == IF fair <= 0 \/ bps <= 0 THEN 0 ELSE Greater(1, (fair * bps) \div 10000)

Exceeds(value, limit) == limit > 0 /\ value > limit

ThinBook(d, c) ==
  \/ c.min_top_depth_lots > 0
       /\ Lesser(TopLots(d.bids), TopLots(d.asks)) < c.min_top_depth_lots
  \/ c.min_total_depth_lots > 0
       /\ Lesser(SideDepth(d.bids), SideDepth(d.asks)) < c.min_total_depth_lots

\* fair_confidence_bps; a thin book was refused before.
FairConfidence(mid, spread, bid_qty, ask_qty) ==
  LET wide     == IF mid > 0 THEN Lesser(4000, ((spread * 10000) \div mid) * 50) ELSE 0
      lopsided == IF bid_qty + ask_qty > 0
                  THEN Lesser(2000, ((Magnitude(bid_qty - ask_qty) * 10000)
                                       \div (bid_qty + ask_qty)) \div 4)
                  ELSE 0
  IN  10000 - wide - lopsided

\* The tests compute_book_fair makes before it prices, in order.
BookDefect(d, c, now) ==
  LET spread == TopPrice(d.asks) - TopPrice(d.bids)
  IN  IF ~ d.usable \/ d.recovering \/ d.closed \/ d.resolved THEN "StaleBook"
      ELSE IF d.crossed THEN "CrossedBook"
      ELSE IF TopPrice(d.bids) <= 0 \/ TopPrice(d.asks) <= 0 THEN "MissingBidAsk"
      ELSE IF spread <= 0 THEN "CrossedBook"
      ELSE IF \/ Exceeds(spread, c.max_book_spread_tick)
              \/ Exceeds(spread, BpsToTick(Midpoint(d), c.max_book_spread_bps))
      THEN "LowConfidence"
      ELSE IF d.recv > 0 /\ Exceeds(now - d.recv, c.max_book_age) THEN "StaleBook"
      ELSE IF ThinBook(d, c) THEN "LowConfidence" ELSE "Valid"

Microprice(d) ==
  LET bidLots == TopLots(d.bids)  askLots == TopLots(d.asks)
  IN  IF bidLots + askLots = 0 THEN Midpoint(d)
      ELSE RoundDiv(TopPrice(d.bids) * askLots + TopPrice(d.asks) * bidLots, bidLots + askLots)

\* The middle of what buying and selling fair_vwap_lots cost; sell_vwap_from_prefix is the
\* same look-up on the bids.
VwapMid(d, c) ==
  LET lots == Lesser(Greater(1, c.fair_vwap_lots), Lesser(SideDepth(d.bids), SideDepth(d.asks)))
      Middle(buy, sell) ==
        IF buy.ok /\ sell.ok THEN (buy.vwap_tick + sell.vwap_tick) \div 2 ELSE Midpoint(d)
  IN  Middle(BuyVwapPrefix(d.asks, lots), BuyVwapPrefix(d.bids, lots))

NoFair(quality) == [quality |-> quality, fair |-> 0, external |-> 0]

\* compute_book_fair.
BookFair(d, c, now) ==
  LET defect     == BookDefect(d, c, now)
      weight     == c.fair_mid_weight_bps + c.fair_microprice_weight_bps + c.fair_vwap_weight_bps
      confidence == FairConfidence(Midpoint(d), TopPrice(d.asks) - TopPrice(d.bids),
                                   TopLots(d.bids), TopLots(d.asks))
  IN  IF defect # "Valid" THEN NoFair(defect)
      ELSE IF weight <= 0 \/ confidence < c.min_fair_confidence_bps THEN NoFair("LowConfidence")
      ELSE [quality  |-> "Valid",
            external |-> 0,
            fair     |-> RoundDiv(Midpoint(d) * c.fair_mid_weight_bps
                                  + Microprice(d) * c.fair_microprice_weight_bps
                                  + VwapMid(d, c) * c.fair_vwap_weight_bps, weight)]

\* external_fair_tick.
ExternalTick(c) ==
  IF c.external_fair_weight_bps <= 0 \/ c.external_fair_value_tick <= 0 THEN 0
  ELSE ClampTick(c.external_fair_value_tick, c.min_price_tick, c.max_price_tick)

\* external_reference_book_config.
Relaxed(c) ==
  LET weighted == c.fair_mid_weight_bps + c.fair_microprice_weight_bps + c.fair_vwap_weight_bps > 0
  IN  [c EXCEPT !.max_book_spread_tick = 0, !.max_book_spread_bps = 0, !.min_top_depth_lots = 0,
                !.min_total_depth_lots = 0, !.min_fair_confidence_bps = 0,
                !.fair_mid_weight_bps = IF weighted THEN @ ELSE 10000,
                !.fair_microprice_weight_bps = IF weighted THEN @ ELSE 0,
                !.fair_vwap_weight_bps = IF weighted THEN @ ELSE 0]

\* The complement's book, when there is one and it can be priced, pulls the fair value
\* towards one minus its own.
Blended(fair, complement, c, now) ==
  LET weight == ClampTick(c.complement_fair_weight_bps, 0, 10000)
      Pulled(other) ==
        IF other.quality # "Valid" THEN fair
        ELSE [fair EXCEPT !.fair =
                ClampTick(RoundDiv(@ * (10000 - weight)
                                   + ClampTick(PriceOne - other.fair, c.min_price_tick,
                                               c.max_price_tick) * weight, 10000),
                          c.min_price_tick, c.max_price_tick)]
  IN  IF complement = << >> \/ c.complement_fair_weight_bps <= 0 THEN fair
      ELSE Pulled(BookFair(complement[1], c, now))

\* compute: an external value, when there is one, overrides what the book says, but never
\* the defects of the book that are not a matter of confidence.
FairValue(d, c, now, complement) ==
  LET external == ExternalTick(c)
      Retried(strict) == IF strict.quality = "LowConfidence" /\ external > 0
                         THEN BookFair(d, Relaxed(c), now) ELSE strict
      Final(book) ==
        IF book.quality # "Valid" THEN book
        ELSE IF external > 0 THEN [book EXCEPT !.external = external, !.fair = external]
        ELSE Blended(book, complement, c, now)
  IN  IF /\ c.external_fair_weight_bps > 0 /\ external <= 0
         /\ c.require_external_fair_for_opening_quotes
      THEN NoFair("ExternalStale")
      ELSE Final(Retried(BookFair(d, c, now)))

-----------------------------------------------------------------------------
(* SpreadModel, InventorySkewModel and QuoteSizeModel.                      *)

HalfSpread(c) ==
  Greater(c.min_half_spread_tick,
    Greater(c.fee_buffer_tick, Greater(c.latency_buffer_tick, Greater(c.volatility_buffer_tick,
      Greater(c.liquidity_buffer_tick, c.uncertainty_buffer_tick)))))

\* How far the position is from the target, as a fraction of the room on that side.
InventoryError(c, position) == position - c.target_position_lots
InventoryRoom(c, position) ==
  Greater(1, IF InventoryError(c, position) >= 0
             THEN c.max_inventory_lots - c.target_position_lots
             ELSE c.target_position_lots - c.min_inventory_lots)

\* nonlinear_pressure of n/d, for a whole exponent e: beyond the start s the pressure is
\* 1 - (1-p)^e / (1-s)^(e-1).
NonlinearPressure(c, n, d) ==
  LET e == c.inventory_skew_exponent
      s == c.inventory_skew_nonlinear_start
      below == (s[2] - s[1]) ^ (e - 1) * d ^ e
  IN  IF e <= 1 \/ n * s[2] <= s[1] * d THEN << n, d >>
      ELSE << below - (d - n) ^ e * s[2] ^ (e - 1), below >>

TteMultiplier(c, tte) ==
  LET puke  == Lesser(c.tte_puke_start, c.tte_skew_start)
      curve == TteCurve(c.tte_skew_start - tte, c.tte_skew_start - puke)
  IN  IF tte = 0 \/ c.tte_skew_start = 0 \/ c.tte_max_skew_multiplier <= 1
           \/ tte > c.tte_skew_start
      THEN << 1, 1 >>
      ELSE IF puke > 0 /\ tte <= puke THEN << c.tte_max_skew_multiplier, 1 >>
      ELSE << curve[2] + curve[1] * (c.tte_max_skew_multiplier - 1), curve[2] >>

InventorySkew(c, position, tte) ==
  LET error    == InventoryError(c, position)
      room     == InventoryRoom(c, position)
      pressure == NonlinearPressure(c, Lesser(room, Magnitude(error)), room)
      urgency  == TteMultiplier(c, tte)
      skew     == RoundDiv(pressure[1] * c.max_inventory_skew_tick * urgency[1],
                           pressure[2] * urgency[2])
  IN  IF c.max_inventory_lots <= 0 \/ c.max_inventory_skew_tick = 0 THEN 0
      ELSE IF error < 0 THEN -skew ELSE skew

\* The side that lengthens the position grows as the position falls short of the target
\* and shrinks as it exceeds it; the other side does the reverse.
ScaledSize(c, position, side) ==
  LET room  == InventoryRoom(c, position)
      error == ClampTick(InventoryError(c, position), -room, room)
      parts == IF side = "Bid" THEN room - error ELSE room + error
      most  == Greater(10000, c.max_quote_size_multiplier_bps)
  IN  IF parts * 10000 > most * room THEN RoundDiv(c.base_quote_size_lots * most, 10000)
      ELSE RoundDiv(c.base_quote_size_lots * parts, room)

SideEnabled(c, side) == IF side = "Bid" THEN c.enable_bid_quotes ELSE c.enable_ask_quotes

SideRoom(c, position, side) ==
  Greater(0, IF side = "Bid" THEN c.max_inventory_lots - position
             ELSE position - c.min_inventory_lots)

QuoteSize(c, d, position, side) ==
  IF ~ SideEnabled(c, side) \/ c.base_quote_size_lots <= 0 THEN 0
  ELSE Lesser(ScaledSize(c, position, side),
              Lesser(SideRoom(c, position, side),
                     SideDepth(IF side = "Bid" THEN d.asks ELSE d.bids)))

-----------------------------------------------------------------------------
(* QuoteEngine.                                                             *)

\* A price d ticks more generous to the market, and the more generous of two prices.
Aggress(side, price, ticks) == IF side = "Bid" THEN price + ticks ELSE price - ticks
Bolder(side, a, b) == IF side = "Bid" THEN Greater(a, b) ELSE Lesser(a, b)
Shyer(side, a, b) == IF side = "Bid" THEN Lesser(a, b) ELSE Greater(a, b)
EdgeToFair(side, fair, price) == IF side = "Bid" THEN fair - price ELSE price - fair

\* bid_reduces_inventory and ask_reduces_inventory.
Reduces(side, target, position) ==
  IF side = "Bid" THEN position < target ELSE position > target

InventoryErrorBps(c, position) ==
  Lesser(10000, (Magnitude(InventoryError(c, position)) * 10000) \div InventoryRoom(c, position))

\* How badly the position must come down: forced, urgent, passive or not at all.
Unwind(c, position) ==
  LET bps    == InventoryErrorBps(c, position)
      excess == Magnitude(InventoryError(c, position))
      Reached(value, limit) == limit > 0 /\ value >= limit
  IN  IF Reached(bps, c.forced_unwind_position_bps) THEN "forced"
      ELSE IF Reached(excess, c.urgent_reduce_excess_lots) THEN "urgent"
      ELSE IF \/ Reached(bps, c.passive_unwind_position_bps)
              \/ Reached(excess, c.passive_reduce_excess_lots)
      THEN "passive" ELSE "none"

\* reduce_qty_cap for a side that reduces.
ReduceQtyCap(c, position, side, forced) ==
  LET free  == forced \/ ~ c.reduce_only_quote_to_target
  IN  IF side = "Ask"
      THEN position - (IF free THEN c.min_inventory_lots ELSE c.target_position_lots)
      ELSE (IF free THEN c.max_inventory_lots ELSE c.target_position_lots) - position

\* passive_join_bid_tick and passive_join_ask_tick: step ahead of the own side's best price.
JoinPrice(c, d, side) ==
  LET best == TopPrice(IF side = "Bid" THEN d.bids ELSE d.asks)
      step == Greater(1, c.passive_reduce_join_tick)
  IN  Shyer(side, Aggress(side, best, step),
            IF side = "Bid" THEN c.max_price_tick ELSE c.min_price_tick)

Pushed(c, side, price, ticks) ==
  IF ticks <= 0 THEN price
  ELSE Shyer(side, Aggress(side, price, ticks),
             IF side = "Bid" THEN c.max_price_tick ELSE c.min_price_tick)

\* The price of a side that reduces, by how badly the position must come down.
ReducePrice(c, d, side, price, unwind) ==
  CASE unwind = "forced"  -> TopPrice(IF side = "Bid" THEN d.asks ELSE d.bids)
    [] unwind = "urgent"  -> Pushed(c, side, Bolder(side, price, Midpoint(d)),
                                    c.urgent_unwind_aggression_tick)
    [] unwind = "passive" -> Pushed(c, side, Bolder(side, price, JoinPrice(c, d, side)),
                                    c.passive_unwind_aggression_tick)
    [] unwind = "none"    -> Bolder(side, price, JoinPrice(c, d, side))

RequiredEdge(c) ==
  Greater(0, c.min_quote_edge_tick + c.fee_buffer_tick + c.latency_buffer_tick
             + c.adverse_selection_buffer_tick)

\* make_leg.
QuoteLeg(price, lots, reducing) == [price |-> price, lots |-> lots, reducing |-> reducing]

\* An opening side stays on its side of the fair value.
StartPrice(side, price, fair, reducing) ==
  IF reducing THEN price ELSE Shyer(side, price, Aggress(side, fair, -1))

\* One side of build: the leg, or nothing.  A side that does not reduce is quoted only
\* while nothing has to be unwound, and only for the edge it requires.
SideLeg(c, d, fair, position, side, price, unwind) ==
  LET reducing == Reduces(side, c.target_position_lots, position)
      size     == QuoteSize(c, d, position, side)
      lots     == IF reducing
                  THEN Lesser(size, ReduceQtyCap(c, position, side, unwind = "forced"))
                  ELSE size
      external == ~ c.require_external_fair_for_opening_quotes \/ fair.external > 0
      allowed  == IF unwind = "none"
                  THEN /\ external \/ reducing
                       /\ EdgeToFair(side, fair.fair, price) >= RequiredEdge(c)
                  ELSE reducing
      final    == IF reducing THEN ReducePrice(c, d, side, price, unwind) ELSE price
  IN  IF /\ lots > 0 /\ allowed
         /\ price >= c.min_price_tick /\ price <= c.max_price_tick
      THEN << QuoteLeg(ClampTick(final, c.min_price_tick, c.max_price_tick), lots, reducing) >>
      ELSE << >>

Legs(bid, ask) ==
  [s \in {t \in QuoteSide : (IF t = "Bid" THEN bid ELSE ask) # << >>} |->
     (IF s = "Bid" THEN bid ELSE ask)[1]]

TwoSided(legs) == DOMAIN legs = QuoteSide

\* Faulty variant: a quote that crosses itself is left as it is.
UncrossedNever(legs) == legs

\* resolve_self_crossed_mixed_quote: the side that reduces stays; no side stays when both
\* or neither do, which the callers take for a failure.
Uncrossed(legs) ==
  IF ~ TwoSided(legs) THEN legs
  ELSE IF legs["Bid"].price < legs["Ask"].price THEN legs
  ELSE IF legs["Bid"].reducing = legs["Ask"].reducing THEN << >>
  ELSE [s \in {t \in QuoteSide : legs[t].reducing} |-> legs[s]]

\* classify_risk_mode.
RiskMode(type, legs) ==
  LET reducing == {s \in DOMAIN legs : legs[s].reducing}
  IN  IF reducing = {} THEN "Opening"
      ELSE IF reducing # DOMAIN legs THEN "Mixed"
      ELSE IF type = "ForcedUnwind" THEN "ForcedReduce" ELSE "ReduceOnly"

-----------------------------------------------------------------------------
(* RewardAwareQuoteConstraint.  A reward snapshot is a sequence of          *)
(* [condition, tokens, max_spread, min_size]; << >> stands for none.        *)

IsUnwind(type) == type \in {"PassiveUnwind", "ForcedUnwind"}

\* find_reward_market: the first that lists the asset or is the market.
RewardMarkets(snapshot, asset, market) ==
  SelectSeq(snapshot, LAMBDA m : asset \in m.tokens \/ m.condition = market)

NoReward == [present |-> FALSE, eligible |-> FALSE, max_spread |-> 0, min_size |-> 0]

RaiseOpeningSize(legs, min_size) ==
  [s \in DOMAIN legs |->
     IF legs[s].reducing THEN legs[s] ELSE [legs[s] EXCEPT !.lots = Greater(@, min_size)]]

\* The prices clamp_two_sided_spread chooses, from the bid and, when the ceiling stops the
\* ask, from the ask.
SpreadPrices(c, fair, most) ==
  LET half == Greater(1, most \div 2)
      Tick(x) == ClampTick(x, c.min_price_tick, c.max_price_tick)
      bid  == Tick(fair - half)
      ask  == Tick(bid + most)
  IN  IF ask - bid <= most THEN << bid, ask >>
      ELSE << Tick(Tick(fair + half) - most), Tick(fair + half) >>

ClampTwoSidedSpread(legs, c, fair, most) ==
  LET prices == SpreadPrices(c, fair, most)
  IN  IF ~ TwoSided(legs) \/ most <= 0 THEN legs
      ELSE IF legs["Ask"].price - legs["Bid"].price <= most THEN legs
      ELSE IF prices[1] >= prices[2] THEN << >>
      ELSE [legs EXCEPT !["Bid"].price = prices[1], !["Ask"].price = prices[2]]

RewardEligible(legs, min_size, most) ==
  /\ \A s \in DOMAIN legs : ~ legs[s].reducing => legs[s].lots >= min_size
  /\ TwoSided(legs) /\ most > 0 => legs["Ask"].price - legs["Bid"].price <= most

\* apply: the legs and what the quote remembers of the reward market; no legs is a failure.
RewardConstraint(legs, type, c, fair, asset, market, snapshot) ==
  LET found  == RewardMarkets(snapshot, asset, market)
      size   == Greater(found[1].min_size, c.reward_min_size_lots_floor)
      most   == IF found[1].max_spread > 0
                THEN Greater(1, found[1].max_spread - c.reward_max_spread_tick_buffer) ELSE 0
      shaped == ClampTwoSidedSpread(RaiseOpeningSize(legs, size), c, fair, most)
  IN  IF \/ ~ c.reward_aware_quotes_enabled
         \/ IsUnwind(type) /\ c.reward_allow_unwind_exemption
      THEN [legs |-> legs, reward |-> NoReward]
      ELSE IF found = << >> THEN [legs |-> legs, reward |-> NoReward]
      ELSE [legs   |-> shaped,
            reward |-> [present |-> TRUE, eligible |-> RewardEligible(shaped, size, most),
                        max_spread |-> found[1].max_spread, min_size |-> size]]

-----------------------------------------------------------------------------
(* The quote, its hash, and QuoteEngine::build.  in is                      *)
(* [asset, market, depth, complement, position, tte, now, reward].          *)

\* quote_group_id.
QuoteGroup(c, asset) == << "quote", c.strategy_id, asset >>

\* compute_quote_intent_hash.
IntentHash(q) ==
  << q.group, q.type, q.fair, q.target, q.position, q.created, q.expires, q.legs >>

MakeQuote(c, in, fair, type, shaped) ==
  [group |-> QuoteGroup(c, in.asset), asset |-> in.asset, type |-> type, fair |-> fair.fair,
   target |-> c.target_position_lots, position |-> in.position, created |-> in.now,
   expires |-> in.now + c.quote_ttl, legs |-> shaped.legs, reward |-> shaped.reward,
   mode |-> RiskMode(type, shaped.legs)]

\* The legs that survive the reward constraint and a second look at crossing.
Finished(c, in, fair, type, legs) ==
  LET shaped == RewardConstraint(legs, type, c, fair.fair, in.asset, in.market, in.reward)
      final  == [shaped EXCEPT !.legs = Uncrossed(@)]
  IN  IF DOMAIN legs = {} THEN << >>
      ELSE IF DOMAIN final.legs = {} THEN << >>
      ELSE << MakeQuote(c, in, fair, type, final) >>

\* build, once the fair value is there: the quote or nothing.  clamp_quote_prices fails
\* when the clamped prices meet.
Build(c, in, fair, active) ==
  LET reservation == fair.fair - InventorySkew(c, in.position, in.tte)
      bid    == ClampTick(reservation - HalfSpread(c), c.min_price_tick, c.max_price_tick)
      ask    == ClampTick(reservation + HalfSpread(c), c.min_price_tick, c.max_price_tick)
      unwind == Unwind(c, in.position)
      type   == CASE unwind = "forced" -> "ForcedUnwind"
                  [] unwind \in {"urgent", "passive"} -> "PassiveUnwind"
                  [] unwind = "none" -> IF active THEN "ReplaceQuote" ELSE "PlaceQuote"
      Leg(side, price) ==
        SideLeg(c, in.depth, fair, in.position, side,
                StartPrice(side, price, fair.fair,
                           Reduces(side, c.target_position_lots, in.position)), unwind)
  IN  IF bid <= 0 \/ bid >= ask THEN << >>
      ELSE Finished(c, in, fair, type, Uncrossed(Legs(Leg("Bid", bid), Leg("Ask", ask))))

-----------------------------------------------------------------------------
(* QuoteRefreshPolicy.                                                      *)

LegShapeMatches(active, candidate, tolerance) ==
  /\ active.lots = candidate.lots
  /\ Magnitude(active.price - candidate.price) <= Greater(0, tolerance)

QuoteShapeMatches(active, candidate, tolerance) ==
  /\ DOMAIN active.legs = DOMAIN candidate.legs
  /\ \A s \in DOMAIN active.legs :
       LegShapeMatches(active.legs[s], candidate.legs[s], tolerance)

InsideRequoteCooldown(active, c, now) ==
  /\ c.min_requote_interval > 0
  /\ now >= active.created /\ now - active.created < c.min_requote_interval

\* quote_expired.
QuoteExpired(q, now) == q.expires # 0 /\ now >= q.expires

BadBook(d) == ~ d.usable \/ d.recovering \/ d.crossed \/ d.closed \/ d.resolved

Keep == [cancel |-> FALSE, replace |-> FALSE, reason |-> "none"]
CancelFor(reason) == [cancel |-> TRUE, replace |-> FALSE, reason |-> reason]
ReplaceFor(reason) == [cancel |-> TRUE, replace |-> TRUE, reason |-> reason]

\* evaluate; a missing quote is << >>.
Refresh(active, candidate, d, c, position, now) ==
  IF BadBook(d)
  THEN IF active = << >> THEN Keep
       ELSE CancelFor(IF d.closed \/ d.resolved THEN "MarketHalted" ELSE "BookStale")
  ELSE IF active = << >> THEN [Keep EXCEPT !.replace = candidate # << >>]
  ELSE IF QuoteExpired(active[1], now)
  THEN [CancelFor("QuoteExpired") EXCEPT !.replace = candidate # << >>]
  ELSE IF candidate = << >> THEN CancelFor("RiskDegraded")
  ELSE IF \/ QuoteShapeMatches(active[1], candidate[1], c.min_quote_price_change_tick)
          \/ InsideRequoteCooldown(active[1], c, now)
  THEN Keep
  ELSE IF Magnitude(candidate[1].fair - active[1].fair) >= c.requote_threshold_tick
  THEN ReplaceFor("FairValueMoved")
  ELSE IF Magnitude(position - active[1].position) >= c.inventory_requote_threshold_lots
  THEN ReplaceFor("InventoryChanged")
  ELSE IF IntentHash(candidate[1]) # IntentHash(active[1]) THEN ReplaceFor("ReplacedByNewQuote")
  ELSE Keep

-----------------------------------------------------------------------------
(* MarketMakingEngine.  Its QuoteBook is a function from assets to quotes.  *)

\* The configuration of one update: an external value, the inventory bounds unless all are
\* zero, the half spread and the skew the caller gives, and the sides it disables.
Effective(c, over) ==
  LET bounded == over.target # 0 \/ over.min # 0 \/ over.max # 0
  IN  [c EXCEPT
         !.external_fair_value_tick = IF over.external > 0 THEN over.external ELSE @,
         !.target_position_lots = IF bounded THEN over.target ELSE @,
         !.min_inventory_lots = IF bounded THEN over.min ELSE @,
         !.max_inventory_lots = IF bounded THEN over.max ELSE @,
         !.min_half_spread_tick = IF over.half_spread > 0 THEN over.half_spread
                                  ELSE Greater(@, over.min_half_spread),
         !.max_inventory_skew_tick = IF over.skew > 0 THEN over.skew ELSE @,
         !.enable_bid_quotes = @ /\ ~ over.disable_bid,
         !.enable_ask_quotes = @ /\ ~ over.disable_ask]

\* QuoteBook: find, upsert and remove.
Found(book, asset) == IF asset \in DOMAIN book THEN << book[asset] >> ELSE << >>
Upsert(book, asset, q) == [a \in DOMAIN book \cup {asset} |-> IF a = asset THEN q ELSE book[a]]
RemoveQuote(book, asset) == [a \in DOMAIN book \ {asset} |-> book[a]]

\* What on_market_update returns, given the decision: the book it leaves, the quote to
\* place and the quote to cancel, if any.
Emitted(book, asset, active, candidate, refresh) ==
  LET cancelled == IF refresh.cancel THEN active ELSE << >>
      left      == IF cancelled = << >> THEN book ELSE RemoveQuote(book, asset)
      placed    == IF active = << >> \/ refresh.replace THEN candidate ELSE << >>
  IN  [book    |-> IF placed = << >> THEN left ELSE Upsert(left, asset, placed[1]),
       quotes  |-> placed,
       cancels |-> cancelled]

\* on_market_update.
OnMarketUpdate(book, c, in) ==
  LET active == Found(book, in.asset)
      Candidate(fair) ==
        IF fair.quality = "Valid" THEN Build(c, in, fair, active # << >>) ELSE << >>
      Answer(candidate) ==
        Emitted(book, in.asset, active, candidate,
                Refresh(active, candidate, in.depth, c, in.position, in.now))
  IN  Answer(Candidate(FairValue(in.depth, c, in.now, in.complement)))

-----------------------------------------------------------------------------
(* QuoteRiskEvaluator (engine/risk/quote): the last word on a quote of the  *)
(* strategy.  The input in is [quote, depth, policy, position,              *)
(* active_quotes, last_replace, now, spot_age, vol_age,                     *)
(* external_confidence, projected_exposure, touch_exposure].  The evaluator *)
(* returns at the first test that fails, so the tests are a sequence of     *)
(* [fails, decision] and the decision is that of the first.                 *)

QuoteRiskDecisionType ==
  {"Approve", "RejectInvalidQuote", "RejectKillSwitch", "RejectStaleSpot", "RejectStaleVol",
   "RejectLowExternalConfidence", "RejectCanonicalExposureLimit", "RejectPortfolioTouchLimit",
   "RejectExpiredQuote", "RejectBookNotUsable", "RejectCrossedBook", "RejectStaleBook",
   "RejectSpreadTooWide", "RejectSpreadTooTight", "RejectRewardConfigMissing",
   "RejectRewardSpreadTooWide", "RejectRewardSizeTooSmall", "RejectFairValueDeviation",
   "RejectUnsupportedSide", "RejectExposureLimit", "RejectInventoryLimit",
   "RejectDuplicateQuote", "RejectQuoteTooFrequent", "RejectLowEdgeToFair"}

Test(fails, decision) == [fails |-> fails, decision |-> decision]

\* notional of a leg, saturating.
Notional(leg) == IF leg.price > 0 /\ leg.lots > 0 THEN Saturate(leg.price * leg.lots) ELSE 0

\* fair_deviation_threshold: the tighter of the two limits that are set.
DeviationThreshold(fair, p) ==
  LET byTick == Greater(0, p.max_quote_fair_deviation_tick)
      byBps  == BpsToTick(fair, p.max_quote_fair_deviation_bps)
  IN  IF byTick > 0 /\ byBps > 0 THEN Lesser(byTick, byBps) ELSE Greater(byTick, byBps)

\* quote_deviates_too_far.
DeviatesTooFar(leg, fair, p) ==
  Exceeds(Magnitude(leg.price - fair), DeviationThreshold(fair, p))

SpreadBps(spread, fair) == IF spread <= 0 \/ fair <= 0 THEN 0 ELSE (spread * 10000) \div fair

-----------------------------------------------------------------------------
(* What risk derives itself about a side, whatever the strategy claims.     *)

ReducesAtRisk(in, side) == Reduces(side, in.quote.target, in.position)

\* The two exemptions: from the distance to fair, and from the minimum spread and quantity.
FairExempt(in, side) ==
  ReducesAtRisk(in, side) /\ (in.quote.legs[side].reducing \/ IsUnwind(in.quote.type))
SizeExempt(in, side) == ReducesAtRisk(in, side) /\ in.quote.legs[side].reducing

\* reducible_qty_lots for a side that reduces: a forced unwind may go on to an empty
\* position, anything else stops at the target.
ReducibleLots(in, side) ==
  LET forced == in.quote.type = "ForcedUnwind"
  IN  IF side = "Ask"
      THEN IF forced THEN Greater(0, in.position) ELSE in.position - in.quote.target
      ELSE IF forced /\ in.position < 0 THEN -in.position ELSE in.quote.target - in.position

PositionAfter(in, side) ==
  IF side = "Bid" THEN in.position + in.quote.legs[side].lots
  ELSE in.position - in.quote.legs[side].lots

-----------------------------------------------------------------------------
(* The tests, in groups, in the order of evaluate.                          *)

SideTest(in, Fails(_, _), decision) ==
  Test(\E s \in DOMAIN in.quote.legs : Fails(in, s), decision)

InputTests(in) ==
  LET p == in.policy
  IN  << Test(in.quote.type \notin QuoteIntentType, "RejectInvalidQuote"),
         Test(p.quote_kill_switch_enabled, "RejectKillSwitch"),
         Test(Exceeds(in.spot_age, p.max_spot_age), "RejectStaleSpot"),
         Test(Exceeds(in.vol_age, p.max_vol_age), "RejectStaleVol"),
         Test(in.external_confidence < Greater(0, p.min_external_confidence_bps),
              "RejectLowExternalConfidence"),
         Test(Exceeds(Magnitude(in.projected_exposure), p.max_canonical_yes_exposure_lots),
              "RejectCanonicalExposureLimit"),
         Test(Exceeds(Magnitude(in.touch_exposure), p.max_portfolio_touch_exposure_lots),
              "RejectPortfolioTouchLimit"),
         Test(in.quote.expires <= in.now, "RejectExpiredQuote") >>

BookTests(in) ==
  LET p == in.policy  d == in.depth  spread == TopPrice(d.asks) - TopPrice(d.bids)
  IN  << Test(~ d.usable, "RejectBookNotUsable"),
         Test(d.crossed, "RejectCrossedBook"),
         Test(d.recovering \/ d.closed \/ d.resolved, "RejectBookNotUsable"),
         Test(TopPrice(d.bids) <= 0 \/ TopPrice(d.asks) <= 0, "RejectBookNotUsable"),
         Test(spread <= 0, "RejectCrossedBook"),
         Test(\/ Exceeds(spread, p.max_book_spread_tick)
              \/ Exceeds(SpreadBps(spread, in.quote.fair), p.max_book_spread_bps),
              "RejectSpreadTooWide"),
         Test(Exceeds(in.now - d.recv, p.max_book_age), "RejectStaleBook") >>

ShapeTests(in) ==
  LET legs == in.quote.legs
  IN  << Test(DOMAIN legs = {}, "RejectInvalidQuote"),
         SideTest(in, LAMBDA i, s : legs[s].price <= 0 \/ legs[s].lots <= 0,
                  "RejectInvalidQuote"),
         Test(TwoSided(legs) /\ legs["Bid"].price >= legs["Ask"].price, "RejectCrossedBook"),
         SideTest(in, LAMBDA i, s : IsUnwind(i.quote.type) /\ ~ ReducesAtRisk(i, s),
                  "RejectInvalidQuote") >>

\* reward_gate_exempt, and the limits of the policy, which go before those of the market.
RewardTests(in) ==
  LET p    == in.policy
      q    == in.quote
      gate == /\ p.reward_eligibility_required
              /\ ~ (/\ p.allow_reward_exemption_for_reduce_only
                    /\ q.mode \in {"ReduceOnly", "ForcedReduce"} \/ IsUnwind(q.type))
      most == IF p.reward_max_spread_tick > 0 THEN p.reward_max_spread_tick ELSE q.reward.max_spread
      size == IF p.reward_min_quote_size_lots > 0 THEN p.reward_min_quote_size_lots
              ELSE q.reward.min_size
  IN  << Test(gate /\ ~ q.reward.present, "RejectRewardConfigMissing"),
         Test(/\ gate /\ TwoSided(q.legs)
              /\ Exceeds(q.legs["Ask"].price - q.legs["Bid"].price, most),
              "RejectRewardSpreadTooWide"),
         SideTest(in, LAMBDA i, s : gate /\ ~ q.legs[s].reducing /\ q.legs[s].lots < size,
                  "RejectRewardSizeTooSmall") >>

PriceTests(in) ==
  LET p == in.policy  q == in.quote
  IN  << SideTest(in, LAMBDA i, s : /\ TopPrice(i.depth.asks) - TopPrice(i.depth.bids)
                                         < p.min_book_spread_tick
                                    /\ ~ SizeExempt(i, s), "RejectSpreadTooTight"),
         SideTest(in, LAMBDA i, s : ~ FairExempt(i, s)
                                      /\ EdgeToFair(s, q.fair, q.legs[s].price) <= 0,
                  "RejectFairValueDeviation"),
         SideTest(in, LAMBDA i, s : ~ FairExempt(i, s) /\ DeviatesTooFar(q.legs[s], q.fair, p),
                  "RejectFairValueDeviation"),
         SideTest(in, LAMBDA i, s : /\ ~ (IF s = "Bid" THEN p.allow_bid_quotes
                                          ELSE p.allow_ask_quotes)
                                    /\ ~ ReducesAtRisk(i, s), "RejectUnsupportedSide") >>

\* What the sides that are not exempt commit.
OpeningNotional(in) ==
  LET Of(s) == IF s \in DOMAIN in.quote.legs
               THEN IF SizeExempt(in, s) THEN 0 ELSE Notional(in.quote.legs[s])
               ELSE 0
  IN  Of("Bid") + Of("Ask")

SizeTests(in) ==
  LET p == in.policy  q == in.quote
  IN  << SideTest(in, LAMBDA i, s : ReducesAtRisk(i, s) /\ q.legs[s].lots > ReducibleLots(i, s),
                  "RejectInvalidQuote"),
         SideTest(in, LAMBDA i, s : Exceeds(q.legs[s].lots, p.max_quote_qty_lots)
                                      /\ ~ SizeExempt(i, s), "RejectExposureLimit"),
         SideTest(in, LAMBDA i, s : /\ ~ ReducesAtRisk(i, s)
                                    /\ Exceeds(Magnitude(PositionAfter(i, s)),
                                               p.max_asset_inventory_lots),
                  "RejectInventoryLimit"),
         Test(Exceeds(OpeningNotional(in), p.max_quote_notional_tick), "RejectExposureLimit"),
         Test(in.active_quotes >= p.max_active_quotes_per_asset, "RejectDuplicateQuote"),
         Test(/\ q.type = "ReplaceQuote" /\ in.last_replace > 0 /\ in.now > in.last_replace
              /\ in.now - in.last_replace < p.min_replace_interval, "RejectQuoteTooFrequent"),
         SideTest(in, LAMBDA i, s : /\ ~ ReducesAtRisk(i, s) /\ ~ IsUnwind(q.type)
                                    /\ EdgeToFair(s, q.fair, q.legs[s].price)
                                         < p.min_edge_to_fair_tick,
                  "RejectLowEdgeToFair") >>

\* The decision of the first test that fails.
FirstFailure(tests) ==
  LET failing == {i \in DOMAIN tests : tests[i].fails}
  IN  IF failing = {} THEN "Approve"
      ELSE tests[CHOOSE i \in failing : \A j \in failing : i <= j].decision

\* evaluate.
EvaluateQuote(in) ==
  FirstFailure(InputTests(in) \o BookTests(in) \o ShapeTests(in) \o RewardTests(in)
               \o PriceTests(in) \o SizeTests(in))

\* The ApprovedQuote, as the maker adapter takes it; its id is compute_approved_quote_hash.
Approved(q, now) ==
  [id |-> << IntentHash(q), now >>, group |-> q.group, hash |-> IntentHash(q),
   asset |-> q.asset, legs |-> q.legs, expires |-> q.expires]
=============================================================================
