---------------------------- MODULE MCMarketState ----------------------------
(***************************************************************************)
(* Two assets of one market, and one asset outside the universe.  Prices   *)
(* 1 and 2 belong to asset a, 2 and 3 to asset b, so that a level that     *)
(* crosses over is seen.                                                   *)
(***************************************************************************)
EXTENDS MarketState

Level(p, s) == [price |-> p, size |-> s]

Ids == [assetId |-> "", tokenId |-> "", conditionId |-> "", marketId |-> "", market |-> "", eventId |-> ""]

Change(asset, side, p, s) == Level(p, s) @@ [side |-> side] @@ [Ids EXCEPT !.assetId = asset]

Object(type, asset) ==
  [type |-> type, bids |-> << >>, asks |-> << >>, keys |-> {}, changes |-> << >>, priceChanges |-> << >>,
   tick |-> None, newTick |-> None, bestBid |-> None, bestAsk |-> None, bid |-> None, ask |-> None,
   price |-> None, size |-> None, side |-> "missing", winner |-> ""]
  @@ [Ids EXCEPT !.assetId = asset, !.market = "m"]

Payload(kind, objects) == [kind |-> kind, codec |-> "None", objects |-> objects]

Book(asset, bids, asks) == [Object("book", asset) EXCEPT !.bids = bids, !.asks = asks]

TwoAssets ==
  [Object("price_change", "") EXCEPT !.keys = {"price_changes"},
     !.priceChanges = << Change("a", "BUY", 1, 2), Change("b", "SELL", 3, 1), Change("a", "SELL", 2, 0) >>]

MCPayloads ==
  { Payload("object", << Book("a", << Level(1, 1) >>, << Level(2, 1) >>) >>),
    Payload("array", << Book("a", << Level(1, 2), Level(0, 1) >>, << Level(2, Unparsable) >>),
                        Book("b", << Level(3, 1) >>, << Level(2, 1) >>) >>),
    Payload("array", << Book("c", << >>, << Level(1, 1) >>), [type |-> "notAnObject"],
                        Object("last_trade_price", "a"), Object("other", "b") >>),
    Payload("object", << TwoAssets >>),
    Payload("array", << [Object("price_change", "b") EXCEPT !.keys = {"changes"},
                           !.changes = << Change("", "bid", 2, 1), Change("", "neither", 2, 1) >>],
                        [Object("price_change", "a") EXCEPT !.side = "SELL", !.price = 1, !.size = One + 1] >>),
    Payload("array", << [Object("tick_size_change", "a") EXCEPT !.newTick = 1],
                        [Object("best_bid_ask", "a") EXCEPT !.bestBid = 1, !.ask = 1] >>),
    Payload("object", << [Object("market_resolved", "a") EXCEPT !.winner = "a"] >>),
    Payload("array", << Object("new_market", ""), Object("new_market", "a") >>),
    Payload("pong", << >>),
    Payload("malformed", << >>) }

Fill(id, lots, direction) ==
  [NoFill EXCEPT !.id = id, !.classification = "ChainConfirmed", !.mapping = "MappedFill", !.asset = "a",
                 !.market = "m", !.direction = direction, !.price = 1, !.lots = lots]

MCFills ==
  { Fill("f", 2, "BuyAggressor"), Fill("g", 1, "SellAggressor"),
    [Fill("f", 2, "BuyAggressor") EXCEPT !.classification = "ChainRemoved", !.removed = TRUE],
    [Fill("h", 1, "Unknown") EXCEPT !.mapping = "AmbiguousFill"] }

=============================================================================
