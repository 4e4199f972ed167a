--------------------------- MODULE MCMakerTrading ---------------------------
(***************************************************************************)
(* A two-sided quote, its replacement in the same group (without a hash),  *)
(* and two quotes that reduce a position: the same leg, approved at        *)
(* different times.                                                        *)
(***************************************************************************)
EXTENDS LiveMaker

Leg(price, lots) == [price |-> price, lots |-> lots]

TwoSided == [id |-> 1, group |-> 1, hash |-> << 11 >>, asset |-> "yes", expires |-> 2,
             legs |-> [Bid |-> Leg(4, 2), Ask |-> Leg(6, 1)]]
Requote  == [id |-> 2, group |-> 1, hash |-> NoHash, asset |-> "yes", expires |-> 0,
             legs |-> [Bid |-> Leg(5, 1)]]
Reduce   == [id |-> 3, group |-> 2, hash |-> << 13 >>, asset |-> "yes", expires |-> 1,
             legs |-> [Ask |-> Leg(5, 2)]]
Reduce2  == [Reduce EXCEPT !.id = 4, !.expires = 2]

MCQuotes == {TwoSided, Requote, Reduce, Reduce2}

Event(price, lots, bids, asks) ==
  [asset |-> "yes", trade |-> Leg(price, lots), bids |-> bids, asks |-> asks]

Level(price, size) == << [price |-> price, size |-> size] >>

\* A trade at each end, a crossed book each way (once with less than a lot), and a trade of
\* another asset.
MCEvents ==
  {Event(4, 1, Level(3, 1), Level(4, 1)),
   Event(6, 2, Level(6, 1), Level(7, 0)),
   Event(5, 0, << >>, Level(3, 2)),
   [Event(4, 1, << >>, << >>) EXCEPT !.asset = "no"]}

MCExecutionFills == {[asset |-> "yes", side |-> "Buy", lots |-> 2, price |-> 5, fee |-> 1],
                     [asset |-> "yes", side |-> "Sell", lots |-> 1, price |-> 5, fee |-> 0],
                     [asset |-> "yes", side |-> "Buy", lots |-> 0, price |-> 0, fee |-> 0]}

MakerConfig(mode, partial, most) ==
  [mode |-> mode, allow_partial_fills |-> partial, max_fill_qty_per_trade |-> most,
   queue_min_rest |-> 1]

MCConfigs == {MakerConfig("Conservative", TRUE, 1), MakerConfig("Conservative", FALSE, 0),
              MakerConfig("BookCross", TRUE, 1), MakerConfig("MidCross", TRUE, 0),
              MakerConfig("QueueAware", TRUE, 0), MakerConfig("NoFill", TRUE, 0)}

MCClock == 0 .. 2

LiveConfig(enabled, sides, resting, most) ==
  [enabled |-> enabled, sides |-> sides, require_resting |-> resting, max_orders |-> most,
   max_notional |-> 8]

MCLiveConfigs == {LiveConfig(TRUE, Sides, TRUE, 2), LiveConfig(TRUE, Sides, FALSE, 2),
                  LiveConfig(TRUE, {"Bid"}, TRUE, 1), LiveConfig(FALSE, Sides, TRUE, 2)}
=============================================================================
