------------------------------ MODULE MCSignal ------------------------------
(* Two bundles that share an asset, over three assets of two markets.            *)
EXTENDS SignalEngine

Leg(market, asset, lots) == [market |-> market, asset |-> asset, side |-> "Buy", quantity_lots |-> lots]
Level(price, size) == [price_tick |-> price, size |-> size]

MCAssets == {"a", "b", "c"}

\* The first buys both outcomes of a market.  The second buys two lots of one asset for one
\* of another, and stops being valid when the market of the other resolves.
MCBundles ==
  << [bundle_id |-> 1, legs |-> <<Leg("m", "a", 1), Leg("m", "b", 1)>>,
      guaranteed_payout_tick |-> 10, min_edge_tick |-> 1,
      required_true |-> {}, required_false |-> {}, invalid |-> {}],
     [bundle_id |-> 2, legs |-> <<Leg("n", "c", 1), Leg("m", "a", 2)>>,
      guaranteed_payout_tick |-> 16, min_edge_tick |-> 0,
      required_true |-> {}, required_false |-> {}, invalid |-> {"n"}] >>

MCAskSides == {<<Level(4, 2)>>, <<Level(3, 1), Level(6, 3)>>, << >>}

MCOpeningBooks ==
  { "a" :> <<Level(3, 1), Level(6, 3)>> @@ "b" :> <<Level(4, 2)>> @@ "c" :> <<Level(4, 2)>>,
    "a" :> <<Level(4, 2)>> @@ "c" :> <<Level(3, 1), Level(6, 3)>> }

MCConditions ==
  { GoodCondition,
    [marks |-> {"closed"}, quality |-> "Closed", usable_for_depth |-> FALSE, usable_for_signal |-> FALSE],
    [marks |-> {}, quality |-> "ChainMismatch", usable_for_depth |-> TRUE, usable_for_signal |-> FALSE] }

Tight == [DefaultSignalConfig EXCEPT !.max_intents_per_second = 1, !.intent_ttl_ns = 2]

\* Books stay fresh for longer than a mark lives, and every bundle is charged for.
Charged == [Tight EXCEPT !.max_lob_age_ns = 2, !.default_fee_tick = 1,
              !.default_latency_buffer_tick = 1, !.slippage_buffer_tick = 1]

MCSetups ==
  { [mode |-> "depth", ranked |-> TRUE, deduped |-> TRUE, config |-> Tight],
    [mode |-> "depth", ranked |-> TRUE, deduped |-> FALSE,
     config |-> [Tight EXCEPT !.max_intents_per_second = 3, !.max_snapshot_version_skew = 0]],
    [mode |-> "batch", ranked |-> FALSE, deduped |-> TRUE,
     config |-> [Tight EXCEPT !.emit_rejections = FALSE, !.min_unit_edge_tick = 2, !.max_intents_per_scan = 1]],
    [mode |-> "bundle", ranked |-> TRUE, deduped |-> TRUE,
     config |-> [Tight EXCEPT !.max_intents_per_second = 2, !.intent_ttl_ns = 0]],
    [mode |-> "depth", ranked |-> TRUE, deduped |-> TRUE, config |-> Charged] }

=============================================================================
