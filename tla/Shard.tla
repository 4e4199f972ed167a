-------------------------------- MODULE Shard --------------------------------
(***************************************************************************)
(* LOBShard (engine/state/shard) with what it owns: the entity store, the  *)
(* chain and settlement writers, the data quality of the asset seen last,  *)
(* and the snapshots it publishes.  MarketStateStore has one shard, so a   *)
(* shard here is the store.  The operators of the view, of the adapter and *)
(* of the filter follow.                                                   *)
(***************************************************************************)
EXTENDS EntityStore

CONSTANTS
  ShortWindow, LongWindow,           \* of ConfirmedTradeWindow: two and ten seconds
  WsStaleTimeout, ChainLagTimeout,   \* of DataQualityGate
  MaxSnapshotDepth,                  \* levels of a published side
  ActiveAssets, ActiveMarkets        \* the StateUniverse

-----------------------------------------------------------------------------
(* What a shard knows from the chain (engine/state/chain): the confirmed   *)
(* fills of an entity with their two time windows (ChainStateWriter,       *)
(* ConfirmedTradeWindow) and the settlement of a market                    *)
(* (SettlementStateWriter).  Both are values, changed by operators that    *)
(* return the new value and the result.                                    *)

NewTrades ==
  [version |-> 0, block |-> 0, seen |-> 0, hasLast |-> FALSE, price |-> 0, lots |-> 0, taker |-> "Unknown",
   buyShort |-> 0, sellShort |-> 0, buyLong |-> 0, sellLong |-> 0, unknown |-> 0, ambiguous |-> 0, removed |-> 0]

NoFill ==
  [id |-> "", classification |-> "Unknown", mapping |-> "UnmappedFill", removed |-> FALSE,
   asset |-> "", market |-> "", direction |-> "Unknown", price |-> 0, lots |-> 0, block |-> 0, time |-> 0]

NewChain == [states |-> << >>, fills |-> << >>, windows |-> << >>]

TradesOf(chain, id) == IF id \in DOMAIN chain.states THEN chain.states[id] ELSE NewTrades

WindowOf(chain, id) == IF id \in DOMAIN chain.windows THEN chain.windows[id] ELSE << >>

MapDirection(direction) ==
  CASE direction = "BuyAggressor" -> "Buy" [] direction = "SellAggressor" -> "Sell" [] OTHER -> "Unknown"

IsAmbiguous(fill) == "AmbiguousFill" \in {fill.classification, fill.mapping}

HasChainFill(fill) == fill.id # "" \/ fill.classification # "Unknown" \/ fill.mapping # "UnmappedFill"

ChainEntityId(ev) == FirstOf(<< ev.fill.asset, ev.asset, ev.fill.market, ev.market >>)

\* ConfirmedTradeWindow::mark_removed.
MarkRemoved(window, id) ==
  [i \in DOMAIN window |-> IF window[i].id = id THEN [window[i] EXCEPT !.removed = TRUE] ELSE window[i]]

\* ConfirmedTradeWindow::totals, one side of it.
Total(window, side, now, width) ==
  FoldLeft(LAMBDA sum, e : sum + IF e.removed \/ e.time > now \/ now - e.time > width \/ e.side # side
                                 THEN 0 ELSE e.lots,
           0, window)

\* refresh_windows.
RefreshWindows(t, window, now) ==
  [t EXCEPT !.buyShort = Total(window, "Buy", now, ShortWindow),
            !.sellShort = Total(window, "Sell", now, ShortWindow),
            !.buyLong = Total(window, "Buy", now, LongWindow),
            !.sellLong = Total(window, "Sell", now, LongWindow)]

\* The block only grows, the time of the last sighting is the fill's own.
SeenOnChain(t, fill) ==
  [t EXCEPT !.version = @ + 1, !.block = IF fill.block > @ THEN fill.block ELSE @, !.seen = fill.time]

\* A new state of an entity, its windows read again.
WithTrades(chain, id, t, now) ==
  [chain EXCEPT !.states = (id :> RefreshWindows(t, WindowOf(chain, id), now)) @@ @,
                !.windows = (id :> WindowOf(chain, id)) @@ @]

ChainResult(chain, code, id, changed) == [chain |-> chain, code |-> code, entity |-> id, changed |-> changed]

\* Faulty variant: a fill already applied is applied again.
AlreadyAppliedNever(chain, fill) == FALSE

AlreadyApplied(chain, fill) == fill.id # "" /\ fill.id \in DOMAIN chain.fills /\ ~ chain.fills[fill.id].removed

\* The branch of apply_confirmed that records the fill and its volume.
RecordFill(chain, id, fill, side) ==
  LET t == [SeenOnChain(TradesOf(chain, id), fill) EXCEPT !.hasLast = TRUE, !.price = fill.price,
                                                         !.lots = fill.lots, !.taker = side]
      entry == [id |-> fill.id, time |-> fill.time, side |-> side, lots |-> fill.lots, removed |-> FALSE]
      recorded == IF fill.id = "" THEN chain
                  ELSE [chain EXCEPT !.fills = (fill.id :> [entity |-> id, removed |-> FALSE]) @@ @,
                                     !.windows = (id :> Append(WindowOf(chain, id), entry)) @@ @]
  IN WithTrades(recorded, id, t, fill.time)

ApplyConfirmed(chain, ev) ==
  LET fill == ev.fill
      id == ChainEntityId(ev)
      side == MapDirection(fill.direction)
      t == SeenOnChain(TradesOf(chain, id), fill)
  IN CASE id = "" -> ChainResult(chain, "MissingEntityId", "", FALSE)
       [] AlreadyApplied(chain, fill) ->
            ChainResult(WithTrades(chain, id, t, fill.time), "DuplicateFill", id, TRUE)
       [] IsAmbiguous(fill) ->
            ChainResult(WithTrades(chain, id, [t EXCEPT !.ambiguous = @ + 1], fill.time), "AmbiguousFill", id, TRUE)
       [] side = "Unknown" ->
            ChainResult(WithTrades(chain, id, [t EXCEPT !.unknown = @ + 1], fill.time), "UnknownDirection", id, TRUE)
       [] OTHER -> ChainResult(RecordFill(chain, id, fill, side), "Applied", id, TRUE)

\* The fill is taken out of the window of the entity it was recorded for.
ApplyRemoved(chain, ev) ==
  LET fill == ev.fill
      id == ChainEntityId(ev)
      owner == chain.fills[fill.id].entity
      live == fill.id \in DOMAIN chain.fills /\ ~ chain.fills[fill.id].removed
      without == IF live
                 THEN [chain EXCEPT !.fills[fill.id].removed = TRUE,
                                    !.windows = (owner :> MarkRemoved(WindowOf(chain, owner), fill.id)) @@ @]
                 ELSE chain
      t == [SeenOnChain(TradesOf(chain, id), fill) EXCEPT !.removed = @ + 1]
  IN IF id = "" THEN ChainResult(chain, "MissingEntityId", "", FALSE)
     ELSE ChainResult(WithTrades(without, id, t, fill.time), "RemovedFill", id, TRUE)

\* ChainStateWriter::apply.
ApplyChain(chain, ev) ==
  CASE ev.type = "ChainRemovedFill" \/ ev.fill.removed \/ ev.fill.classification = "ChainRemoved" ->
         ApplyRemoved(chain, ev)
    [] ev.type = "ChainConfirmedFill" \/ HasChainFill(ev.fill) -> ApplyConfirmed(chain, ev)
    [] OTHER -> ChainResult(chain, "IgnoredNonChainEvent", "", FALSE)

-----------------------------------------------------------------------------
NewSettlement == [status |-> "Open", resolved |-> FALSE, winner |-> "", block |-> 0, version |-> 0]

\* SettlementStateWriter::apply_status, with the status of mark_closed and mark_resolved.
ApplyStatus(settlements, market, status, winner, block) ==
  LET old == IF market \in DOMAIN settlements THEN settlements[market] ELSE NewSettlement
      new == [old EXCEPT !.status = status, !.resolved = status = "Resolved", !.winner = winner,
                         !.block = block, !.version = @ + 1]
  IN IF market = "" THEN [settlements |-> settlements, changed |-> FALSE]
     ELSE [settlements |-> (market :> new) @@ settlements, changed |-> TRUE]

-----------------------------------------------------------------------------
(* DataQualityGate.                                                         *)

BookQuality == {"Unknown", "Good", "Stale", "Recovering", "Crossed", "ChainMismatch", "ChainLagging", "Closed", "Resolved"}

NewQuality ==
  [quality |-> "Unknown", wsLive |-> FALSE, chainLive |-> FALSE, wsSeen |-> 0, chainSeen |-> 0,
   depth |-> FALSE, signal |-> FALSE]

AgeExceeds(now, seen, timeout) == now # 0 /\ seen # 0 /\ now >= seen /\ now - seen > timeout

WsLive(known, e, now) == known /\ e.lastUpdate # 0 /\ ~ AgeExceeds(now, e.lastUpdate, WsStaleTimeout)

ChainLive(t, now) == t.seen # 0 /\ ~ AgeExceeds(now, t.seen, ChainLagTimeout)

CrossedBook(b) == b.crossed \/ (None \notin {b.bestBid, b.bestAsk} /\ b.bestBid > b.bestAsk)

SetUsability(q) == [q EXCEPT !.depth = q.quality \in {"Good", "ChainLagging", "ChainMismatch"},
                             !.signal = q.quality = "Good"]

\* evaluate, for the input the shard makes: no recent errors, no mismatches.
EvaluateQuality(known, e, t, now) ==
  SetUsability(
    [quality |-> CASE ~ known \/ ~ e.initialized \/ e.recovering \/ e.status = "Recovering" -> "Recovering"
                   [] e.closed \/ e.status = "Closed" -> "Closed"
                   [] e.book.resolved -> "Resolved"
                   [] CrossedBook(e.book) -> "Crossed"
                   [] ~ WsLive(known, e, now) -> "Stale"
                   [] ~ ChainLive(t, now) -> "ChainLagging"
                   [] OTHER -> "Good",
     wsLive |-> WsLive(known, e, now), chainLive |-> ChainLive(t, now),
     wsSeen |-> IF known THEN e.lastUpdate ELSE 0, chainSeen |-> t.seen, depth |-> FALSE, signal |-> FALSE])

-----------------------------------------------------------------------------
(* The shard.                                                               *)

NewShard(mode) ==
  [book |-> NewStore(mode), chain |-> NewChain, settlements |-> << >>, quality |-> NewQuality,
   qualityVersion |-> 0, legacyHash |-> << >>, published |-> << >>]

MarketStateEventType ==
  {"WsBookSnapshot", "WsBookDelta", "WsLifecycle", "WsHeartbeat", "ChainConfirmedFill", "ChainRemovedFill",
   "ChainSettlement", "DataQualityUpdate"}

AssetIdForEvent(ev) == FirstOf(<< ev.asset, ev.ws.asset, ev.ws.entity, ev.fill.asset >>)

MarketIdForEvent(ev) == FirstOf(<< ev.market, ev.ws.market, ev.fill.market >>)

\* refresh_quality's evaluation: now is the later of the two sightings.
QualityOf(shard, id) ==
  LET known == id \in DOMAIN shard.book.entities
      e == EntityOf(shard.book, id)
      t == TradesOf(shard.chain, id)
      ws == IF known THEN e.lastUpdate ELSE 0
  IN EvaluateQuality(known, e, t, IF t.seen > ws THEN t.seen ELSE ws)

NoopResult(id, changed) ==
  [code |-> "Noop", entity |-> id, changed |-> changed, mutation |-> [NoMutation EXCEPT !.publish = changed],
   bookVersion |-> 0, chainVersion |-> 0, qualityVersion |-> 0, versionHash |-> << >>,
   entityHash |-> << >>, fullHash |-> FALSE, published |-> FALSE]

FromBookResult(shard, r) == [shard |-> [shard EXCEPT !.book = r.store], result |-> r.result]

\* apply_book_event: LOBWriter hands the normalized event to the store.
ApplyBookEvent(shard, ev) == FromBookResult(shard, Apply(shard.book, ev.ws))

FromChainResult(shard, r, kind) ==
  [shard |-> [shard EXCEPT !.chain = r.chain],
   result |-> [NoopResult(r.entity, r.changed) EXCEPT !.chainVersion = TradesOf(r.chain, r.entity).version,
                                                      !.mutation.chain = r.changed, !.mutation.kind = kind]]

ApplyChainEvent(shard, ev) ==
  FromChainResult(shard, ApplyChain(shard.chain, ev),
                  IF ev.type = "ChainRemovedFill" THEN "ChainRemovedFill" ELSE "ChainFill")

\* A lifecycle event with a winner resolves the market, any other one closes it.
ApplySettlementEvent(shard, ev) ==
  LET market == MarketIdForEvent(ev)
      ws == ev.type = "WsLifecycle"
      r == IF ws /\ ev.ws.winner # ""
           THEN ApplyStatus(shard.settlements, market, "Resolved", ev.ws.winner, ev.ws.packet)
           ELSE ApplyStatus(shard.settlements, market, "Closed", "", IF ws THEN ev.ws.packet ELSE ev.seq)
  IN [shard |-> [shard EXCEPT !.settlements = r.settlements], result |-> NoopResult(market, r.changed)]

\* A settlement that changed makes the lifecycle event one that is published.
LifecycleResult(book, settled) ==
  [shard |-> settled.shard,
   result |-> IF settled.result.changed
              THEN [book EXCEPT !.changed = TRUE, !.mutation.lifecycle = TRUE,
                                !.mutation.publish = TRUE, !.mutation.kind = "Lifecycle"]
              ELSE book]

ApplyLifecycle(r, ev) == LifecycleResult(r.result, ApplySettlementEvent(r.shard, ev))

\* The switch of LOBShard::apply.
Dispatch(shard, ev) ==
  CASE ev.type \in {"WsBookSnapshot", "WsBookDelta", "WsHeartbeat"} -> ApplyBookEvent(shard, ev)
    [] ev.type = "WsLifecycle" -> ApplyLifecycle(ApplyBookEvent(shard, ev), ev)
    [] ev.type \in {"ChainConfirmedFill", "ChainRemovedFill"} -> ApplyChainEvent(shard, ev)
    [] ev.type = "ChainSettlement" -> ApplySettlementEvent(shard, ev)
    [] OTHER -> [shard |-> shard, result |-> NoopResult(AssetIdForEvent(ev), FALSE)]

\* Faulty variant: the quality is kept, a change of it is not published.
WithQualitySilent(r, new) ==
  [shard |-> [r.shard EXCEPT !.quality = new],
   result |-> [r.result EXCEPT !.qualityVersion = r.shard.qualityVersion,
                               !.mutation.publish = @ /\ ~ r.result.mutation.chain]]

\* The new quality replaces the one of the event before, whatever asset it was for; a difference
\* is a new version and is published.
WithQuality(r, new) ==
  LET differs == new # r.shard.quality
      version == r.shard.qualityVersion + IF differs THEN 1 ELSE 0
  IN [shard |-> [r.shard EXCEPT !.quality = new, !.qualityVersion = version],
      result |-> [r.result EXCEPT
                    !.qualityVersion = version, !.changed = @ \/ differs,
                    !.mutation.quality = differs, !.mutation.publish = @ \/ differs,
                    !.mutation.kind = IF differs /\ @ = "None" THEN "Quality" ELSE @]]

RefreshQuality(r, id) == IF id = "" THEN r ELSE WithQuality(r, QualityOf(r.shard, id))

ShardStatusFlags(shard, id) ==
  << IF id \in DOMAIN shard.book.entities THEN StatusFlags(shard.book.entities[id]) ELSE << >>,
     shard.quality.quality, shard.quality.wsLive, shard.quality.chainLive, shard.quality.depth, shard.quality.signal >>

SnapshotVersionHash(r, id) ==
  << IF id # "" THEN id ELSE r.result.entity, r.result.bookVersion, r.result.chainVersion, r.result.qualityVersion,
     IF id \in DOMAIN r.shard.book.entities THEN r.shard.book.entities[id].lastPacket ELSE r.result.bookVersion,
     TradesOf(r.shard.chain, id).block, ShardStatusFlags(r.shard, id) >>

\* The first levels of a side, best first: bids from the highest price, asks from the lowest.
TopLevels(side, isBids) ==
  LET RECURSIVE top(_, _)
      top(n, rest) == IF n = 0 \/ rest = {} THEN << >>
                      ELSE LET p == IF isBids THEN Max(rest) ELSE Min(rest)
                           IN  << [price |-> p, size |-> side[p]] >> \o top(n - 1, rest \ {p})
  IN top(MaxSnapshotDepth, Levels(side))

\* publish_asset_snapshot's copy of an entity, without the hashes.
SnapshotOf(shard, id) ==
  LET e == shard.book.entities[id]
      t == TradesOf(shard.chain, id)
  IN [market |-> e.market, version |-> e.lastPacket, updated |-> e.lastUpdate,
      live |-> e.status = "Live", recovering |-> e.recovering \/ e.status = "Recovering",
      closed |-> e.closed \/ e.status = "Closed", resolved |-> e.book.resolved, crossed |-> e.book.crossed,
      bestBid |-> e.book.bestBid, bestAsk |-> e.book.bestAsk, winner |-> e.book.winner,
      bids |-> TopLevels(e.book.bids, TRUE), asks |-> TopLevels(e.book.asks, FALSE),
      trades |-> << t.hasLast, t.price, t.lots, t.taker, t.buyShort, t.sellShort, t.buyLong, t.sellLong >>,
      quality |-> shard.quality.quality, depth |-> shard.quality.depth, signal |-> shard.quality.signal]

\* SnapshotPublisher::publish: the version of what is published always rises.
Versioned(published, asset, content) ==
  LET before == IF asset \in DOMAIN published THEN published[asset].content.version ELSE 0
  IN [content EXCEPT !.version = IF @ <= before THEN before + 1 ELSE @]

\* build_snapshot_context and publish_asset_snapshot: an asset the store does not know is not
\* published; the full hash is the last one there was.
PublishAssetSnapshot(r, id) ==
  LET asset == IF id # "" THEN id ELSE r.result.entity
      old == IF asset \in DOMAIN r.shard.legacyHash THEN r.shard.legacyHash[asset] ELSE << >>
      hash == IF r.result.fullHash /\ r.result.entityHash # << >> THEN r.result.entityHash ELSE old
      snapshot == [content |-> Versioned(r.shard.published, asset, SnapshotOf(r.shard, asset)),
                   hash |-> r.result.versionHash, state |-> hash]
  IN IF asset = "" \/ asset \notin DOMAIN r.shard.book.entities THEN r
     ELSE [shard |-> [r.shard EXCEPT !.published = (asset :> snapshot) @@ @],
           result |-> [r.result EXCEPT !.published = TRUE]]

WithVersionHash(r, id) == [r EXCEPT !.result.versionHash = SnapshotVersionHash(r, id)]

\* cached_legacy_book_hash_.
WithLegacyHash(r, id) ==
  IF id # "" /\ r.result.fullHash /\ r.result.entityHash # << >>
  THEN [r EXCEPT !.shard.legacyHash = (id :> r.result.entityHash) @@ @]
  ELSE r

PublishIfRequired(r, id) == IF r.result.mutation.publish THEN PublishAssetSnapshot(r, id) ELSE r

\* LOBShard::apply: the switch, then quality, hash, legacy hash and publication.
ApplyEvent(shard, ev) ==
  LET id == AssetIdForEvent(ev)
  IN PublishIfRequired(WithLegacyHash(WithVersionHash(RefreshQuality(Dispatch(shard, ev), id), id), id), id)

-----------------------------------------------------------------------------
(* MarketStateEventAdapter and MarketStateEventFilter.                      *)

\* Faulty variant: deltas are not book events.
WsEventTypeSnapshots(type) ==
  CASE type = "Snapshot" -> "WsBookSnapshot" [] type = "LifecycleEvent" -> "WsLifecycle" [] OTHER -> "DataQualityUpdate"

WsEventType(type) ==
  CASE type = "Snapshot" -> "WsBookSnapshot"
    [] type = "Delta" -> "WsBookDelta"
    [] type = "Heartbeat" -> "WsHeartbeat"
    [] type = "LifecycleEvent" -> "WsLifecycle"
    [] OTHER -> "DataQualityUpdate"

FromNormalizedEvent(ev) ==
  [type |-> WsEventType(ev.type), market |-> ev.market, asset |-> ev.asset, time |-> ev.time,
   seq |-> ev.packet, ws |-> ev, fill |-> NoFill]

FromClassifiedFill(fill, noEvent) ==
  [type |-> CASE fill.removed \/ fill.classification = "ChainRemoved" -> "ChainRemovedFill"
              [] fill.classification = "ChainConfirmed" -> "ChainConfirmedFill"
              [] OTHER -> "DataQualityUpdate",
   market |-> fill.market, asset |-> fill.asset, time |-> fill.time, seq |-> 0, ws |-> noEvent, fill |-> fill]

\* The reason an event is kept out, None if it passes; heartbeats and lifecycles of active
\* markets are let in, as the universe of the drivers says.
Filter(ev) ==
  LET asset == AssetIdForEvent(ev)
      market == MarketIdForEvent(ev)
  IN CASE ev.type \in {"WsLifecycle", "ChainSettlement"} ->
            CASE market = "" -> "MissingMarketId"
              [] market \in ActiveMarkets -> "None"
              [] OTHER -> "MarketNotInUniverse"
       [] ev.type \in {"WsBookSnapshot", "WsBookDelta", "ChainConfirmedFill", "ChainRemovedFill"} ->
            CASE asset = "" -> "MissingAssetId"
              [] asset \in ActiveAssets -> "None"
              [] market \in ActiveMarkets /\ ev.type \in {"WsBookSnapshot", "WsBookDelta"} ->
                   "PairedAssetNotInUniverse"
              [] OTHER -> "AssetNotInUniverse"
       [] OTHER -> "None"

-----------------------------------------------------------------------------
(* MarketStateView, on the published snapshots.                             *)

ExecutableError(s) ==
  CASE s.resolved -> "Resolved"
    [] s.closed -> "Closed"
    [] s.recovering -> "Recovering"
    [] s.crossed -> "CrossedBook"
    [] None \notin {s.bestBid, s.bestAsk} /\ s.bestBid > s.bestAsk -> "CrossedBook"
    [] OTHER -> "None"

ViewError(error) == [error |-> error, value |-> << >>]

GetSnapshot(published, id, depth) ==
  LET cut(side) == SubSeq(side, 1, IF depth < Len(side) THEN depth ELSE Len(side))
      s == published[id].content
  IN CASE depth \notin 1 .. MaxSnapshotDepth -> ViewError("InvalidDepth")
       [] id \notin DOMAIN published -> ViewError("MissingEntity")
       [] OTHER -> [error |-> "None", value |-> [s EXCEPT !.bids = cut(@), !.asks = cut(@)]]

\* get_best_bid and get_best_ask.
GetBest(published, id, side) ==
  LET s == published[id].content
      levels == IF side = "Bid" THEN s.bids ELSE s.asks
  IN CASE id \notin DOMAIN published -> ViewError("MissingEntity")
       [] ExecutableError(s) # "None" -> ViewError(ExecutableError(s))
       [] levels = << >> -> ViewError(IF side = "Bid" THEN "MissingBid" ELSE "MissingAsk")
       [] OTHER -> [error |-> "None", value |-> levels[1]]

GetBbo(published, id) ==
  LET bid == GetBest(published, id, "Bid")
      ask == GetBest(published, id, "Ask")
      s == published[id].content
  IN CASE id \notin DOMAIN published -> ViewError("MissingEntity")
       [] ExecutableError(s) # "None" -> ViewError(ExecutableError(s))
       [] s.bids = << >> /\ s.asks = << >> -> ViewError("EmptyBook")
       [] s.bids = << >> -> ViewError("MissingBid")
       [] s.asks = << >> -> ViewError("MissingAsk")
       [] OTHER -> [error |-> "None", value |-> [bid |-> bid.value, ask |-> ask.value]]

GetMidTick(published, id) ==
  LET bbo == GetBbo(published, id)
  IN IF bbo.error # "None" THEN bbo
     ELSE [error |-> "None", value |-> (bbo.value.bid.price + bbo.value.ask.price) \div 2]

GetSpreadTick(published, id) ==
  LET bbo == GetBbo(published, id)
  IN CASE bbo.error # "None" -> bbo
       [] bbo.value.ask.price < bbo.value.bid.price -> ViewError("CrossedBook")
       [] OTHER -> [error |-> "None", value |-> bbo.value.ask.price - bbo.value.bid.price]

=============================================================================
