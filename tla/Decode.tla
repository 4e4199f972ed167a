------------------------------- MODULE Decode -------------------------------
(***************************************************************************)
(* The decode layer (engine/decode): JsonDecoder says what kind of payload *)
(* a packet carries, EventNormalizer turns its objects into normalized     *)
(* events, DecodePipeline collects them in a bounded batch; and the checks *)
(* of the feed on what was applied (engine/feed/integrity).                *)
(*                                                                         *)
(* A payload is a record [kind, codec, objects]; an object has its type,   *)
(* its identifiers ("" where the key is missing), its levels and its       *)
(* changes.  A number is the value the text parses to, Unparsable if it    *)
(* does not parse, None if the key is missing.                             *)
(***************************************************************************)
EXTENDS EntityStore

CONSTANTS MaxEvents   \* NormalizedEventBatch::kMaxEvents

Unparsable == -2

NormalizedEventType ==
  {"Snapshot", "Delta", "StatusChange", "LifecycleEvent", "TradeEvent", "Heartbeat", "DecodeError",
   "Unknown"}

NormalizedEvent(input) ==
  [type |-> "Unknown", raw |-> "", packet |-> input.packet, time |-> input.time,
   entity |-> "", asset |-> "", market |-> "", condition |-> "",
   bids |-> << >>, asks |-> << >>, changes |-> << >>,
   tick |-> None, bestBid |-> None, bestAsk |-> None, winner |-> ""]

\* An optional<double> field: a text that is not a number is no value.
Number(x) == IF x = Unparsable THEN None ELSE x

FirstNumber(x, y) == IF Number(x) # None THEN Number(x) ELSE Number(y)

-----------------------------------------------------------------------------
(* JsonDecoder.                                                             *)

\* The kinds of a payload: object, array, ping (every spelling but PONG and pong), pong, pongString
\* (a JSON string), scalar, malformed, empty.
DecodeErrorCode(kind) ==
  CASE kind \in {"object", "array"} -> "None"
    [] kind \in {"ping", "pong", "pongString"} -> "NonJsonControl"
    [] kind = "scalar" -> "UnsupportedJson"
    [] kind = "empty" -> "EmptyPayload"
    [] OTHER -> "MalformedJson"

\* DecodeError::ok.
DecodeOk(code) == code \in {"None", "NonJsonControl"}

-----------------------------------------------------------------------------
(* EventNormalizer.                                                         *)

ExtractEntityId(o) == FirstOf(<< o.assetId, o.tokenId, o.conditionId, o.marketId, o.market, o.eventId >>)

FillCommonIds(ev, o) ==
  [ev EXCEPT !.asset = FirstOf(<< o.assetId, o.tokenId >>), !.market = FirstOf(<< o.marketId, o.market >>),
             !.condition = o.conditionId, !.entity = ExtractEntityId(o)]

Base(input, o, type) == [FillCommonIds(NormalizedEvent(input), o) EXCEPT !.type = type, !.raw = o.type]

\* parse_book_level: a level with a number that is missing or does not parse is dropped.
ParseLevels(seq) == SelectSeq(seq, LAMBDA x : Number(x.price) # None /\ Number(x.size) # None)

ParseSide(text) ==
  CASE text \in {"BUY", "buy", "BID", "bid", "Bid"} -> "Bid"
    [] text \in {"SELL", "sell", "ASK", "ask", "Ask"} -> "Ask"
    [] OTHER -> "Unknown"

\* parse_price_level_change: the side, too, must be there ("missing" if it is not).
ParseChanges(seq) ==
  LET kept == SelectSeq(ParseLevels(seq), LAMBDA c : c.side # "missing")
  IN [i \in DOMAIN kept |-> [side |-> ParseSide(kept[i].side), price |-> kept[i].price, size |-> kept[i].size]]

NormalizeBook(input, o) ==
  [Base(input, o, "Snapshot") EXCEPT !.bids = ParseLevels(o.bids), !.asks = ParseLevels(o.asks),
                                     !.tick = Number(o.tick)]

\* first_price_change_asset_id: the first nested change that names an asset, else the fallback.
FirstPriceChangeAsset(o, fallback) ==
  FirstOf([i \in DOMAIN o.priceChanges |-> FirstOf(<< o.priceChanges[i].assetId, o.priceChanges[i].tokenId >>)]
          \o << fallback >>)

\* price_change_belongs_to_entity.
BelongsTo(change, entity) == entity = "" \/ ExtractEntityId(change) \in {"", entity}

NormalizePriceChange(input, o) ==
  LET ev == Base(input, o, "Delta")
      entity == FirstPriceChangeAsset(o, ev.entity)
      mine == CASE "changes" \in o.keys -> o.changes
                [] "price_changes" \in o.keys -> SelectSeq(o.priceChanges, LAMBDA c : BelongsTo(c, entity))
                [] OTHER -> << o >>
  IN [ev EXCEPT !.asset = FirstPriceChangeAsset(o, ev.asset), !.entity = entity, !.changes = ParseChanges(mine)]

NormalizeBestBidAsk(input, o) ==
  [Base(input, o, "StatusChange") EXCEPT !.bestBid = FirstNumber(o.bestBid, o.bid),
                                         !.bestAsk = FirstNumber(o.bestAsk, o.ask)]

NormalizeTickSizeChange(input, o) ==
  [Base(input, o, "StatusChange") EXCEPT !.tick = FirstNumber(o.tick, o.newTick)]

NormalizeLifecycle(input, o) == [Base(input, o, "LifecycleEvent") EXCEPT !.winner = o.winner]

\* The price of a trade goes into best_bid.
NormalizeTrade(input, o) == [Base(input, o, "TradeEvent") EXCEPT !.bestBid = Number(o.price)]

NormalizeUnknown(input, o) == Base(input, o, "Unknown")

NormalizeOneObject(input, o) ==
  CASE o.type = "book" -> NormalizeBook(input, o)
    [] o.type = "price_change" -> NormalizePriceChange(input, o)
    [] o.type = "best_bid_ask" -> NormalizeBestBidAsk(input, o)
    [] o.type = "tick_size_change" -> NormalizeTickSizeChange(input, o)
    [] o.type \in {"new_market", "market_resolved"} -> NormalizeLifecycle(input, o)
    [] o.type = "last_trade_price" -> NormalizeTrade(input, o)
    [] OTHER -> NormalizeUnknown(input, o)

\* An element of an array that is not an object is skipped with a warning.
NormalizeJson(input, objects) ==
  LET kept == SelectSeq(objects, LAMBDA o : o.type # "notAnObject")
  IN [i \in DOMAIN kept |-> NormalizeOneObject(input, kept[i])]

NormalizeControl(input, kind) ==
  << [NormalizedEvent(input) EXCEPT !.type = IF kind = "ping" THEN "Unknown" ELSE "Heartbeat", !.raw = kind] >>

-----------------------------------------------------------------------------
(* DecodePipeline::decode: the batch is cleared first, and is full at       *)
(* MaxEvents.                                                               *)

DecodePipeline(input) ==
  LET p == input.payload
      events == IF p.kind \in {"object", "array"} THEN NormalizeJson(input, p.objects)
                ELSE NormalizeControl(input, p.kind)
      batch == SubSeq(events, 1, IF Len(events) < MaxEvents THEN Len(events) ELSE MaxEvents)
  IN CASE p.codec # "None" -> [error |-> "UnsupportedCodec", events |-> << >>]
       [] ~ DecodeOk(DecodeErrorCode(p.kind)) -> [error |-> DecodeErrorCode(p.kind), events |-> << >>]
       [] Len(events) > MaxEvents -> [error |-> "InternalError", events |-> batch]
       [] OTHER -> [error |-> DecodeErrorCode(p.kind), events |-> batch]

-----------------------------------------------------------------------------
(* The checks of the feed on what it applied (engine/feed/integrity):      *)
(* ConsistencyChecker, StaleDetector, and RecoveryController, which turns  *)
(* their verdicts into an action.                                          *)

CONSTANTS SourceTimeout, EntityTimeout   \* of StaleDetector

ConsistencyCode ==
  {"Ok", "MissingEntityId", "DeltaBeforeSnapshot", "InvalidValue", "CrossedBook", "ExternalBboDiverged",
   "ClosedEntityMutation", "DecodeError", "UnknownEvent"}

RecoveryAction == {"None", "MarkUnsafe", "RequestSnapshot", "ReconnectSource"}

ValidOptionalPrice(p) == p = None \/ ValidPrice(p)

\* check_event: the first thing that is wrong, in the order of the code.
CheckEvent(ev) ==
  LET id == ResolveEntityId(ev)
      levels == \A i \in DOMAIN ev.bids : ValidLevel(ev.bids[i])
      asks == \A i \in DOMAIN ev.asks : ValidLevel(ev.asks[i])
      changes == \A i \in DOMAIN ev.changes : ev.changes[i].side # "Unknown" /\ ValidLevel(ev.changes[i])
  IN CASE ev.type = "Heartbeat" -> "Ok"
       [] ev.type = "Unknown" -> "UnknownEvent"
       [] ev.type = "DecodeError" -> "DecodeError"
       [] id = "" -> "MissingEntityId"
       [] ev.type = "TradeEvent" -> "Ok"
       [] ~ (levels /\ asks /\ changes) -> "InvalidValue"
       [] ~ (ValidOptionalPrice(ev.bestBid) /\ ValidOptionalPrice(ev.bestAsk)) -> "InvalidValue"
       [] None \notin {ev.bestBid, ev.bestAsk} /\ ev.bestBid > ev.bestAsk -> "CrossedBook"
       [] ev.tick # None /\ ~ ValidTickSize(ev.tick) -> "InvalidValue"
       [] OTHER -> "Ok"

CheckApplyResult(result) ==
  CASE result.code \in {"Applied", "IgnoredHeartbeat", "IgnoredTrade", "Noop"} -> "Ok"
    [] result.code \in {"InvalidValue", "UnknownSide"} -> "InvalidValue"
    [] result.code = "ClosedEntityIgnored" -> "ClosedEntityMutation"
    [] result.code = "IgnoredUnknown" -> "UnknownEvent"
    [] OTHER -> result.code

CheckEntityState(e) ==
  CASE e.status = "Inconsistent" /\ ~ e.book.crossed -> "InvalidValue"
    [] e.book.crossed -> "CrossedBook"
    [] None \notin {e.book.bestBid, e.book.bestAsk} /\ e.book.bestBid > e.book.bestAsk -> "CrossedBook"
    [] e.book.diverged -> "ExternalBboDiverged"
    [] OTHER -> "Ok"

\* check: the event, then the result, then the entity if there is one.
Check(ev, result, entities) ==
  CASE CheckEvent(ev) # "Ok" -> CheckEvent(ev)
    [] CheckApplyResult(result) # "Ok" -> CheckApplyResult(result)
    [] result.entity \in DOMAIN entities -> CheckEntityState(entities[result.entity])
    [] OTHER -> "Ok"

-----------------------------------------------------------------------------
AgeOrMax(now, seen) == IF seen > now THEN 0 ELSE now - seen

CheckSource(now, seen) == IF AgeOrMax(now, seen) > SourceTimeout THEN "SourceStale" ELSE "Ok"

CheckEntity(now, e) ==
  IF ~ e.closed /\ e.status # "Closed" /\ e.initialized /\ e.lastUpdate # 0
     /\ AgeOrMax(now, e.lastUpdate) > EntityTimeout
  THEN "EntityStale" ELSE "Ok"

-----------------------------------------------------------------------------
DecideConsistency(code) ==
  CASE code = "Ok" -> "None"
    [] code \in {"DeltaBeforeSnapshot", "CrossedBook", "ExternalBboDiverged"} -> "RequestSnapshot"
    [] OTHER -> "MarkUnsafe"

DecideStale(level) ==
  CASE level = "SourceStale" -> "ReconnectSource" [] level = "EntityStale" -> "RequestSnapshot" [] OTHER -> "None"

\* decide with both: staleness comes first.
Decide(code, level) == IF DecideStale(level) # "None" THEN DecideStale(level) ELSE DecideConsistency(code)
=============================================================================
