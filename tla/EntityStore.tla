---------------------------- MODULE EntityStore ----------------------------
(***************************************************************************)
(* EntityStateStore (engine/state): one order book per entity, changed by  *)
(* normalized events, with the StateHashCache over it.  The store is a     *)
(* value: Apply(store, event) is the store after the event and the result  *)
(* the caller gets, so that the modules that own a store apply it inside   *)
(* their own actions.                                                      *)
(*                                                                         *)
(* A price is a tick in 0 .. One, a number above One is out of range; a    *)
(* book side is a function from prices to sizes, 0 where there is no       *)
(* level.  A hash is modelled by what is hashed: equal hashes, equal       *)
(* content.                                                                *)
(***************************************************************************)
EXTENDS Integers, Sequences, FiniteSets, FiniteSetsExt, SequencesExt, TLC

CONSTANTS One   \* the price 1.0 in ticks

None == -1                 \* an optional without a value
Prices == 0 .. One
ValidPrice(p) == p \in Prices
ValidSize(s) == s >= 0
ValidTickSize(t) == t > 0

EntityStatus == {"Uninitialized", "Live", "Recovering", "Inconsistent", "Stale", "Closed"}

StateApplyCode ==
  {"Applied", "IgnoredHeartbeat", "IgnoredUnknown", "IgnoredTrade", "MissingEntityId",
   "DeltaBeforeSnapshot", "ClosedEntityIgnored", "UnknownSide", "InvalidValue", "Noop"}

NewBook ==
  [bids |-> [p \in Prices |-> 0], asks |-> [p \in Prices |-> 0],
   bestBid |-> None, bestAsk |-> None, externalBid |-> None, externalAsk |-> None,
   tick |-> None, crossed |-> FALSE, diverged |-> FALSE, resolved |-> FALSE, winner |-> ""]

NewEntity ==
  [market |-> "", status |-> "Uninitialized", initialized |-> FALSE, recovering |-> FALSE,
   inconsistent |-> FALSE, closed |-> FALSE, snapshots |-> 0, deltas |-> 0, statusChanges |-> 0,
   lifecycles |-> 0, ignored |-> 0, errors |-> 0, firstPacket |-> 0, lastPacket |-> 0,
   lastSnapshot |-> 0, lastUpdate |-> 0, book |-> NewBook]

NewCache == [entries |-> << >>, global |-> << >>, dirty |-> TRUE]

\* The constructor and reset(): no entity, no counter, an empty cache.
NewStore(mode) == [mode |-> mode, entities |-> << >>, cache |-> NewCache, errors |-> 0]

NoMutation ==
  [book |-> FALSE, chain |-> FALSE, quality |-> FALSE, lifecycle |-> FALSE, heartbeat |-> FALSE,
   publish |-> FALSE, kind |-> "None"]

-----------------------------------------------------------------------------
(* What StateHasher hashes.                                                 *)

HashOrderBook(b) == b

HashEntity(e) ==
  [status |-> e.status, flags |-> << e.initialized, e.recovering, e.inconsistent, e.closed >>,
   counters |-> << e.snapshots, e.deltas, e.statusChanges, e.lifecycles, e.ignored, e.errors >>,
   book |-> HashOrderBook(e.book)]

HashEntityMap(entities) == [id \in DOMAIN entities |-> HashEntity(entities[id])]

\* Faulty variant: only the hash of all entities is marked.
MarkDirtyGlobal(cache, id) == [cache EXCEPT !.dirty = TRUE]

\* StateHashCache: an entity's entry is made if there is none.
MarkDirty(cache, id) ==
  [entries |-> IF id \in DOMAIN cache.entries
               THEN [cache.entries EXCEPT ![id].dirty = TRUE]
               ELSE cache.entries @@ (id :> [hash |-> << >>, dirty |-> TRUE]),
   global |-> cache.global, dirty |-> TRUE]

\* entity_hash and global_hash: what is not clean is computed anew.
CacheEntity(cache, id, entities) ==
  IF id \in DOMAIN cache.entries /\ ~ cache.entries[id].dirty THEN cache
  ELSE [cache EXCEPT !.entries = (id :> [hash |-> HashEntity(entities[id]), dirty |-> FALSE]) @@ @]

CacheGlobal(cache, entities) ==
  IF cache.dirty THEN [cache EXCEPT !.global = HashEntityMap(entities), !.dirty = FALSE] ELSE cache

-----------------------------------------------------------------------------
(* Results.                                                                 *)

StatusFlags(e) == << e.status, e.initialized, e.recovering, e.inconsistent, e.closed,
                     e.book.crossed, e.book.resolved >>

ResultWith(store, code, id, changed, full, cache) ==
  LET known == id \in DOMAIN store.entities
      version == IF known THEN store.entities[id].lastPacket ELSE 0
  IN [store |-> [store EXCEPT !.cache = cache],
      result |->
        [code |-> code, entity |-> id, changed |-> changed,
         mutation |-> [NoMutation EXCEPT !.heartbeat = code = "IgnoredHeartbeat",
                                         !.kind = IF code = "IgnoredHeartbeat" THEN "Heartbeat" ELSE "None"],
         bookVersion |-> version, chainVersion |-> 0, qualityVersion |-> 0,
         versionHash |-> << id, version, 0, 0, version, 0,
                            IF known THEN StatusFlags(store.entities[id]) ELSE << >> >>,
         entityHash |-> IF full /\ id # "" THEN cache.entries[id].hash ELSE << >>,
         fullHash |-> full, published |-> FALSE]]

\* make_result, for the store after the event: the cache is marked and, unless the mode is
\* HotPathLight, read.
MakeResult(store, code, id, changed) ==
  LET marked == IF changed /\ id # "" THEN MarkDirty(store.cache, id) ELSE store.cache
      full == changed /\ store.mode # "HotPathLight"
  IN ResultWith(store, code, id, changed, full,
                IF full /\ id # "" THEN CacheGlobal(CacheEntity(marked, id, store.entities), store.entities)
                ELSE marked)

\* mark_book_snapshot, mark_book_delta and mark_lifecycle.
MarkBook(r, kind) ==
  [r EXCEPT !.result.mutation.book = r.result.changed, !.result.mutation.publish = r.result.changed,
            !.result.mutation.kind = IF r.result.changed THEN kind ELSE "None"]

MarkLifecycle(r) ==
  [r EXCEPT !.result.mutation.lifecycle = r.result.changed, !.result.mutation.publish = r.result.changed,
            !.result.mutation.kind = IF r.result.changed THEN "Lifecycle" ELSE "None"]

-----------------------------------------------------------------------------
(* Book levels.                                                             *)

Levels(side) == {p \in Prices : side[p] > 0}

UpdateBestBidAsk(b) ==
  LET bid == IF Levels(b.bids) = {} THEN None ELSE Max(Levels(b.bids))
      ask == IF Levels(b.asks) = {} THEN None ELSE Min(Levels(b.asks))
  IN [b EXCEPT !.bestBid = bid, !.bestAsk = ask, !.crossed = bid # None /\ ask # None /\ bid > ask]

ValidLevel(l) == ValidPrice(l.price) /\ ValidSize(l.size)

\* A side filled from the levels of a snapshot: the last valid one of a price counts.
FillSide(levels) ==
  [p \in Prices |->
     LET at == {i \in DOMAIN levels : levels[i].price = p /\ levels[i].size > 0}
     IN IF at = {} THEN 0 ELSE levels[Max(at)].size]

\* One change of a delta; a size of 0 erases the level.
ApplyLevel(b, c) ==
  IF ~ ValidLevel(c) THEN b
  ELSE CASE c.side = "Bid" -> [b EXCEPT !.bids[c.price] = c.size]
         [] c.side = "Ask" -> [b EXCEPT !.asks[c.price] = c.size]
         [] OTHER -> b

ApplyChanges(b, changes) == FoldLeft(ApplyLevel, b, changes)

-----------------------------------------------------------------------------
(* The entity of an event.                                                  *)

FirstOf(ids) == LET given == SelectSeq(ids, LAMBDA x : x # "") IN IF given = << >> THEN "" ELSE Head(given)

ResolveEntityId(ev) == FirstOf(<< ev.entity, ev.asset, ev.condition, ev.market >>)

EntityOf(store, id) == IF id \in DOMAIN store.entities THEN store.entities[id] ELSE NewEntity

WithEntity(store, id, e) == [store EXCEPT !.entities = (id :> e) @@ @]

MarkEntityPacket(e, ev) ==
  [e EXCEPT !.market = IF ev.market # "" THEN ev.market ELSE @,
            !.firstPacket = IF @ = 0 THEN ev.packet ELSE @,
            !.lastPacket = ev.packet, !.lastUpdate = ev.time]

Missing(store) == MakeResult([store EXCEPT !.errors = @ + 1], "MissingEntityId", "", FALSE)

\* An event for a closed entity is counted and ignored.
IgnoredClosed(store, id) ==
  MakeResult(WithEntity(store, id, [EntityOf(store, id) EXCEPT !.ignored = @ + 1]),
             "ClosedEntityIgnored", id, FALSE)

-----------------------------------------------------------------------------
(* One operator per handler of apply().                                     *)

\* Both sides are cleared and filled anew; a valid tick size is taken over.
SnapshotBook(b, ev) ==
  UpdateBestBidAsk([b EXCEPT !.bids = FillSide(ev.bids), !.asks = FillSide(ev.asks),
                             !.tick = IF ev.tick # None /\ ValidTickSize(ev.tick) THEN ev.tick ELSE @])

\* The entity after a snapshot that gave it book b.
WithSnapshot(old, b, ev, invalid) ==
  MarkEntityPacket([old EXCEPT !.book = b, !.initialized = TRUE, !.recovering = FALSE,
                               !.status = IF b.crossed THEN "Inconsistent" ELSE "Live",
                               !.inconsistent = b.crossed \/ invalid,
                               !.snapshots = @ + 1, !.lastSnapshot = ev.packet,
                               !.errors = IF invalid THEN @ + 1 ELSE @], ev)

InvalidSnapshot(ev) ==
  \/ \E i \in DOMAIN ev.bids : ~ ValidLevel(ev.bids[i])
  \/ \E i \in DOMAIN ev.asks : ~ ValidLevel(ev.asks[i])
  \/ ev.tick # None /\ ~ ValidTickSize(ev.tick)

ApplySnapshot(store, ev) ==
  LET id == ResolveEntityId(ev)
      old == EntityOf(store, id)
      invalid == InvalidSnapshot(ev)
      s == WithEntity(store, id, WithSnapshot(old, SnapshotBook(old.book, ev), ev, invalid))
  IN CASE id = "" -> Missing(store)
       [] old.closed -> IgnoredClosed(store, id)
       [] invalid -> MarkBook(MakeResult([s EXCEPT !.errors = @ + 1], "InvalidValue", id, TRUE), "BookSnapshot")
       [] OTHER -> MarkBook(MakeResult(s, "Applied", id, TRUE), "BookSnapshot")

\* A delta for an entity without a snapshot leaves it recovering.
DeltaBeforeSnapshot(store, id, ev) ==
  LET e == [EntityOf(store, id) EXCEPT !.status = "Recovering", !.recovering = TRUE, !.errors = @ + 1]
  IN MakeResult([WithEntity(store, id, MarkEntityPacket(e, ev)) EXCEPT !.errors = @ + 1],
                "DeltaBeforeSnapshot", id, TRUE)

\* The entity after a delta, at least one change of which was valid, that gave it book b.
ChangedByDelta(old, b, ev) ==
  MarkEntityPacket([old EXCEPT !.book = b, !.deltas = @ + 1, !.recovering = FALSE,
                               !.status = IF b.crossed THEN "Inconsistent" ELSE "Live",
                               !.inconsistent = b.crossed], ev)

DeltaOnBook(store, id, ev) ==
  LET old == EntityOf(store, id)
      wrong == {i \in DOMAIN ev.changes : ~ ValidLevel(ev.changes[i])}
      sideless == {i \in DOMAIN ev.changes \ wrong : ev.changes[i].side = "Unknown"}
      changed == DOMAIN ev.changes # wrong \cup sideless
      e == IF changed THEN ChangedByDelta(old, UpdateBestBidAsk(ApplyChanges(old.book, ev.changes)), ev) ELSE old
      failed == [WithEntity(store, id, [e EXCEPT !.errors = @ + 1]) EXCEPT !.errors = @ + 1]
  IN CASE sideless # {} -> MakeResult(failed, "UnknownSide", id, changed)
       [] wrong # {} -> MakeResult(failed, "InvalidValue", id, changed)
       [] ~ changed -> MakeResult(WithEntity(store, id, [e EXCEPT !.ignored = @ + 1]), "Noop", id, FALSE)
       [] OTHER -> MakeResult(WithEntity(store, id, e), "Applied", id, TRUE)

ApplyDelta(store, ev) ==
  LET id == ResolveEntityId(ev)
  IN MarkBook(CASE id = "" -> Missing(store)
                [] EntityOf(store, id).closed -> IgnoredClosed(store, id)
                [] ~ EntityOf(store, id).initialized -> DeltaBeforeSnapshot(store, id, ev)
                [] OTHER -> DeltaOnBook(store, id, ev),
              "BookDelta")

\* The external prices against the book's own.
Diverged(e, b) ==
  /\ e.initialized
  /\ \/ b.externalBid # None /\ b.bestBid # None /\ b.externalBid # b.bestBid
     \/ b.externalAsk # None /\ b.bestAsk # None /\ b.externalAsk # b.bestAsk

ApplyStatusChange(store, ev) ==
  LET id == ResolveEntityId(ev)
      old == EntityOf(store, id)
      tick == ev.tick # None /\ ValidTickSize(ev.tick)
      bid == ev.bestBid # None /\ ValidPrice(ev.bestBid)
      ask == ev.bestAsk # None /\ ValidPrice(ev.bestAsk)
      changed == tick \/ bid \/ ask
      invalid == (ev.tick # None /\ ~ tick) \/ (ev.bestBid # None /\ ~ bid) \/ (ev.bestAsk # None /\ ~ ask)
      b == [old.book EXCEPT !.tick = IF tick THEN ev.tick ELSE @,
                            !.externalBid = IF bid THEN ev.bestBid ELSE @,
                            !.externalAsk = IF ask THEN ev.bestAsk ELSE @]
      e == [old EXCEPT !.book = [b EXCEPT !.diverged = Diverged(old, b)],
                       !.status = IF old.initialized THEN @ ELSE "Recovering",
                       !.recovering = IF old.initialized THEN @ ELSE TRUE,
                       !.statusChanges = @ + 1, !.errors = IF invalid THEN @ + 1 ELSE @]
      s == WithEntity(store, id, MarkEntityPacket(e, ev))
  IN MarkBook(CASE id = "" -> Missing(store)
                [] old.closed -> IgnoredClosed(store, id)
                [] invalid -> MakeResult([s EXCEPT !.errors = @ + 1], "InvalidValue", id, changed)
                [] OTHER -> MakeResult(s, IF changed THEN "Applied" ELSE "Noop", id, changed),
              "BookDelta")

LifecycleEntity(e, ev) ==
  CASE ev.raw = "market_resolved" ->
         [e EXCEPT !.closed = TRUE, !.status = "Closed", !.recovering = FALSE,
                   !.book.resolved = TRUE, !.book.winner = ev.winner]
    [] ev.raw = "market_closed" -> [e EXCEPT !.closed = TRUE, !.status = "Closed", !.recovering = FALSE]
    [] OTHER -> e

ApplyLifecycleEvent(store, ev) ==
  LET id == ResolveEntityId(ev)
      e == [LifecycleEntity(EntityOf(store, id), ev) EXCEPT !.lifecycles = @ + 1]
  IN MarkLifecycle(IF id = "" THEN Missing(store)
                   ELSE MakeResult(WithEntity(store, id, MarkEntityPacket(e, ev)), "Applied", id, TRUE))

\* Trades and unknown events only count.
ApplyIgnored(store, ev, code) ==
  LET id == ResolveEntityId(ev)
      e == [EntityOf(store, id) EXCEPT !.ignored = @ + 1]
  IN MakeResult(IF id = "" THEN store ELSE WithEntity(store, id, MarkEntityPacket(e, ev)), code, id, FALSE)

ApplyHeartbeat(store, ev) == MakeResult(store, "IgnoredHeartbeat", "", FALSE)

Apply(store, ev) ==
  CASE ev.type = "Snapshot" -> ApplySnapshot(store, ev)
    [] ev.type = "Delta" -> ApplyDelta(store, ev)
    [] ev.type = "StatusChange" -> ApplyStatusChange(store, ev)
    [] ev.type = "LifecycleEvent" -> ApplyLifecycleEvent(store, ev)
    [] ev.type = "TradeEvent" -> ApplyIgnored(store, ev, "IgnoredTrade")
    [] ev.type = "Heartbeat" -> ApplyHeartbeat(store, ev)
    [] OTHER -> ApplyIgnored(store, ev, "IgnoredUnknown")

=============================================================================
