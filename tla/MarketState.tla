----------------------------- MODULE MarketState -----------------------------
(***************************************************************************)
(* From the wire to the book a strategy reads: a message is written to the *)
(* raw log, decoded, adapted, filtered and applied to the store, whose     *)
(* snapshots are published; classified chain fills reach the same store;   *)
(* the process may crash and start again on the same log file; the log is  *)
(* replayed into a store of its own.                                       *)
(*                                                                         *)
(* The two callbacks (market messages, chain fills) hold one mutex while   *)
(* they apply, so each is one step.  The clock is the number of inputs.    *)
(***************************************************************************)
EXTENDS Shard, Decode

CONSTANTS
  Payloads,     \* the payloads that arrive
  Fills,        \* the classified fills that arrive, without block and time
  MaxInputs,    \* bound on the inputs of a behaviour
  MaxCrashes    \* bound on the crashes

VARIABLES
  shard,        \* the live store
  log,          \* the records of the raw log file, as a reader finds them
  packet,       \* next_packet_id - 1
  now,          \* the clock
  crashes,
  checked       \* [code, action, suspect] of the replay's last event, until the next input

vars == << shard, log, packet, now, crashes, checked >>

-----------------------------------------------------------------------------
(* The raw log.  A record is whole or torn; what follows a torn record does *)
(* not start where the reader looks for a header, and fails the magic, the  *)
(* size or the checksum.                                                    *)

\* make_raw_packet: length and checksum are those of the payload.
MakeRawPacket(id, payload, time) == [whole |-> TRUE, packet |-> id, payload |-> payload, time |-> time]

\* write_packet and the append mode of the file.
WritePacket(file, record) == Append(file, record)

\* What the file may hold after a crash: the stream buffer is lost from some byte on.
AfterCrash(file) ==
  {SubSeq(file, 1, n) : n \in 0 .. Len(file)} \cup
  {Append(SubSeq(file, 1, n - 1), [file[n] EXCEPT !.whole = FALSE]) : n \in 1 .. Len(file)}

\* next() until it does not return a packet.
ReadLog(file) ==
  LET torn == {i \in DOMAIN file : ~ file[i].whole}
  IN IF torn = {} THEN file ELSE SubSeq(file, 1, Min(torn) - 1)

DecodeRecord(record) == DecodePipeline([packet |-> record.packet, time |-> record.time, payload |-> record.payload])

\* replay_to_csv: a read or a decode failure ends the replay with an exception.
ReplayEvent(run, ev) ==
  LET with(a) == [run EXCEPT !.store = a.store, !.last = << ev, a.result >>] IN with(Apply(run.store, ev))

ReplayDecoded(run, decoded) ==
  IF ~ DecodeOk(decoded.error) THEN [run EXCEPT !.ok = FALSE] ELSE FoldLeft(ReplayEvent, run, decoded.events)

ReplayRecord(run, record) == IF run.ok THEN ReplayDecoded(run, DecodeRecord(record)) ELSE run

Replay(file) ==
  LET start == [ok |-> TRUE, store |-> NewStore("ReplayFull"), last |-> << >>]
      end(run) == [run EXCEPT !.ok = @ /\ Len(ReadLog(file)) = Len(file)]
  IN end(FoldLeft(ReplayRecord, start, ReadLog(file)))

-----------------------------------------------------------------------------
NoCheck == [code |-> "Ok", action |-> "None", suspect |-> FALSE]

Init ==
  /\ \E mode \in {"HotPathLight", "ReplayFull"} : shard = NewShard(mode)
  /\ log = << >> /\ packet = 0 /\ now = 0 /\ crashes = 0 /\ checked = NoCheck

ApplyFiltered(s, ev) ==
  LET e == FromNormalizedEvent(ev) IN IF Filter(e) = "None" THEN ApplyEvent(s, e).shard ELSE s

\* The book of the entity is not one to trade on.
Suspect(entities, id) ==
  id \in DOMAIN entities /\ (entities[id].book.crossed \/ entities[id].book.diverged)

\* on_message of the driver.
HandleMessage(payload) ==
  /\ now < MaxInputs
  /\ now' = now + 1
  /\ packet' = packet + 1
  /\ \E record \in {MakeRawPacket(packet + 1, payload, now + 1)} :
       /\ log' = WritePacket(log, record)
       /\ shard' = FoldLeft(ApplyFiltered, shard, DecodeRecord(record).events)
  /\ checked' = NoCheck
  /\ UNCHANGED crashes

\* The chain callback: the classified fill is adapted and applied without a filter.
HandleFill(fill) ==
  /\ now < MaxInputs
  /\ now' = now + 1
  /\ \E seen \in {[fill EXCEPT !.block = now + 1, !.time = now + 1]} :
       shard' = ApplyEvent(shard, FromClassifiedFill(seen, NormalizedEvent([packet |-> 0, time |-> 0]))).shard
  /\ checked' = NoCheck
  /\ UNCHANGED << log, packet, crashes >>

\* The settlement of a market, seen on the chain.
HandleSettlement(market) ==
  /\ now < MaxInputs
  /\ now' = now + 1
  /\ \E ev \in {[FromClassifiedFill(NoFill, NormalizedEvent([packet |-> 0, time |-> 0]))
                   EXCEPT !.type = "ChainSettlement", !.market = market, !.seq = now + 1]} :
       shard' = IF Filter(ev) = "None" THEN ApplyEvent(shard, ev).shard ELSE shard
  /\ checked' = NoCheck
  /\ UNCHANGED << log, packet, crashes >>

\* The log is replayed and the outcome of its last event checked for integrity, as in
\* run_feed_e2e; the stale detector and the recovery controller, which no tool of the
\* repository calls, are asked about the same event.
CheckReplay ==
  /\ \E run \in {Replay(log)} :
       /\ run.ok /\ run.last # << >>
       /\ LET code == Check(run.last[1], run.last[2], run.store.entities)
              id == run.last[2].entity
              stale == IF id \in DOMAIN run.store.entities
                       THEN CheckEntity(now, run.store.entities[id]) ELSE CheckSource(now, log[Len(log)].time)
          IN checked' = [code |-> code, action |-> Decide(code, stale),
                         suspect |-> Suspect(run.store.entities, id)]
  /\ UNCHANGED << shard, log, packet, now, crashes >>

\* The process dies and starts again: a new store, packet ids from 1, the same file.
Crash ==
  /\ crashes < MaxCrashes
  /\ log' \in AfterCrash(log)
  /\ shard' = NewShard(shard.book.mode)
  /\ packet' = 0
  /\ crashes' = crashes + 1
  /\ checked' = NoCheck
  /\ UNCHANGED now

Next ==
  \/ \E payload \in Payloads : HandleMessage(payload)
  \/ \E fill \in Fills : HandleFill(fill)
  \/ \E market \in ActiveMarkets : HandleSettlement(market)
  \/ CheckReplay
  \/ Crash

Spec == Init /\ [][Next]_vars

-----------------------------------------------------------------------------
Entities == shard.book.entities
Published == shard.published

\* What a reader gets for an asset is what the store holds for it: the levels, the flags, the
\* confirmed trades and the quality the gate gives the asset, although LOBShard keeps one quality
\* for all assets and publishes only on a mutation (LOBShard.cpp:235).  An entity named after its
\* market, made by a lifecycle message, is another matter: a settlement publishes it with the
\* quality of the asset of the event before.  The version is at least that of the entity.
PublishedIsCurrent ==
  \A id \in DOMAIN Published \cap ActiveAssets :
    \E current \in {SnapshotOf([shard EXCEPT !.quality = QualityOf(shard, id)], id)} :
      /\ Published[id].content = [current EXCEPT !.version = Published[id].content.version]
      /\ Published[id].content.version >= current.version

\* A book the view offers as executable is the store's book, open, not recovering, and its prices
\* are the best ones of the two sides (MarketStateView::get_bbo).
BboIsBest ==
  \A id \in DOMAIN Published :
    GetBbo(Published, id).error = "None" =>
      /\ ~ Entities[id].closed /\ ~ Entities[id].recovering
      /\ GetBbo(Published, id).value.bid.price = Max(Levels(Entities[id].book.bids))
      /\ GetBbo(Published, id).value.ask.price = Min(Levels(Entities[id].book.asks))
      /\ GetSpreadTick(Published, id).value >= 0
      /\ GetMidTick(Published, id).value \in Prices
      /\ Len(GetSnapshot(Published, id, 1).value.bids) = 1

\* A snapshot a signal may use comes from an entity with a snapshot, neither closed nor crossed
\* nor recovering, whose chain was seen, and not long before the book (DataQualityGate::evaluate).
UsableForSignal ==
  \A id \in DOMAIN Published \cap ActiveAssets :
    Published[id].content.signal =>
      /\ Entities[id].initialized /\ ~ Entities[id].closed /\ ~ Entities[id].recovering
      /\ ~ Entities[id].book.crossed
      /\ TradesOf(shard.chain, id).seen # 0
      /\ Entities[id].lastUpdate - TradesOf(shard.chain, id).seen <= ChainLagTimeout

\* Readers see the store as it is: what is published is current, what is offered as executable is the
\* best of an open book, and what a signal may use has passed the gate (MarketStateView).
ReadersSeeTheStore == PublishedIsCurrent /\ BboIsBest /\ UsableForSignal

\* A fill that was confirmed and not removed is in one window, once, and a removed one in none, in
\* whatever order confirmations, repetitions and removals come (ChainStateWriter).
FillsCountOnce ==
  \A id \in DOMAIN shard.chain.fills :
    LET live(e) == {i \in DOMAIN WindowOf(shard.chain, e) :
                      WindowOf(shard.chain, e)[i].id = id /\ ~ WindowOf(shard.chain, e)[i].removed}
    IN \A e \in DOMAIN shard.chain.windows :
         Cardinality(live(e)) = IF e = shard.chain.fills[id].entity /\ ~ shard.chain.fills[id].removed THEN 1 ELSE 0

\* The volume an entity reports is at most that of the fills that stand (totals, refresh_windows).
VolumeOfStandingFills ==
  \A e \in DOMAIN shard.chain.states :
    LET standing == SelectSeq(WindowOf(shard.chain, e), LAMBDA x : ~ shard.chain.fills[x.id].removed)
        lots == FoldLeft(LAMBDA sum, x : sum + x.lots, 0, standing)
    IN shard.chain.states[e].buyLong + shard.chain.states[e].sellLong <= lots

\* What a shard knows of an asset from the chain adds up: each standing fill counts once, and the
\* volumes are those of the standing fills (ChainStateWriter).
ChainFillsAddUp == FillsCountOnce /\ VolumeOfStandingFills

\* A clean entry of the hash cache has the book the entity has now, though mark_dirty is the
\* callers' duty (StateHashCache): in the live store and in the one a replay builds, which
\* alone gets the events of best prices and tick sizes that change a book's status.
CacheKnowsTheBook ==
  \A store \in {shard.book, Replay(log).store} : \A id \in DOMAIN store.cache.entries :
    ~ store.cache.entries[id].dirty =>
      store.cache.entries[id].hash.book = HashOrderBook(store.entities[id].book)

\* Replaying the log of an uninterrupted run gives every active asset the levels the live store
\* has, though the live store sees only what the adapter and the filter let through.
ReplayRebuildsBooks ==
  crashes = 0 =>
    \A run \in {Replay(log)}, id \in ActiveAssets :
      run.ok => /\ EntityOf(run.store, id).book.bids = EntityOf(shard.book, id).book.bids
                /\ EntityOf(run.store, id).book.asks = EntityOf(shard.book, id).book.asks

\* What the reader returns is the beginning of what was written: nothing behind a torn record,
\* which no longer starts where a header is looked for (RawLogReader::next).
ReplayReadsAPrefix ==
  \A i \in DOMAIN ReadLog(log) : \A j \in 1 .. i : log[j].whole /\ ReadLog(log)[j] = log[j]

\* An event that leaves its entity crossed or away from the external prices leads to an action
\* (ConsistencyChecker::check, RecoveryController::decide).
SuspectBookIsReported == checked.suspect => checked.action # "None"

\* Replaying the raw log is faithful: it reads what was written, in order, up to the first torn
\* record, and without one it rebuilds the live books; a suspect book does not pass unreported
\* (ReplayRunner).
ReplayIsFaithful == ReplayRebuildsBooks /\ ReplayReadsAPrefix /\ SuspectBookIsReported
=============================================================================
