---------------------------- MODULE MakerTrading ----------------------------
(***************************************************************************)
(* Paper market making: the quotes that rest in ActivePaperQuoteBook, the  *)
(* fills PaperMakerFillModel derives from the market, and the ledger the   *)
(* reports are booked in.                                                  *)
(*                                                                         *)
(* An approved quote is [id, group, hash, asset, legs, expires], where     *)
(* legs maps "Bid" and/or "Ask" to [price, lots].  The hashes of the code  *)
(* (quote id, report id, fill id) are taken to be injective: an id is what *)
(* it is the hash of, and NoHash is the hash zero.  A market event is      *)
(* [asset, trade, bids, asks], with trade.lots = 0 when nothing traded and *)
(* at most the best level a side.                                          *)
(***************************************************************************)
EXTENDS PaperLedger, PrefixSums, Sequences, FiniteSetsExt

CONSTANTS
  ApprovedQuotes,    \* the quotes risk approves
  MarketEvents,      \* what the market does
  ExecutionFills,    \* fills of the taker path: [asset, side, lots, price, fee]
  MakerConfigs,      \* [mode, allow_partial_fills, max_fill_qty_per_trade, queue_min_rest]
  Clock,             \* the instants, an interval from 0
  MaxActivations,    \* bound on quotes that become active
  MaxReports         \* bound on reports before the last market event

VARIABLES
  config,      \* PaperMakerExecutionConfig
  now,
  book,        \* [quotes, by_group, by_hash]
  ledger,      \* the paper account
  activated,   \* history: the approved quotes that became active, in order
  emitted      \* history: [activation, report] of every report, in order

makerVars == << config, now, book, ledger, activated, emitted >>

Sides == {"Bid", "Ask"}

\* compute_paper_maker_quote_id hashes the group with the rest of the quote.
ASSUME QuotesAssumption ==
  /\ \A p, q \in ApprovedQuotes : p.id = q.id => p.group = q.group
  /\ \A q \in ApprovedQuotes :
       /\ DOMAIN q.legs \subseteq Sides
       /\ \A s \in DOMAIN q.legs : q.legs[s].lots \in Nat

ASSUME EventsAssumption ==
  \A event \in MarketEvents :
    /\ event.trade.lots \in Int
    /\ event.bids # << >> => event.bids[1].size \in Int
    /\ event.asks # << >> => event.asks[1].size \in Int

ASSUME MakerConfigsAssumption == \A c \in MakerConfigs : c.max_fill_qty_per_trade \in Int

\* The function f without the keys ks.
Without(f, ks) == [k \in DOMAIN f \ ks |-> f[k]]

\* The function f with k mapped to v.
With(f, k, v) == [x \in DOMAIN f \cup {k} |-> IF x = k THEN v ELSE f[x]]

-----------------------------------------------------------------------------
(* ActivePaperQuoteBook.                                                    *)

NoHash == << >>

EmptyBook == [quotes |-> << >>, by_group |-> << >>, by_hash |-> << >>]

\* Faulty variant: the hash of a quote that goes is not forgotten.
RemovedKeepingHash(b, ids) ==
  [quotes   |-> Without(b.quotes, ids),
   by_group |-> Without(b.by_group, {b.quotes[i].approved.group : i \in ids}),
   by_hash  |-> b.by_hash]

\* The erasures that cancel_by_group, cancel_by_quote_id, expire_old, apply_fill and
\* add_or_replace have in common.
Removed(b, ids) ==
  [quotes   |-> Without(b.quotes, ids),
   by_group |-> Without(b.by_group, {b.quotes[i].approved.group : i \in ids}),
   by_hash  |-> Without(b.by_hash, {b.quotes[i].approved.hash : i \in ids})]

\* make_quote, and its entry in the three maps.
Added(b, quote, ts, activation) ==
  [quotes   |-> With(b.quotes, quote.id,
                     [approved |-> quote, filled |-> [s \in Sides |-> 0], created |-> ts,
                      activation |-> activation]),
   by_group |-> With(b.by_group, quote.group, quote.id),
   by_hash  |-> IF quote.hash = NoHash THEN b.by_hash ELSE With(b.by_hash, quote.hash, quote.id)]

\* The quote a new one of the same group replaces.
ReplacedBy(b, quote) ==
  {b.by_group[g] : g \in DOMAIN b.by_group \cap {quote.group}}

\* What submit_approved_quote takes: neither expired nor a duplicate of an active quote.
Accepts(b, quote, ts) ==
  /\ quote.expires = 0 \/ quote.expires > ts
  /\ quote.hash = NoHash \/ quote.hash \notin DOMAIN b.by_hash

\* add_or_replace of a quote that is taken.
AddOrReplace(b, quote, ts, activation) ==
  Added(Removed(b, ReplacedBy(b, quote)), quote, ts, activation)

ExpiredAt(b, ts) ==
  {i \in DOMAIN b.quotes : b.quotes[i].approved.expires # 0 /\ b.quotes[i].approved.expires <= ts}

QuoteFullyFilled(q) ==
  \A s \in DOMAIN q.approved.legs : q.filled[s] >= q.approved.legs[s].lots

-----------------------------------------------------------------------------
(* PaperMakerFillModel.                                                     *)

CappedQty(remaining, evidence) ==
  LET qty == IF config.allow_partial_fills THEN Min({remaining, evidence})
             ELSE IF evidence >= remaining THEN remaining ELSE 0
  IN  IF remaining <= 0 \/ evidence <= 0 THEN 0
      ELSE IF config.max_fill_qty_per_trade > 0 THEN Min({qty, config.max_fill_qty_per_trade})
      ELSE qty

\* A price at which a quote of this side and limit trades.
Reaches(side, price, limit) == IF side = "Bid" THEN price <= limit ELSE price >= limit

\* The quantity the event shows for this side of the quote, by fill mode.
Evidence(q, side, event) ==
  LET limit    == q.approved.legs[side].price
      opposite == IF side = "Bid" THEN event.asks ELSE event.bids
      crossed  == opposite # << >> /\ Reaches(side, opposite[1].price, limit)
  IN  CASE config.mode = "Conservative" ->
             IF Reaches(side, event.trade.price, limit) THEN event.trade.lots ELSE 0
        [] config.mode = "BookCross" -> IF crossed THEN opposite[1].size ELSE 0
        [] config.mode = "QueueAware" ->
             IF crossed /\ opposite[1].price # limit /\ now - q.created >= config.queue_min_rest
             THEN opposite[1].size ELSE 0
        [] config.mode = "MidCross" ->
             IF /\ event.bids # << >> /\ event.asks # << >>
                /\ Reaches(side, (event.bids[1].price + event.asks[1].price) \div 2, limit)
             THEN Max({1, opposite[1].size}) ELSE 0
        [] OTHER -> 0

\* remaining_for; apply_fill keeps filled within the lots, so the difference is never negative.
Remaining(q, side) == q.approved.legs[side].lots - q.filled[side]

\* evaluate for one side of a quote; zero when the event does not fill it.
FillLots(q, side, event) ==
  IF q.approved.asset = event.asset /\ side \in DOMAIN q.approved.legs
  THEN CappedQty(Remaining(q, side), Evidence(q, side, event))
  ELSE 0

\* The quotes and sides that the event fills.
FillsOf(b, event) ==
  {f \in (DOMAIN b.quotes) \X Sides : FillLots(b.quotes[f[1]], f[2], event) > 0}

\* apply_fill, on the sides of a quote that the event fills.
Filled(q, event) ==
  [q EXCEPT !.filled =
     [s \in Sides |-> IF FillLots(q, s, event) > 0
                      THEN Min({q.approved.legs[s].lots, q.filled[s] + FillLots(q, s, event)})
                      ELSE q.filled[s]]]

\* apply_fill for every fill of the event: a quote that was filled to the end is erased.
WithFills(b, event) ==
  LET after == [b EXCEPT !.quotes = [i \in DOMAIN b.quotes |-> Filled(b.quotes[i], event)]]
  IN  Removed(after, {i \in {f[1] : f \in FillsOf(b, event)} : QuoteFullyFilled(after.quotes[i])})

-----------------------------------------------------------------------------
(* Reports.                                                                 *)

\* compute_maker_execution_report_hash.
ReportId(r) == r

\* make_report, of what the fill leaves of the side.
Report(q, id, side, lots) ==
  LET left == Max({0, Remaining(q, side) - lots})
  IN  [quote |-> id, asset |-> q.approved.asset, side |-> side,
       status |-> IF left = 0 THEN "Filled" ELSE "PartiallyFilled",
       lots |-> lots, price |-> q.approved.legs[side].price, remaining |-> left, ts |-> now]

\* MakerFillApplication::from_report, as PaperEventAdapter::observe calls it: no fee.
MakerFill(r) ==
  [asset |-> r.asset, side |-> IF r.side = "Ask" THEN "Sell" ELSE "Buy",
   lots |-> r.lots, price |-> r.price, fee |-> 0]

-----------------------------------------------------------------------------
(* PaperMakerExecutionAdapter.                                              *)

MakerInit ==
  /\ config \in MakerConfigs
  /\ now = 0
  /\ book = EmptyBook
  /\ ledger = NewLedger
  /\ activated = << >>
  /\ emitted = << >>

\* submit_approved_quote: an expired quote and a duplicate change nothing.
SubmitQuote(quote) ==
  /\ Len(activated) < MaxActivations
  /\ Accepts(book, quote, now)
  /\ book' = AddOrReplace(book, quote, now, Len(activated) + 1)
  /\ activated' = Append(activated, quote)
  /\ UNCHANGED << config, now, ledger, emitted >>

\* cancel_quote_group.
CancelGroup(g) ==
  /\ g \in DOMAIN book.by_group
  /\ book' = Removed(book, {book.by_group[g]})
  /\ UNCHANGED << config, now, ledger, activated, emitted >>

\* The members of S, each once, in some fixed order.
Listed(S) ==
  CHOOSE f \in [1 .. Cardinality(S) -> S] : \A j, k \in DOMAIN f : f[j] = f[k] => j = k

\* on_market_event, after expire_old: fills of different quotes and sides do not depend on
\* one another, so the order in which the book lists the quotes is any fixed order.
TakeFills(kept, event, fills) ==
  /\ book' = WithFills(kept, event)
  /\ emitted' = emitted \o
       [k \in DOMAIN fills |->
          LET q == kept.quotes[fills[k][1]]
          IN  [activation |-> q.activation,
               report     |-> Report(q, fills[k][1], fills[k][2], FillLots(q, fills[k][2], event))]]
  /\ UNCHANGED << config, now, ledger, activated >>

MarketEvent(event) ==
  /\ Len(emitted) < MaxReports
  /\ \E kept \in {Removed(book, ExpiredAt(book, now))} :
       TakeFills(kept, event, Listed(FillsOf(kept, event)))

\* expire_old, called between events.
ExpireOld ==
  /\ ExpiredAt(book, now) # {}
  /\ book' = Removed(book, ExpiredAt(book, now))
  /\ UNCHANGED << config, now, ledger, activated, emitted >>

-----------------------------------------------------------------------------
(* The accounting side.                                                     *)

\* A maker report is observed and booked; it may come late, out of order and more than once.
DeliverMakerReport(r) ==
  /\ ledger' = ApplyPaperFill(ledger, ReportId(r), MakerFill(r))
  /\ UNCHANGED << config, now, book, activated, emitted >>

\* A report of the taker path is booked, possibly more than once.
DeliverExecutionReport(fill) ==
  /\ ledger' = ApplyExecutionFill(ledger, fill, fill)
  /\ UNCHANGED << config, now, book, activated, emitted >>

MakerTick ==
  /\ now + 1 \in Clock
  /\ now' = now + 1
  /\ UNCHANGED << config, book, ledger, activated, emitted >>

MakerNext ==
  \/ \E quote \in ApprovedQuotes : SubmitQuote(quote)
  \/ \E g \in DOMAIN book.by_group : CancelGroup(g)
  \/ \E event \in MarketEvents : MarketEvent(event)
  \/ ExpireOld
  \/ \E k \in DOMAIN emitted : DeliverMakerReport(emitted[k].report)
  \/ \E fill \in ExecutionFills : DeliverExecutionReport(fill)
  \/ MakerTick

MakerSpec == MakerInit /\ [][MakerNext]_makerVars

-----------------------------------------------------------------------------
(* Properties.                                                              *)

\* The lots of each report that are of this activation and side.
LotsOf(a, side) ==
  [k \in DOMAIN emitted |->
     IF emitted[k].activation = a /\ emitted[k].report.side = side
     THEN emitted[k].report.lots ELSE 0]

\* What activation a reported of a side, in lots.
ReportedLots(a, side) == PrefixSum(LotsOf(a, side), Len(emitted))

\* The three maps of ActivePaperQuoteBook stay inverse to one another through every
\* replacement, cancellation, expiry and fill: each active quote is the one its group and
\* its hash lead to, and no group or hash leads anywhere else.
QuoteIndexesAgree ==
  /\ DOMAIN book.by_group = {book.quotes[i].approved.group : i \in DOMAIN book.quotes}
  /\ DOMAIN book.by_hash = {book.quotes[i].approved.hash : i \in DOMAIN book.quotes} \ {NoHash}
  /\ \A i \in DOMAIN book.quotes :
       /\ book.by_group[book.quotes[i].approved.group] = i
       /\ book.quotes[i].approved.hash # NoHash => book.by_hash[book.quotes[i].approved.hash] = i

\* From its activation to its end a quote is never reported filled for more than risk
\* approved, side by side, and what the book counts as filled is what was reported
\* (capped_qty, apply_fill, make_report).
FillsWithinQuote ==
  /\ \A a \in DOMAIN activated : \A s \in DOMAIN activated[a].legs :
       ReportedLots(a, s) <= activated[a].legs[s].lots
  /\ \A i \in DOMAIN book.quotes : \A s \in DOMAIN book.quotes[i].approved.legs :
       book.quotes[i].filled[s] = ReportedLots(book.quotes[i].activation, s)

\* A quote stays whole from activation to end: every index leads to it, and its fills add up to no
\* more than it offers (ActivePaperQuoteBook).
QuotesStayWhole == QuoteIndexesAgree /\ FillsWithinQuote

\* Two fills of one activation never share a report id, so the ledger, which drops a report
\* it has seen, never drops a second genuine fill of a quote
\* (compute_maker_execution_report_hash).
FillsToldApart ==
  \A j, k \in DOMAIN emitted :
    /\ j # k
    /\ emitted[j].activation = emitted[k].activation
    => ReportId(emitted[j].report) # ReportId(emitted[k].report)

\* The fills the account remembers, with the report or fill each one came from.
Booked ==
  {[from |-> r, fill |-> MakerFill(r)] :
     r \in {s \in {emitted[k].report : k \in DOMAIN emitted} :
              ReportId(s) \in ledger.applied_fill_ids}}
    \cup {[from |-> f, fill |-> f] : f \in ledger.applied_execution_report_ids}

BookedSum(Amount(_), side) ==
  MapThenSumSet(LAMBDA b : Amount(b.fill), {b \in Booked : b.fill.side = side})

\* However reports are repeated, delayed or reordered, cash and positions are those of each
\* remembered fill booked exactly once (PaperLedger::apply_fill).
LedgerCountsOnce ==
  /\ ledger.cash_tick =
       StartingCash - BookedSum(LAMBDA f : f.lots * f.price + f.fee, "Buy")
                    + BookedSum(LAMBDA f : f.lots * f.price - f.fee, "Sell")
  /\ \A a \in Assets :
       ledger.positions[a].qty_lots =
         BookedSum(LAMBDA f : IF f.asset = a THEN f.lots ELSE 0, "Buy")
           - BookedSum(LAMBDA f : IF f.asset = a THEN f.lots ELSE 0, "Sell")

\* The account balances up to rounding: cash plus what the positions cost is the starting
\* cash plus the realized result less the fees of the purchases, short of it by less than a
\* tick for each lot sold (apply_buy and apply_sell round the average down, and a position
\* that is closed drops the rest of its basis).
BooksBalance ==
  LET cost     == MapThenSumSet(LAMBDA a : ledger.positions[a].cost_basis_tick, Assets)
      buyFees  == BookedSum(LAMBDA f : f.fee, "Buy")
      soldLots == BookedSum(LAMBDA f : f.lots, "Sell")
      drift    == StartingCash + ledger.realized_pnl_tick - buyFees - (ledger.cash_tick + cost)
  IN  drift >= 0 /\ (drift = 0 \/ drift < soldLots)

\* The account is the sum of the genuine fills: none is dropped as a repetition, each is booked once,
\* and cash, basis and realized result balance (PaperLedger behind PaperMakerAdapter).
LedgerFollowsFills == FillsToldApart /\ LedgerCountsOnce /\ BooksBalance
=============================================================================
