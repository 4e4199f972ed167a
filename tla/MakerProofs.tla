---------------------------- MODULE MakerProofs ----------------------------
(***************************************************************************)
(* Proofs about the paper maker, for all quotes and market events: the     *)
(* book's indexes stay inverse to one another, and a quote is never        *)
(* reported filled beyond its size; and about the live adapter, for all    *)
(* answers of the venue.                                                   *)
(***************************************************************************)
EXTENDS LiveMaker, PrefixSumTheorems, FiniteSetTheorems

-----------------------------------------------------------------------------
(* The indexes of the paper book.                                           *)

Indexes(b) ==
  /\ DOMAIN b.by_group = {b.quotes[i].approved.group : i \in DOMAIN b.quotes}
  /\ DOMAIN b.by_hash = {b.quotes[i].approved.hash : i \in DOMAIN b.quotes} \ {NoHash}
  /\ \A i \in DOMAIN b.quotes :
       /\ b.by_group[b.quotes[i].approved.group] = i
       /\ b.quotes[i].approved.hash # NoHash => b.by_hash[b.quotes[i].approved.hash] = i

QuoteFields == {"approved", "filled", "created", "activation"}

BookFields == {"quotes", "by_group", "by_hash"}

\* The quotes of a book are approved ones, under their ids.
Approved(b) ==
  /\ DOMAIN b = BookFields
  /\ IsFiniteSet(DOMAIN b.quotes)
  /\ \A i \in DOMAIN b.quotes :
       /\ DOMAIN b.quotes[i] = QuoteFields
       /\ b.quotes[i].approved \in ApprovedQuotes /\ b.quotes[i].approved.id = i
       /\ DOMAIN b.quotes[i].filled = Sides

\* Quotes that go take their entries with them and no other.
LEMMA RemovedKeeps ==
  ASSUME NEW b, Approved(b), Indexes(b), NEW ids \in SUBSET DOMAIN b.quotes
  PROVE  LET c == Removed(b, ids)
         IN  /\ Approved(c) /\ Indexes(c)
             /\ DOMAIN c.quotes = DOMAIN b.quotes \ ids
             /\ \A i \in DOMAIN c.quotes : c.quotes[i] = b.quotes[i]
             /\ DOMAIN c.by_group \subseteq DOMAIN b.by_group
             /\ DOMAIN c.by_hash \subseteq DOMAIN b.by_hash
<1> DEFINE c == Removed(b, ids)
           groups == {b.quotes[i].approved.group : i \in ids}
           hashes == {b.quotes[i].approved.hash : i \in ids}
<1>1. /\ DOMAIN c = BookFields
      /\ DOMAIN c.quotes = DOMAIN b.quotes \ ids
      /\ \A i \in DOMAIN c.quotes : c.quotes[i] = b.quotes[i]
      /\ DOMAIN c.by_group = DOMAIN b.by_group \ groups
      /\ \A g \in DOMAIN c.by_group : c.by_group[g] = b.by_group[g]
      /\ DOMAIN c.by_hash = DOMAIN b.by_hash \ hashes
      /\ \A h \in DOMAIN c.by_hash : c.by_hash[h] = b.by_hash[h]
  BY DEF Removed, Without, BookFields
<1> HIDE DEF c
<1>2. Approved(c)
  <2>1. IsFiniteSet(DOMAIN c.quotes)
    BY <1>1, FS_Subset, Zenon DEF Approved
  <2> QED BY <1>1, <2>1 DEF Approved
<1>3. \A i, j \in DOMAIN b.quotes :
        /\ b.quotes[i].approved.group = b.quotes[j].approved.group => i = j
        /\ b.quotes[i].approved.hash = b.quotes[j].approved.hash
             /\ b.quotes[i].approved.hash # NoHash => i = j
  BY DEF Indexes
<1>4. \A i \in DOMAIN c.quotes :
        /\ b.quotes[i].approved.group \notin groups
        /\ b.quotes[i].approved.hash # NoHash => b.quotes[i].approved.hash \notin hashes
  <2> TAKE i \in DOMAIN c.quotes
  <2>1. i \in DOMAIN b.quotes /\ i \notin ids
    BY <1>1, Zenon
  <2>2. \A j \in ids : j \in DOMAIN b.quotes /\ j # i
    BY <2>1, Zenon
  <2>3. b.quotes[i].approved.group \notin groups
    BY <1>3, <2>1, <2>2, Zenon
  <2>4. b.quotes[i].approved.hash # NoHash => b.quotes[i].approved.hash \notin hashes
    BY <1>3, <2>1, <2>2, Zenon
  <2> QED BY <2>3, <2>4, Zenon
<1>5. DOMAIN c.by_group = {c.quotes[i].approved.group : i \in DOMAIN c.quotes}
  BY <1>1, <1>4 DEF Indexes
<1>6. DOMAIN c.by_hash = {c.quotes[i].approved.hash : i \in DOMAIN c.quotes} \ {NoHash}
  BY <1>1, <1>4 DEF Indexes
<1>7. ASSUME NEW i \in DOMAIN c.quotes
      PROVE  /\ c.by_group[c.quotes[i].approved.group] = i
             /\ c.quotes[i].approved.hash # NoHash => c.by_hash[c.quotes[i].approved.hash] = i
  BY <1>1, <1>5, <1>6, <1>7 DEF Indexes
<1> QED BY <1>1, <1>2, <1>5, <1>6, <1>7, Zenon DEF Indexes, c

\* A quote that is added takes a free group, hash and id.
LEMMA AddedKeeps ==
  ASSUME NEW b, Approved(b), Indexes(b), NEW quote \in ApprovedQuotes, NEW ts, NEW a,
         quote.group \notin DOMAIN b.by_group, quote.id \notin DOMAIN b.quotes,
         quote.hash # NoHash => quote.hash \notin DOMAIN b.by_hash
  PROVE  LET c == Added(b, quote, ts, a)
         IN  /\ Approved(c) /\ Indexes(c)
             /\ DOMAIN c.quotes = DOMAIN b.quotes \cup {quote.id}
             /\ c.quotes[quote.id].approved = quote /\ c.quotes[quote.id].activation = a
             /\ \A s \in Sides : c.quotes[quote.id].filled[s] = 0
             /\ \A i \in DOMAIN b.quotes : c.quotes[i] = b.quotes[i]
<1> DEFINE c == Added(b, quote, ts, a)
           id == quote.id
           new == [approved |-> quote, filled |-> [s \in Sides |-> 0], created |-> ts,
                   activation |-> a]
<1>1. /\ DOMAIN c = BookFields
      /\ c.quotes = With(b.quotes, id, new)
      /\ c.by_group = With(b.by_group, quote.group, id)
      /\ c.by_hash = IF quote.hash = NoHash THEN b.by_hash ELSE With(b.by_hash, quote.hash, id)
  BY DEF Added, BookFields
<1>2. /\ DOMAIN new = QuoteFields /\ new.approved = quote /\ new.activation = a
      /\ DOMAIN new.filled = Sides /\ \A s \in Sides : new.filled[s] = 0
  BY DEF QuoteFields
<1> HIDE DEF c, new
<1>3. /\ DOMAIN c.quotes = DOMAIN b.quotes \cup {id}
      /\ c.quotes[id] = new
      /\ \A i \in DOMAIN b.quotes : c.quotes[i] = b.quotes[i]
      /\ DOMAIN c.by_group = DOMAIN b.by_group \cup {quote.group}
      /\ c.by_group[quote.group] = id
      /\ \A g \in DOMAIN b.by_group : c.by_group[g] = b.by_group[g]
  BY <1>1 DEF With
<1>4. /\ DOMAIN c.by_hash = DOMAIN b.by_hash \cup ({quote.hash} \ {NoHash})
      /\ quote.hash # NoHash => c.by_hash[quote.hash] = id
      /\ \A h \in DOMAIN b.by_hash : c.by_hash[h] = b.by_hash[h]
  BY <1>1 DEF With
<1>5. Approved(c)
  <2>1. IsFiniteSet(DOMAIN c.quotes)
    BY <1>3, FS_AddElement DEF Approved
  <2> QED BY <1>1, <1>2, <1>3, <2>1, Zenon DEF Approved
<1>6. DOMAIN c.by_group = {c.quotes[i].approved.group : i \in DOMAIN c.quotes}
  BY <1>2, <1>3 DEF Indexes
<1>7. DOMAIN c.by_hash = {c.quotes[i].approved.hash : i \in DOMAIN c.quotes} \ {NoHash}
  BY <1>2, <1>3, <1>4 DEF Indexes
<1>8. ASSUME NEW i \in DOMAIN c.quotes
      PROVE  /\ c.by_group[c.quotes[i].approved.group] = i
             /\ c.quotes[i].approved.hash # NoHash => c.by_hash[c.quotes[i].approved.hash] = i
  <2>1. CASE i = id
    BY <1>2, <1>3, <1>4, <2>1, Zenon
  <2>2. CASE i \in DOMAIN b.quotes
    BY <1>3, <1>4, <2>2 DEF Indexes
  <2> QED BY <1>3, <2>1, <2>2, Zenon
<1>9. Indexes(c)
  BY <1>6, <1>7, <1>8, Zenon DEF Indexes
<1> QED BY <1>2, <1>3, <1>5, <1>9 DEF c

\* What is asked of the book c after an accepted quote: the quote is in it, with nothing filled
\* yet, and every other quote is as it was.
QuoteAdded(b, quote, a, c) ==
  /\ Approved(c) /\ Indexes(c) /\ quote.id \in DOMAIN c.quotes
  /\ c.quotes[quote.id].approved = quote /\ c.quotes[quote.id].activation = a
  /\ \A s \in Sides : c.quotes[quote.id].filled[s] = 0
  /\ \A i \in DOMAIN c.quotes :
       i # quote.id => i \in DOMAIN b.quotes /\ c.quotes[i] = b.quotes[i]

\* add_or_replace of a quote that is accepted.
LEMMA AddOrReplaceKeeps ==
  ASSUME NEW b, Approved(b), Indexes(b), NEW quote \in ApprovedQuotes, NEW ts, NEW a,
         Accepts(b, quote, ts)
  PROVE  QuoteAdded(b, quote, a, AddOrReplace(b, quote, ts, a))
<1> DEFINE ids == ReplacedBy(b, quote)
           d == Removed(b, ids)
           c == AddOrReplace(b, quote, ts, a)
<1>1. \A g \in DOMAIN b.by_group : /\ b.by_group[g] \in DOMAIN b.quotes
                                   /\ b.quotes[b.by_group[g]].approved.group = g
  BY DEF Indexes
<1>2. ids \in SUBSET DOMAIN b.quotes
  BY <1>1, Zenon DEF ReplacedBy
<1>3. /\ quote.group \in DOMAIN b.by_group => b.by_group[quote.group] \in ids
      /\ \A i \in DOMAIN b.quotes : b.quotes[i].approved.group = quote.group => i \in ids
  BY DEF ReplacedBy, Indexes
<1> HIDE DEF ids
<1>4. /\ Approved(d) /\ Indexes(d)
      /\ DOMAIN d.quotes = DOMAIN b.quotes \ ids
      /\ \A i \in DOMAIN d.quotes : d.quotes[i] = b.quotes[i]
      /\ DOMAIN d.by_group \subseteq DOMAIN b.by_group
      /\ DOMAIN d.by_hash \subseteq DOMAIN b.by_hash
  BY <1>2, RemovedKeeps, Zenon
<1> HIDE DEF d
<1>5. quote.group \notin DOMAIN d.by_group
  BY <1>3, <1>4 DEF Indexes
<1>6. quote.id \notin DOMAIN d.quotes
  BY <1>3, <1>4, QuotesAssumption DEF Approved
<1>7. quote.hash # NoHash => quote.hash \notin DOMAIN d.by_hash
  BY <1>4 DEF Accepts
<1>8. c = Added(d, quote, ts, a)
  BY Zenon DEF AddOrReplace, d, ids
<1>9. /\ Approved(c) /\ Indexes(c)
      /\ DOMAIN c.quotes = DOMAIN d.quotes \cup {quote.id}
      /\ c.quotes[quote.id].approved = quote /\ c.quotes[quote.id].activation = a
      /\ \A s \in Sides : c.quotes[quote.id].filled[s] = 0
      /\ \A i \in DOMAIN d.quotes : c.quotes[i] = d.quotes[i]
  BY <1>4, <1>5, <1>6, <1>7, <1>8, AddedKeeps
<1> HIDE DEF c
<1> QED BY <1>4, <1>9, Zenon DEF c, QuoteAdded

-----------------------------------------------------------------------------
(* What an event fills.                                                     *)

\* The smaller of two integers.
LEMMA MinOfTwo ==
  ASSUME NEW x \in Int, NEW y \in Int
  PROVE  Min({x, y}) = IF x <= y THEN x ELSE y
<1>1. \E m \in {x, y} : \A z \in {x, y} : m <= z
  OBVIOUS
<1>2. Min({x, y}) \in {x, y} /\ \A z \in {x, y} : Min({x, y}) <= z
  BY <1>1 DEF Min
<1> QED BY <1>2

\* The larger of two integers.
LEMMA MaxOfTwo ==
  ASSUME NEW x \in Int, NEW y \in Int
  PROVE  Max({x, y}) = IF x >= y THEN x ELSE y
<1>1. \E m \in {x, y} : \A z \in {x, y} : m >= z
  OBVIOUS
<1>2. Max({x, y}) \in {x, y} /\ \A z \in {x, y} : Max({x, y}) >= z
  BY <1>1 DEF Max
<1> QED BY <1>2

\* An event fills no more than what is left of a side.
LEMMA CappedWithin ==
  ASSUME config.max_fill_qty_per_trade \in Int, NEW remaining \in Int, NEW evidence \in Int
  PROVE  /\ CappedQty(remaining, evidence) \in Nat
         /\ CappedQty(remaining, evidence) > 0 => CappedQty(remaining, evidence) <= remaining
<1> DEFINE most == config.max_fill_qty_per_trade
           qty == IF config.allow_partial_fills THEN Min({remaining, evidence})
                  ELSE IF evidence >= remaining THEN remaining ELSE 0
<1>1. CASE remaining <= 0 \/ evidence <= 0
  <2>1. CappedQty(remaining, evidence) = 0
    BY <1>1 DEF CappedQty
  <2> QED BY <2>1
<1>2. CASE ~ (remaining <= 0 \/ evidence <= 0)
  <2>1. Min({remaining, evidence}) = IF remaining <= evidence THEN remaining ELSE evidence
    BY MinOfTwo
  <2>2. qty \in Nat /\ qty <= remaining
    BY <1>2, <2>1
  <2>3. CappedQty(remaining, evidence) = IF most > 0 THEN Min({qty, most}) ELSE qty
    BY <1>2 DEF CappedQty
  <2> HIDE DEF qty
  <2>4. Min({qty, most}) = IF qty <= most THEN qty ELSE most
    BY <2>2, MinOfTwo
  <2> QED BY <2>2, <2>3, <2>4
<1> QED BY <1>1, <1>2

\* What a market event is evidence of is an integer (PaperMakerFillModel::evaluate).
LEMMA EvidenceType ==
  ASSUME NEW q, NEW side, NEW event \in MarketEvents
  PROVE  Evidence(q, side, event) \in Int
<1> DEFINE opposite == IF side = "Bid" THEN event.asks ELSE event.bids
<1>1. /\ event.trade.lots \in Int /\ 0 \in Int
      /\ opposite # << >> => opposite[1].size \in Int
  BY EventsAssumption
<1>2. event.bids # << >> /\ event.asks # << >> => Max({1, opposite[1].size}) \in Int
  BY <1>1, MaxOfTwo
<1> QED BY <1>1, <1>2 DEF Evidence

\* What an event fills of one side of a quote: within what is left of it.
LEMMA FillWithin ==
  ASSUME config.max_fill_qty_per_trade \in Int, NEW event \in MarketEvents,
         NEW q, q.approved \in ApprovedQuotes, NEW side \in Sides,
         side \in DOMAIN q.approved.legs => q.filled[side] \in Int
  PROVE  /\ FillLots(q, side, event) \in Nat
         /\ FillLots(q, side, event) > 0 =>
              /\ side \in DOMAIN q.approved.legs
              /\ FillLots(q, side, event) <= Remaining(q, side)
              /\ Remaining(q, side) \in Int
<1>1. CASE q.approved.asset = event.asset /\ side \in DOMAIN q.approved.legs
  <2>1. Remaining(q, side) \in Int
    BY <1>1, QuotesAssumption DEF Remaining
  <2>2. FillLots(q, side, event) = CappedQty(Remaining(q, side), Evidence(q, side, event))
    BY <1>1 DEF FillLots
  <2> QED BY <1>1, <2>1, <2>2, EvidenceType, CappedWithin, Zenon
<1>2. CASE ~ (q.approved.asset = event.asset /\ side \in DOMAIN q.approved.legs)
  <2>1. FillLots(q, side, event) = 0
    BY <1>2 DEF FillLots
  <2> QED BY <2>1
<1> QED BY <1>1, <1>2

\* The fills of an event in some order: each once.
LEMMA ListedEnumerates ==
  ASSUME NEW S, IsFiniteSet(S)
  PROVE  /\ Cardinality(S) \in Nat
         /\ Listed(S) \in [1 .. Cardinality(S) -> S]
         /\ \A x \in S : \E k \in 1 .. Cardinality(S) : Listed(S)[k] = x
         /\ \A j, k \in 1 .. Cardinality(S) : Listed(S)[j] = Listed(S)[k] => j = k
<1> DEFINE n == Cardinality(S)
<1>1. n \in Nat /\ ExistsBijection(1 .. n, S)
  BY FS_CardinalityType
<1>2. \E f \in [1 .. n -> S] : IsInjective(f)
  BY <1>1 DEF ExistsBijection, Bijection, Injection
<1> DEFINE f == Listed(S)
<1>3. f \in [1 .. n -> S] /\ IsInjective(f)
  BY <1>2, Zenon DEF Listed, IsInjective
<1> HIDE DEF f
<1>4. f \in Injection(1 .. n, S)
  BY <1>3 DEF Injection
<1>5. Cardinality(1 .. n) = n
  BY <1>1, FS_Interval
<1>6. f \in Surjection(1 .. n, S)
  BY <1>4, <1>5, FS_Injection
<1>7. \A x \in S : \E k \in 1 .. n : f[k] = x
  BY <1>6 DEF Surjection
<1>8. \A j, k \in 1 .. n : f[j] = f[k] => j = k
  BY <1>3 DEF IsInjective
<1> QED BY <1>1, <1>3, <1>7, <1>8 DEF f

-----------------------------------------------------------------------------
(* The paper maker.                                                         *)

\* LotsOf, of any history of reports.
Lots(e, a, side) ==
  [k \in DOMAIN e |->
     IF e[k].activation = a /\ e[k].report.side = side THEN e[k].report.lots ELSE 0]

\* A report is of a quote that was activated, and says what is left of its side after all
\* the reports up to it.
ReportAt(e, k, quotes) ==
  LET a == e[k].activation
      r == e[k].report
  IN  /\ a \in DOMAIN quotes /\ r.side \in DOMAIN quotes[a].legs
      /\ r.lots \in Nat /\ r.lots > 0
      /\ r.remaining = quotes[a].legs[r.side].lots - PrefixSum(Lots(e, a, r.side), k)

History(e, quotes) == \A k \in DOMAIN e : ReportAt(e, k, quotes)

\* What a history sums up to for an active quote is what the book counts as filled.
Counted(b, e, quotes) ==
  /\ \A i \in DOMAIN b.quotes :
       /\ b.quotes[i].activation \in DOMAIN quotes
       /\ quotes[b.quotes[i].activation] = b.quotes[i].approved
       /\ \A s \in DOMAIN b.quotes[i].approved.legs :
            b.quotes[i].filled[s] = PrefixSum(Lots(e, b.quotes[i].activation, s), Len(e))
  /\ \A i, j \in DOMAIN b.quotes : b.quotes[i].activation = b.quotes[j].activation => i = j

\* No activation has reported more than was approved.
Within(e, quotes) ==
  \A a \in DOMAIN quotes :
    /\ quotes[a] \in ApprovedQuotes
    /\ \A s \in DOMAIN quotes[a].legs : PrefixSum(Lots(e, a, s), Len(e)) <= quotes[a].legs[s].lots

\* A sum of reported lots is a natural number.
LEMMA LotsSum ==
  ASSUME NEW e, IsList(e), NEW quotes, History(e, quotes), NEW a, NEW s
  PROVE  /\ \A k \in 1 .. Len(e) : Lots(e, a, s)[k] \in Nat
         /\ \A n \in 0 .. Len(e) : PrefixSum(Lots(e, a, s), n) \in Nat
<1>1. Len(e) \in Nat /\ DOMAIN e = 1 .. Len(e)
  BY ListLength, Zenon
<1>2. \A k \in 1 .. Len(e) : Lots(e, a, s)[k] \in Nat
  BY <1>1, Zenon DEF Lots, History, ReportAt
<1>3. ASSUME NEW n \in 0 .. Len(e) PROVE PrefixSum(Lots(e, a, s), n) \in Nat
  <2>1. n \in Nat /\ \A k \in 1 .. n : Lots(e, a, s)[k] \in Nat
    BY <1>1, <1>2
  <2> QED BY <2>1, PrefixSumBounds
<1> QED BY <1>2, <1>3

\* Of the m entries of f after n, at most the p-th is of this activation and side.
OnlyAt(f, n, m, a, s, p) ==
  \A j \in 1 .. m : f[n + j].activation = a /\ f[n + j].report.side = s
                      => j = p /\ f[n + j].report.lots \in Nat

\* The sums over f, which has m entries more than e: only the p-th of them adds to e's.
SumsTo(f, e, m, a, s, p) ==
  /\ \A k \in 0 .. Len(e) : PrefixSum(Lots(f, a, s), k) = PrefixSum(Lots(e, a, s), k)
  /\ \A q \in 0 .. m :
       PrefixSum(Lots(f, a, s), Len(e) + q)
         = PrefixSum(Lots(e, a, s), Len(e))
             + (IF p \in 1 .. q THEN Lots(f, a, s)[Len(e) + p] ELSE 0)

\* A list with more behind it sums up to what it did, and what is of this activation behind it.
LEMMA AppendedSum ==
  ASSUME NEW e, IsList(e), NEW quotes, History(e, quotes),
         NEW m \in Nat, NEW f, DOMAIN f = 1 .. Len(e) + m,
         \A k \in 1 .. Len(e) : f[k] = e[k],
         NEW a, NEW s, NEW p \in Nat, OnlyAt(f, Len(e), m, a, s, p)
  PROVE  SumsTo(f, e, m, a, s, p)
<1> DEFINE n == Len(e)
           old == Lots(e, a, s)
           new == Lots(f, a, s)
<1>1. n \in Nat /\ DOMAIN e = 1 .. n
  BY ListLength
<1>2. \A k \in 1 .. n : new[k] = old[k]
  BY <1>1 DEF Lots
<1>3. \A j \in 1 .. m : new[n + j] \in Int /\ (j # p => new[n + j] = 0)
  <2> SUFFICES ASSUME NEW j \in 1 .. m PROVE new[n + j] \in Int /\ (j # p => new[n + j] = 0)
    OBVIOUS
  <2>1. n + j \in DOMAIN f
    BY <1>1
  <2>2. new[n + j] = IF f[n + j].activation = a /\ f[n + j].report.side = s
                     THEN f[n + j].report.lots ELSE 0
    BY <2>1 DEF Lots
  <2>3. f[n + j].activation = a /\ f[n + j].report.side = s
          => j = p /\ f[n + j].report.lots \in Nat
    BY DEF OnlyAt
  <2> HIDE DEF new, n
  <2> QED BY <2>2, <2>3
<1>4. PrefixSum(old, n) \in Nat
  BY <1>1, LotsSum
<1> HIDE DEF n, old, new
<1>5. ASSUME NEW k \in 0 .. n PROVE PrefixSum(new, k) = PrefixSum(old, k)
  <2>1. k \in Nat /\ \A i \in 1 .. k : new[i] = old[i]
    BY <1>1, <1>2
  <2> QED BY <2>1, PrefixSumEqual
<1>6. PrefixSum(new, n) = PrefixSum(old, n) /\ PrefixSum(new, n) \in Int
  BY <1>1, <1>4, <1>5
<1>7. \A q \in 0 .. m :
        PrefixSum(new, n + q) = PrefixSum(new, n) + (IF p \in 1 .. q THEN new[n + p] ELSE 0)
  <2>1. n \in Nat /\ PrefixSum(new, n) \in Int
    BY <1>1, <1>6
  <2> QED BY <1>3, <2>1, TailSum, Zenon
<1> QED BY <1>5, <1>6, <1>7 DEF SumsTo, n, old, new

Entry(b, event, fill) ==
  LET q == b.quotes[fill[1]]
  IN  [activation |-> q.activation,
       report     |-> Report(q, fill[1], fill[2], FillLots(q, fill[2], event))]

\* The state of a book, its history and its approved quotes, between two calls.
Whole(b, e, quotes) ==
  /\ Approved(b) /\ Indexes(b) /\ IsList(e)
  /\ History(e, quotes) /\ Counted(b, e, quotes) /\ Within(e, quotes)

\* What it says of one active quote, and of two.
LEMMA WholeCounts ==
  ASSUME NEW b, NEW e, NEW quotes, Whole(b, e, quotes), NEW i \in DOMAIN b.quotes
  PROVE  /\ b.quotes[i].activation \in DOMAIN quotes
         /\ quotes[b.quotes[i].activation] = b.quotes[i].approved
         /\ \A s \in DOMAIN b.quotes[i].approved.legs :
              b.quotes[i].filled[s] = PrefixSum(Lots(e, b.quotes[i].activation, s), Len(e))
<1>1. Counted(b, e, quotes)
  BY DEF Whole
<1> QED BY <1>1 DEF Counted

LEMMA WholeTellsApart ==
  ASSUME NEW b, NEW e, NEW quotes, Whole(b, e, quotes),
         NEW i \in DOMAIN b.quotes, NEW j \in DOMAIN b.quotes,
         b.quotes[i].activation = b.quotes[j].activation
  PROVE  i = j
<1>1. Counted(b, e, quotes)
  BY DEF Whole
<1> QED BY <1>1 DEF Counted

\* The history after the reports of an event.
EventHistory(b, e, event) ==
  LET fills == Listed(FillsOf(b, event))
  IN  e \o [k \in DOMAIN fills |-> Entry(b, event, fills[k])]

\* History f follows history e through an event: each active quote has its fills added, and
\* nothing else is reported.
AddsFills(b, e, f, event) ==
  /\ \A i \in DOMAIN b.quotes : \A s \in DOMAIN b.quotes[i].approved.legs :
       PrefixSum(Lots(f, b.quotes[i].activation, s), Len(f))
         = b.quotes[i].filled[s] + FillLots(b.quotes[i], s, event)
  /\ \A a : (\A i \in DOMAIN b.quotes : b.quotes[i].activation # a) =>
       \A s : PrefixSum(Lots(f, a, s), Len(f)) = PrefixSum(Lots(e, a, s), Len(e))

\* The reports of an event: one for each side that it fills, and it adds the lots of the
\* fill to what was reported of that side.
LEMMA EventReports ==
  ASSUME config.max_fill_qty_per_trade \in Int, NEW event \in MarketEvents,
         NEW b, NEW e, NEW quotes, Whole(b, e, quotes)
  PROVE  /\ IsList(EventHistory(b, e, event)) /\ History(EventHistory(b, e, event), quotes)
         /\ AddsFills(b, e, EventHistory(b, e, event), event)
<1> DEFINE F == FillsOf(b, event)
           fills == Listed(F)
           m == Cardinality(F)
           n == Len(e)
           t == [k \in DOMAIN fills |-> Entry(b, event, fills[k])]
           f == e \o t
           L(i, s) == FillLots(b.quotes[i], s, event)
<1>1. IsFiniteSet(F)
  <2>1. IsFiniteSet(Sides)
    <3>1. Sides = {"Bid"} \cup {"Ask"}
      BY DEF Sides
    <3>2. IsFiniteSet({"Bid"})
      BY FS_Singleton, Zenon
    <3> QED BY <3>1, <3>2, FS_AddElement, Zenon
  <2>2. IsFiniteSet((DOMAIN b.quotes) \X Sides)
    BY <2>1, FS_Product DEF Whole, Approved
  <2> QED BY <2>2, FS_Subset DEF FillsOf
<1>2. /\ m \in Nat /\ fills \in [1 .. m -> F]
      /\ \A x \in F : \E k \in 1 .. m : fills[k] = x
      /\ \A j, k \in 1 .. m : fills[j] = fills[k] => j = k
  BY <1>1, ListedEnumerates
<1> HIDE DEF fills, m
<1>3. n \in Nat /\ DOMAIN e = 1 .. n
  BY ListLength DEF Whole
<1>4. /\ IsList(f) /\ Len(f) = n + m /\ DOMAIN f = 1 .. n + m
      /\ \A k \in 1 .. n : f[k] = e[k]
      /\ \A j \in 1 .. m : f[n + j] = Entry(b, event, fills[j])
  <2>1. t \in [1 .. m -> {t[k] : k \in 1 .. m}]
    BY <1>2
  <2>2. \A j \in 1 .. m : t[j] = Entry(b, event, fills[j])
    BY <1>2
  <2>3. IsList(e)
    BY DEF Whole
  <2> HIDE DEF t
  <2>4. IsJoin(e \o t, e, m, t)
    BY <1>2, <2>1, <2>3, ListJoin, Zenon
  <2> QED BY <2>2, <2>4, Zenon DEF IsJoin
<1> HIDE DEF f
\* A fill is of an active quote and a side it has, and within what is left.
<1>5. ASSUME NEW i \in DOMAIN b.quotes, NEW s \in Sides
      PROVE  /\ L(i, s) \in Nat
             /\ L(i, s) > 0 => /\ s \in DOMAIN b.quotes[i].approved.legs
                               /\ L(i, s) <= Remaining(b.quotes[i], s)
                               /\ Remaining(b.quotes[i], s) \in Int
  <2>1. b.quotes[i].approved \in ApprovedQuotes
    BY DEF Whole, Approved
  <2>2. s \in DOMAIN b.quotes[i].approved.legs => b.quotes[i].filled[s] \in Int
    <3> SUFFICES ASSUME s \in DOMAIN b.quotes[i].approved.legs
                 PROVE  b.quotes[i].filled[s] \in Int
      BY Zenon
    <3>1. b.quotes[i].filled[s] = PrefixSum(Lots(e, b.quotes[i].activation, s), n)
      BY DEF Whole, Counted
    <3>2. PrefixSum(Lots(e, b.quotes[i].activation, s), n) \in Nat
      BY <1>3, LotsSum DEF Whole
    <3> QED BY <3>1, <3>2
  <2> QED BY <2>1, <2>2, FillWithin
<1>6. ASSUME NEW j \in 1 .. m
      PROVE  /\ fills[j][1] \in DOMAIN b.quotes /\ fills[j][2] \in Sides
             /\ fills[j] = << fills[j][1], fills[j][2] >>
             /\ L(fills[j][1], fills[j][2]) > 0
             /\ f[n + j].activation = b.quotes[fills[j][1]].activation
             /\ f[n + j].report.side = fills[j][2]
             /\ f[n + j].report.lots = L(fills[j][1], fills[j][2])
             /\ f[n + j].report.remaining
                  = Remaining(b.quotes[fills[j][1]], fills[j][2]) - L(fills[j][1], fills[j][2])
  <2> DEFINE i == fills[j][1]
             s == fills[j][2]
             q == b.quotes[i]
  <2>1. fills[j] \in F
    BY <1>2
  <2>2. i \in DOMAIN b.quotes /\ s \in Sides /\ fills[j] = << i, s >> /\ L(i, s) > 0
    BY <2>1 DEF FillsOf
  <2>3. f[n + j] = [activation |-> q.activation, report |-> Report(q, i, s, L(i, s))]
    BY <1>4, Zenon DEF Entry
  <2>4. L(i, s) \in Nat /\ L(i, s) <= Remaining(q, s) /\ Remaining(q, s) \in Int
    BY <1>5, <2>2, Zenon
  <2>5. Max({0, Remaining(q, s) - L(i, s)}) = Remaining(q, s) - L(i, s)
    <3>1. Remaining(q, s) - L(i, s) \in Int /\ Remaining(q, s) - L(i, s) >= 0
      BY <2>4
    <3> HIDE DEF L, q
    <3> QED BY <3>1, MaxOfTwo
  <2>6. /\ Report(q, i, s, L(i, s)).side = s /\ Report(q, i, s, L(i, s)).lots = L(i, s)
        /\ Report(q, i, s, L(i, s)).remaining = Remaining(q, s) - L(i, s)
    <3> HIDE DEF L, q
    <3> QED BY <2>5, Zenon DEF Report
  <2>7. f[n + j].activation = q.activation /\ f[n + j].report = Report(q, i, s, L(i, s))
    <3> HIDE DEF L, q
    <3> QED BY <2>3
  <2> HIDE DEF L
  <2> QED BY <2>2, <2>6, <2>7, Zenon
\* Of the new reports, at most that of the fill <<i, s>> counts for the quote i and side s.
<1>7. ASSUME NEW i \in DOMAIN b.quotes, NEW s, NEW j \in 1 .. m,
             f[n + j].activation = b.quotes[i].activation, f[n + j].report.side = s
      PROVE  fills[j] = << i, s >> /\ f[n + j].report.lots \in Nat
  <2>1. fills[j][1] = i
    BY <1>6, <1>7 DEF Whole, Counted
  <2> QED BY <1>5, <1>6, <1>7, <2>1, Zenon
<1> HIDE DEF L
<1>8. ASSUME NEW a, NEW s, NEW p \in Nat, OnlyAt(f, n, m, a, s, p)
      PROVE  SumsTo(f, e, m, a, s, p)
  BY <1>2, <1>4, <1>8, AppendedSum, Zenon DEF Whole
<1>9. ASSUME NEW i \in DOMAIN b.quotes, NEW s, NEW p \in 1 .. m, fills[p] = << i, s >>
      PROVE  LET a == b.quotes[i].activation
             IN  /\ \A k \in 0 .. n :
                      PrefixSum(Lots(f, a, s), k) = PrefixSum(Lots(e, a, s), k)
                 /\ \A q \in p .. m :
                      PrefixSum(Lots(f, a, s), n + q) = PrefixSum(Lots(e, a, s), n) + L(i, s)
  <2> DEFINE a == b.quotes[i].activation
  <2>1. OnlyAt(f, n, m, a, s, p)
    <3> SUFFICES ASSUME NEW j \in 1 .. m, f[n + j].activation = a, f[n + j].report.side = s
                 PROVE  j = p /\ f[n + j].report.lots \in Nat
      BY Zenon DEF OnlyAt
    <3>1. fills[j] = << i, s >> /\ f[n + j].report.lots \in Nat
      BY <1>7, Zenon
    <3>2. fills[j] = fills[p]
      BY <1>9, <3>1, Zenon
    <3> QED BY <1>2, <3>1, <3>2, Zenon
  <2>2. /\ \A k \in 0 .. n : PrefixSum(Lots(f, a, s), k) = PrefixSum(Lots(e, a, s), k)
        /\ \A q \in 0 .. m :
             PrefixSum(Lots(f, a, s), n + q)
               = PrefixSum(Lots(e, a, s), n)
                   + (IF p \in 1 .. q THEN Lots(f, a, s)[n + p] ELSE 0)
    <3>1. p \in Nat
      BY <1>2
    <3>2. SumsTo(f, e, m, a, s, p)
      BY <1>8, <2>1, <3>1, Zenon
    <3> QED BY <3>2 DEF SumsTo
  <2>3. Lots(f, a, s)[n + p] = L(i, s)
    <3>1. n + p \in DOMAIN f
      BY <1>2, <1>3, <1>4
    <3>2. f[n + p].activation = a /\ f[n + p].report.side = s /\ f[n + p].report.lots = L(i, s)
      BY <1>6, <1>9
    <3> QED BY <3>1, <3>2, Zenon DEF Lots
  <2>4. \A q \in p .. m : q \in 0 .. m /\ p \in 1 .. q
    BY <1>2
  <2> QED BY <2>2, <2>3, <2>4, Zenon
<1>10. ASSUME NEW i \in DOMAIN b.quotes, NEW s \in DOMAIN b.quotes[i].approved.legs
       PROVE  PrefixSum(Lots(f, b.quotes[i].activation, s), n + m)
                = b.quotes[i].filled[s] + L(i, s)
  <2> DEFINE a == b.quotes[i].activation
  <2>1. b.quotes[i].filled[s] = PrefixSum(Lots(e, a, s), n)
    BY Zenon DEF Whole, Counted
  <2>2. s \in Sides
    BY QuotesAssumption, Zenon DEF Whole, Approved
  <2>3. L(i, s) \in Nat /\ PrefixSum(Lots(e, a, s), n) \in Nat
    BY <1>3, <1>5, <2>2, LotsSum DEF Whole
  <2>4. CASE L(i, s) > 0
    <3>1. << i, s >> \in F
      BY <2>2, <2>4, Zenon DEF FillsOf, L
    <3>2. PICK p \in 1 .. m : fills[p] = << i, s >>
      BY <1>2, <3>1, Zenon
    <3>3. m \in p .. m
      BY <1>2
    <3> QED BY <1>9, <2>1, <3>2, <3>3, Zenon
  <2>5. CASE L(i, s) = 0
    <3>1. \A j \in 1 .. m : ~ (f[n + j].activation = a /\ f[n + j].report.side = s)
      BY <1>6, <1>7, <2>5
    <3>2. SumsTo(f, e, m, a, s, 0)
      <4>1. OnlyAt(f, n, m, a, s, 0)
        BY <3>1, Zenon DEF OnlyAt
      <4> QED BY <1>8, <4>1
    <3>3. ~ (0 \in 1 .. m) /\ m \in 0 .. m
      BY <1>2
    <3> QED BY <2>1, <2>3, <2>5, <3>2, <3>3, Zenon DEF SumsTo
  <2> QED BY <2>3, <2>4, <2>5
<1>11. ASSUME NEW a, \A i \in DOMAIN b.quotes : b.quotes[i].activation # a, NEW s
       PROVE  /\ PrefixSum(Lots(f, a, s), n + m) = PrefixSum(Lots(e, a, s), n)
              /\ \A k \in 0 .. n : PrefixSum(Lots(f, a, s), k) = PrefixSum(Lots(e, a, s), k)
  <2>1. \A j \in 1 .. m : f[n + j].activation # a
    BY <1>6, <1>11, Zenon
  <2>2. SumsTo(f, e, m, a, s, 0)
    <3>1. OnlyAt(f, n, m, a, s, 0)
      BY <2>1, Zenon DEF OnlyAt
    <3> QED BY <1>8, <3>1, Zenon
  <2>3. ~ (0 \in 1 .. m) /\ m \in 0 .. m /\ PrefixSum(Lots(e, a, s), n) \in Nat
    BY <1>2, <1>3, LotsSum DEF Whole
  <2> QED BY <2>2, <2>3 DEF SumsTo
\* What a report says is left of its side.
<1>12. History(f, quotes)
  <2>1. ASSUME NEW k \in 1 .. n PROVE ReportAt(f, k, quotes)
    <3> DEFINE a == f[k].activation
               r == f[k].report
    <3>1. f[k] = e[k]
      BY <1>4, Zenon
    <3>2. /\ a \in DOMAIN quotes /\ r.side \in DOMAIN quotes[a].legs
          /\ r.lots \in Nat /\ r.lots > 0
          /\ r.remaining = quotes[a].legs[r.side].lots - PrefixSum(Lots(e, a, r.side), k)
      BY <1>3, <3>1, Zenon DEF Whole, History, ReportAt
    <3>3. k \in 0 .. n /\ n \in 0 .. n
      BY <1>3
    <3>4. PrefixSum(Lots(f, a, r.side), k) = PrefixSum(Lots(e, a, r.side), k)
      <4>1. CASE \A i \in DOMAIN b.quotes : b.quotes[i].activation # a
        BY <1>11, <3>3, <4>1, Zenon
      <4>2. ASSUME NEW i \in DOMAIN b.quotes, b.quotes[i].activation = a
            PROVE  PrefixSum(Lots(f, a, r.side), k) = PrefixSum(Lots(e, a, r.side), k)
        <5>1. \A j \in 1 .. m : f[n + j].activation = a /\ f[n + j].report.side = r.side
                => fills[j] = << i, r.side >> /\ f[n + j].report.lots \in Nat
          BY <1>7, <4>2, Zenon
        <5>2. ASSUME NEW p \in 1 .. m, fills[p] = << i, r.side >>
              PROVE  PrefixSum(Lots(f, a, r.side), k) = PrefixSum(Lots(e, a, r.side), k)
          BY <1>9, <3>3, <4>2, <5>2
        <5>3. ASSUME \A p \in 1 .. m : fills[p] # << i, r.side >>
              PROVE  PrefixSum(Lots(f, a, r.side), k) = PrefixSum(Lots(e, a, r.side), k)
          <6>1. OnlyAt(f, n, m, a, r.side, 0)
            BY <5>1, <5>3, Zenon DEF OnlyAt
          <6>2. SumsTo(f, e, m, a, r.side, 0)
            BY <1>8, <6>1, Zenon
          <6> QED BY <3>3, <6>2, Zenon DEF SumsTo
        <5> QED BY <5>2, <5>3, Zenon
      <4> QED BY <4>1, <4>2, Zenon
    <3> QED BY <3>2, <3>4, Zenon DEF ReportAt
  <2>2. ASSUME NEW j \in 1 .. m PROVE ReportAt(f, n + j, quotes)
    <3> DEFINE i == fills[j][1]
               s == fills[j][2]
               a == b.quotes[i].activation
    <3>1. /\ i \in DOMAIN b.quotes /\ s \in Sides /\ fills[j] = << i, s >>
          /\ f[n + j].activation = a /\ f[n + j].report.side = s
          /\ f[n + j].report.lots = L(i, s) /\ L(i, s) > 0
          /\ f[n + j].report.remaining = Remaining(b.quotes[i], s) - L(i, s)
      BY <1>6, Zenon DEF L
    <3>2. L(i, s) \in Nat /\ s \in DOMAIN b.quotes[i].approved.legs
      BY <1>5, <3>1, Zenon
    <3> HIDE DEF i, s
    <3>3. /\ a \in DOMAIN quotes /\ quotes[a] = b.quotes[i].approved
          /\ b.quotes[i].filled[s] = PrefixSum(Lots(e, a, s), n)
      BY <3>1, <3>2, Zenon DEF Whole, Counted
    <3>4. j \in j .. m
      BY <1>2
    <3>5. PrefixSum(Lots(f, a, s), n + j) = PrefixSum(Lots(e, a, s), n) + L(i, s)
      BY <1>9, <3>1, <3>4, Zenon
    <3>6. PrefixSum(Lots(e, a, s), n) \in Nat /\ b.quotes[i].approved.legs[s].lots \in Nat
      BY <1>3, <3>1, <3>2, LotsSum, QuotesAssumption DEF Whole, Approved
    <3>7. Remaining(b.quotes[i], s) - L(i, s)
            = quotes[a].legs[s].lots - PrefixSum(Lots(f, a, s), n + j)
      BY <3>2, <3>3, <3>5, <3>6 DEF Remaining
    <3> QED BY <3>1, <3>2, <3>3, <3>7, Zenon DEF ReportAt
  <2>3. ASSUME NEW k \in DOMAIN f, k \notin 1 .. n PROVE \E j \in 1 .. m : k = n + j
    <3>1. k \in Int /\ k > n /\ k <= n + m
      BY <1>2, <1>3, <1>4, <2>3
    <3>2. k - n \in 1 .. m /\ k = n + (k - n)
      BY <1>2, <1>3, <3>1
    <3> QED BY <3>2, Zenon
  <2> QED BY <2>1, <2>2, <2>3, Zenon DEF History
<1>13. f = EventHistory(b, e, event)
  BY Zenon DEF EventHistory, f, t, fills
<1>14. AddsFills(b, e, f, event)
  BY <1>4, <1>10, <1>11, Zenon DEF AddsFills, L
<1> QED BY <1>4, <1>12, <1>13, <1>14

\* The book after an event, and the reports that were made of it.
LEMMA WithFillsKeeps ==
  ASSUME config.max_fill_qty_per_trade \in Int, NEW event \in MarketEvents,
         NEW b, NEW e, NEW quotes, Whole(b, e, quotes),
         NEW f, IsList(f), History(f, quotes),
         AddsFills(b, e, f, event)
  PROVE  Whole(WithFills(b, event), f, quotes)
<1> DEFINE after == [b EXCEPT !.quotes = [i \in DOMAIN b.quotes |-> Filled(b.quotes[i], event)]]
           done == {i \in {x[1] : x \in FillsOf(b, event)} : QuoteFullyFilled(after.quotes[i])}
           c == Removed(after, done)
           L(i, s) == FillLots(b.quotes[i], s, event)
<1>1. DOMAIN b = BookFields /\ Approved(b) /\ Indexes(b)
  BY DEF Whole, Approved
<1>2. /\ DOMAIN after = BookFields /\ DOMAIN after.quotes = DOMAIN b.quotes
      /\ after.by_group = b.by_group /\ after.by_hash = b.by_hash
      /\ \A i \in DOMAIN b.quotes : after.quotes[i] = Filled(b.quotes[i], event)
  BY <1>1 DEF BookFields
<1>3. done \in SUBSET DOMAIN after.quotes
  BY <1>2 DEF FillsOf
<1>4. c = WithFills(b, event)
  BY Zenon DEF WithFills
<1> HIDE DEF after, done, c
<1>5. \A i \in DOMAIN b.quotes :
        /\ DOMAIN after.quotes[i] = QuoteFields
        /\ after.quotes[i].approved = b.quotes[i].approved
        /\ after.quotes[i].activation = b.quotes[i].activation
        /\ after.quotes[i].filled =
             [s \in Sides |->
                IF L(i, s) > 0
                THEN Min({b.quotes[i].approved.legs[s].lots, b.quotes[i].filled[s] + L(i, s)})
                ELSE b.quotes[i].filled[s]]
  <2> SUFFICES ASSUME NEW i \in DOMAIN b.quotes
               PROVE  /\ DOMAIN after.quotes[i] = QuoteFields
                      /\ after.quotes[i].approved = b.quotes[i].approved
                      /\ after.quotes[i].activation = b.quotes[i].activation
                      /\ after.quotes[i].filled =
                           [s \in Sides |->
                              IF L(i, s) > 0
                              THEN Min({b.quotes[i].approved.legs[s].lots,
                                        b.quotes[i].filled[s] + L(i, s)})
                              ELSE b.quotes[i].filled[s]]
    BY Zenon
  <2> DEFINE q == b.quotes[i]
  <2>1. DOMAIN q = QuoteFields /\ after.quotes[i] = Filled(q, event)
    BY <1>1, <1>2, Zenon DEF Approved
  <2> HIDE DEF q
  <2>2. /\ DOMAIN Filled(q, event) = QuoteFields
        /\ Filled(q, event).approved = q.approved /\ Filled(q, event).activation = q.activation
        /\ Filled(q, event).filled =
             [s \in Sides |-> IF FillLots(q, s, event) > 0
                              THEN Min({q.approved.legs[s].lots,
                                        q.filled[s] + FillLots(q, s, event)})
                              ELSE q.filled[s]]
    BY <2>1, Zenon DEF Filled, QuoteFields
  <2> QED BY <2>1, <2>2, Zenon DEF q
<1>6. /\ Approved(after) /\ Indexes(after)
      /\ \A i \in DOMAIN b.quotes : /\ after.quotes[i].approved = b.quotes[i].approved
                                   /\ after.quotes[i].activation = b.quotes[i].activation
  <2>1. \A i \in DOMAIN b.quotes :
          /\ DOMAIN after.quotes[i] = QuoteFields
          /\ after.quotes[i].approved = b.quotes[i].approved
          /\ after.quotes[i].activation = b.quotes[i].activation
          /\ DOMAIN after.quotes[i].filled = Sides
    BY <1>5, Zenon
  <2>2. Approved(after)
    BY <1>1, <1>2, <2>1 DEF Approved
  <2>3. Indexes(after)
    <3>1. /\ {after.quotes[i].approved.group : i \in DOMAIN after.quotes}
               = {b.quotes[i].approved.group : i \in DOMAIN b.quotes}
          /\ {after.quotes[i].approved.hash : i \in DOMAIN after.quotes}
               = {b.quotes[i].approved.hash : i \in DOMAIN b.quotes}
      BY <1>2, <2>1, Zenon
    <3>2. \A i \in DOMAIN after.quotes :
            /\ after.by_group[after.quotes[i].approved.group] = i
            /\ after.quotes[i].approved.hash # NoHash => after.by_hash[after.quotes[i].approved.hash] = i
      <4> TAKE i \in DOMAIN after.quotes
      <4>1. i \in DOMAIN b.quotes /\ after.quotes[i].approved = b.quotes[i].approved
        BY <1>2, <2>1, Zenon
      <4>2. /\ b.by_group[b.quotes[i].approved.group] = i
            /\ b.quotes[i].approved.hash # NoHash => b.by_hash[b.quotes[i].approved.hash] = i
        BY <1>1, <4>1, Zenon DEF Indexes
      <4>3. after.by_group = b.by_group /\ after.by_hash = b.by_hash
        BY <1>2, Zenon
      <4> QED BY <4>1, <4>2, <4>3, Zenon
    <3>3. /\ DOMAIN after.by_group = {after.quotes[i].approved.group : i \in DOMAIN after.quotes}
          /\ DOMAIN after.by_hash = {after.quotes[i].approved.hash : i \in DOMAIN after.quotes} \ {NoHash}
      BY <1>1, <1>2, <3>1, Zenon DEF Indexes
    <3> QED BY <3>2, <3>3, Zenon DEF Indexes
  <2> QED BY <2>1, <2>2, <2>3, Zenon
<1>8. /\ Approved(c) /\ Indexes(c)
      /\ DOMAIN c.quotes = DOMAIN after.quotes \ done
      /\ \A i \in DOMAIN c.quotes : c.quotes[i] = after.quotes[i]
  BY <1>3, <1>6, RemovedKeeps DEF c
<1>9. ASSUME NEW i \in DOMAIN b.quotes, NEW s \in DOMAIN b.quotes[i].approved.legs
      PROVE  /\ after.quotes[i].filled[s] = b.quotes[i].filled[s] + L(i, s)
             /\ b.quotes[i].filled[s] + L(i, s) <= b.quotes[i].approved.legs[s].lots
  <2> DEFINE q == b.quotes[i]
             a == q.activation
             most == q.approved.legs[s].lots
  <2>1. q.approved \in ApprovedQuotes /\ s \in Sides /\ most \in Nat
    BY <1>1, QuotesAssumption, Zenon DEF Approved
  <2>2. /\ a \in DOMAIN quotes /\ quotes[a] = q.approved
        /\ q.filled[s] = PrefixSum(Lots(e, a, s), Len(e))
    BY Zenon DEF Whole, Counted
  <2>3. PrefixSum(Lots(e, a, s), Len(e)) <= most
    BY <2>2, Zenon DEF Whole, Within
  <2>4. q.filled[s] \in Nat /\ q.filled[s] <= most
    <3>1. Len(e) \in Nat
      BY ListLength, Zenon DEF Whole
    <3>2. PrefixSum(Lots(e, a, s), Len(e)) \in Nat
      BY <3>1, LotsSum DEF Whole
    <3> QED BY <2>2, <2>3, <3>2, Zenon
  <2>5. /\ L(i, s) \in Nat
        /\ L(i, s) > 0 => L(i, s) <= Remaining(q, s)
    BY <2>1, <2>4, FillWithin
  <2>6. after.quotes[i].filled[s] =
          IF L(i, s) > 0 THEN Min({most, q.filled[s] + L(i, s)}) ELSE q.filled[s]
    BY <1>5, <2>1, Zenon
  <2>7. Remaining(q, s) = most - q.filled[s]
    BY Zenon DEF Remaining
  <2> HIDE DEF L, q, most
  <2>8. q.filled[s] + L(i, s) \in Int /\ q.filled[s] + L(i, s) <= most
    BY <2>1, <2>4, <2>5, <2>7
  <2>9. Min({most, q.filled[s] + L(i, s)}) = q.filled[s] + L(i, s)
    BY <2>1, <2>8, MinOfTwo
  <2>10. after.quotes[i].filled[s] = q.filled[s] + L(i, s)
    BY <2>4, <2>5, <2>6, <2>9
  <2> QED BY <2>8, <2>10, Zenon DEF q, most
<1>10. Counted(c, f, quotes)
  <2>1. ASSUME NEW i \in DOMAIN c.quotes
        PROVE  /\ c.quotes[i].activation \in DOMAIN quotes
               /\ quotes[c.quotes[i].activation] = c.quotes[i].approved
               /\ \A s \in DOMAIN c.quotes[i].approved.legs :
                    c.quotes[i].filled[s] = PrefixSum(Lots(f, c.quotes[i].activation, s), Len(f))
    <3>1. /\ i \in DOMAIN b.quotes /\ c.quotes[i].filled = after.quotes[i].filled
          /\ c.quotes[i].approved = b.quotes[i].approved
          /\ c.quotes[i].activation = b.quotes[i].activation
      BY <1>2, <1>6, <1>8, Zenon
    <3>2. /\ b.quotes[i].activation \in DOMAIN quotes
          /\ quotes[b.quotes[i].activation] = b.quotes[i].approved
      BY <3>1, WholeCounts
    <3>3. ASSUME NEW s \in DOMAIN b.quotes[i].approved.legs
          PROVE  after.quotes[i].filled[s]
                   = PrefixSum(Lots(f, b.quotes[i].activation, s), Len(f))
      BY <1>9, <3>1, <3>3, Zenon DEF AddsFills
    <3> QED BY <3>1, <3>2, <3>3, Zenon
  <2>2. ASSUME NEW i \in DOMAIN c.quotes, NEW j \in DOMAIN c.quotes,
               c.quotes[i].activation = c.quotes[j].activation
        PROVE  i = j
    <3>1. \A k \in DOMAIN c.quotes :
            k \in DOMAIN b.quotes /\ c.quotes[k].activation = b.quotes[k].activation
      BY <1>2, <1>6, <1>8, Zenon
    <3> QED BY <2>2, <3>1, WholeTellsApart, Zenon
  <2> QED BY <2>1, <2>2, Zenon DEF Counted
<1>11. Within(f, quotes)
  <2> SUFFICES ASSUME NEW a \in DOMAIN quotes, NEW s \in DOMAIN quotes[a].legs
               PROVE  PrefixSum(Lots(f, a, s), Len(f)) <= quotes[a].legs[s].lots
    BY Zenon DEF Whole, Within
  <2>1. CASE \A i \in DOMAIN b.quotes : b.quotes[i].activation # a
    BY <2>1, Zenon DEF Whole, Within, AddsFills
  <2>2. ASSUME NEW i \in DOMAIN b.quotes, b.quotes[i].activation = a
        PROVE  PrefixSum(Lots(f, a, s), Len(f)) <= quotes[a].legs[s].lots
    <3>1. quotes[a] = b.quotes[i].approved
      BY <2>2, Zenon DEF Whole, Counted
    <3> QED BY <1>9, <2>2, <3>1, Zenon DEF AddsFills
  <2> QED BY <2>1, <2>2, Zenon
<1> QED BY <1>4, <1>8, <1>10, <1>11, Zenon DEF Whole

\* Quotes that go leave the sums of the others as they were.
LEMMA RemovedWhole ==
  ASSUME NEW b, NEW e, NEW quotes, Whole(b, e, quotes), NEW ids \in SUBSET DOMAIN b.quotes
  PROVE  Whole(Removed(b, ids), e, quotes)
<1> DEFINE c == Removed(b, ids)
<1>1. /\ Approved(c) /\ Indexes(c)
      /\ DOMAIN c.quotes = DOMAIN b.quotes \ ids
      /\ \A i \in DOMAIN c.quotes : c.quotes[i] = b.quotes[i]
  BY RemovedKeeps, Zenon DEF Whole
<1> HIDE DEF c
<1>2. Counted(c, e, quotes)
  <2>1. ASSUME NEW i \in DOMAIN c.quotes
        PROVE  /\ c.quotes[i].activation \in DOMAIN quotes
               /\ quotes[c.quotes[i].activation] = c.quotes[i].approved
               /\ \A s \in DOMAIN c.quotes[i].approved.legs :
                    c.quotes[i].filled[s] = PrefixSum(Lots(e, c.quotes[i].activation, s), Len(e))
    <3>1. i \in DOMAIN b.quotes /\ c.quotes[i] = b.quotes[i]
      BY <1>1, Zenon
    <3> QED BY <3>1, WholeCounts
  <2>2. ASSUME NEW i \in DOMAIN c.quotes, NEW j \in DOMAIN c.quotes,
               c.quotes[i].activation = c.quotes[j].activation
        PROVE  i = j
    <3>1. /\ i \in DOMAIN b.quotes /\ c.quotes[i] = b.quotes[i]
          /\ j \in DOMAIN b.quotes /\ c.quotes[j] = b.quotes[j]
      BY <1>1, Zenon
    <3> QED BY <2>2, <3>1, WholeTellsApart, Zenon
  <2> QED BY <2>1, <2>2, Zenon DEF Counted
<1> QED BY <1>1, <1>2, Zenon DEF Whole, c

\* A new quote starts with nothing reported.
LEMMA SubmitWhole ==
  ASSUME NEW b, NEW e, NEW quotes, Whole(b, e, quotes), IsList(quotes),
         NEW quote \in ApprovedQuotes, NEW ts, Accepts(b, quote, ts)
  PROVE  Whole(AddOrReplace(b, quote, ts, Len(quotes) + 1), e, Append(quotes, quote))
<1> DEFINE n == Len(quotes) + 1
           c == AddOrReplace(b, quote, ts, n)
           more == Append(quotes, quote)
<1>1. /\ Approved(c) /\ Indexes(c) /\ quote.id \in DOMAIN c.quotes
      /\ c.quotes[quote.id].approved = quote /\ c.quotes[quote.id].activation = n
      /\ \A s \in Sides : c.quotes[quote.id].filled[s] = 0
      /\ \A i \in DOMAIN c.quotes :
           i # quote.id => i \in DOMAIN b.quotes /\ c.quotes[i] = b.quotes[i]
  <2>1. Approved(b) /\ Indexes(b)
    BY DEF Whole
  <2>2. QuoteAdded(b, quote, n, c)
    BY <2>1, AddOrReplaceKeeps, Zenon
  <2> HIDE DEF c, n
  <2> QED BY <2>2 DEF QuoteAdded
<1>2. /\ DOMAIN more = DOMAIN quotes \cup {n} /\ n \notin DOMAIN quotes
      /\ more[n] = quote
      /\ \A a \in DOMAIN quotes : more[a] = quotes[a]
  BY ListAppend
<1> HIDE DEF c, more, n
<1>3. Len(e) \in Nat /\ DOMAIN e = 1 .. Len(e)
  BY ListLength DEF Whole
<1>4. ASSUME NEW s PROVE PrefixSum(Lots(e, n, s), Len(e)) = 0
  <2>1. \A k \in DOMAIN e : e[k].activation # n
    BY <1>2, Zenon DEF Whole, History, ReportAt
  <2>2. \A k \in 1 .. Len(e) : Lots(e, n, s)[k] = 0
    BY <1>3, <2>1, Zenon DEF Lots
  <2> QED BY <1>3, <2>2, ZeroSum, Zenon
<1>5. \A s \in DOMAIN quote.legs : s \in Sides /\ quote.legs[s].lots \in Nat
  BY QuotesAssumption, Zenon
<1>6. History(e, more)
  BY <1>2, Zenon DEF Whole, History, ReportAt
<1>7. Counted(c, e, more)
  <2>1. ASSUME NEW i \in DOMAIN c.quotes
        PROVE  /\ c.quotes[i].activation \in DOMAIN more
               /\ more[c.quotes[i].activation] = c.quotes[i].approved
               /\ \A s \in DOMAIN c.quotes[i].approved.legs :
                    c.quotes[i].filled[s] = PrefixSum(Lots(e, c.quotes[i].activation, s), Len(e))
    <3>1. CASE i = quote.id
      BY <1>1, <1>2, <1>4, <1>5, <3>1, Zenon
    <3>2. CASE i # quote.id
      <4>1. i \in DOMAIN b.quotes /\ c.quotes[i] = b.quotes[i]
        BY <1>1, <3>2, Zenon
      <4>2. /\ b.quotes[i].activation \in DOMAIN quotes
            /\ quotes[b.quotes[i].activation] = b.quotes[i].approved
            /\ \A s \in DOMAIN b.quotes[i].approved.legs :
                 b.quotes[i].filled[s] = PrefixSum(Lots(e, b.quotes[i].activation, s), Len(e))
        BY <4>1, WholeCounts
      <4>3. /\ b.quotes[i].activation \in DOMAIN more
            /\ more[b.quotes[i].activation] = b.quotes[i].approved
        BY <1>2, <4>2
      <4> QED BY <4>1, <4>2, <4>3, Zenon
    <3> QED BY <3>1, <3>2, Zenon
  <2>2. ASSUME NEW i \in DOMAIN c.quotes, NEW j \in DOMAIN c.quotes,
               c.quotes[i].activation = c.quotes[j].activation
        PROVE  i = j
    <3>1. \A k \in DOMAIN c.quotes : k # quote.id => c.quotes[k].activation # n
      <4> SUFFICES ASSUME NEW k \in DOMAIN c.quotes, k # quote.id PROVE c.quotes[k].activation # n
        BY Zenon
      <4>1. k \in DOMAIN b.quotes /\ c.quotes[k] = b.quotes[k]
        BY <1>1, Zenon
      <4>2. b.quotes[k].activation \in DOMAIN quotes
        BY <4>1, WholeCounts, Zenon
      <4> QED BY <1>2, <4>1, <4>2
    <3>2. CASE i = quote.id \/ j = quote.id
      BY <1>1, <2>2, <3>1, <3>2, Zenon
    <3>3. CASE i # quote.id /\ j # quote.id
      <4>1. /\ i \in DOMAIN b.quotes /\ c.quotes[i] = b.quotes[i]
            /\ j \in DOMAIN b.quotes /\ c.quotes[j] = b.quotes[j]
        BY <1>1, <3>3, Zenon
      <4> QED BY <2>2, <4>1, WholeTellsApart, Zenon
    <3> QED BY <3>2, <3>3
  <2> QED BY <2>1, <2>2, Zenon DEF Counted
<1>8. Within(e, more)
  <2> SUFFICES ASSUME NEW a \in DOMAIN more
               PROVE  /\ more[a] \in ApprovedQuotes
                      /\ \A s \in DOMAIN more[a].legs :
                           PrefixSum(Lots(e, a, s), Len(e)) <= more[a].legs[s].lots
    BY Zenon DEF Within
  <2>1. CASE a = n
    BY <1>2, <1>4, <1>5, <2>1
  <2>2. CASE a \in DOMAIN quotes
    BY <1>2, <2>2, Zenon DEF Whole, Within
  <2> QED BY <1>2, <2>1, <2>2, Zenon
<1> QED BY <1>1, <1>6, <1>7, <1>8, Zenon DEF Whole, c, more, n

MakerInv ==
  /\ config.max_fill_qty_per_trade \in Int
  /\ IsList(activated)
  /\ Whole(book, emitted, activated)

\* The quote book and its reports through every step of paper market making.
LEMMA MakerStep ==
  ASSUME MakerInv, [MakerNext]_makerVars
  PROVE  MakerInv'
<1>1. Whole(book, emitted, activated) /\ IsList(activated)
  BY DEF MakerInv
<1>2. ASSUME UNCHANGED << config, book, activated, emitted >> PROVE MakerInv'
  BY <1>2, Zenon DEF MakerInv
<1>3. ASSUME NEW quote \in ApprovedQuotes, SubmitQuote(quote) PROVE MakerInv'
  <2>1. Whole(AddOrReplace(book, quote, now, Len(activated) + 1), emitted,
              Append(activated, quote))
    BY <1>1, <1>3, SubmitWhole, Zenon DEF SubmitQuote
  <2>2. IsList(Append(activated, quote))
    BY <1>1, ListAppend, Zenon
  <2> QED BY <1>3, <2>1, <2>2, Zenon DEF SubmitQuote, MakerInv
<1>4. ASSUME NEW ids \in SUBSET DOMAIN book.quotes, book' = Removed(book, ids),
             UNCHANGED << config, activated, emitted >>
      PROVE  MakerInv'
  <2>1. Whole(Removed(book, ids), emitted, activated)
    BY <1>1, RemovedWhole, Zenon
  <2> QED BY <1>4, <2>1, Zenon DEF MakerInv
<1>5. ASSUME NEW g \in DOMAIN book.by_group, CancelGroup(g) PROVE MakerInv'
  <2>1. {book.by_group[g]} \in SUBSET DOMAIN book.quotes
    BY <1>1 DEF Whole, Indexes
  <2> QED BY <1>4, <1>5, <2>1, Zenon DEF CancelGroup
<1>6. ASSUME ExpireOld PROVE MakerInv'
  <2>1. ExpiredAt(book, now) \in SUBSET DOMAIN book.quotes
    BY DEF ExpiredAt
  <2> QED BY <1>4, <1>6, <2>1, Zenon DEF ExpireOld
<1>7. ASSUME NEW event \in MarketEvents, MarketEvent(event) PROVE MakerInv'
  <2> DEFINE kept == Removed(book, ExpiredAt(book, now))
             f == EventHistory(kept, emitted, event)
  <2>1. /\ book' = WithFills(kept, event) /\ emitted' = f
        /\ UNCHANGED << config, activated >>
    BY <1>7, Zenon DEF MarketEvent, TakeFills, Entry, EventHistory
  <2>2. Whole(kept, emitted, activated)
    <3>1. ExpiredAt(book, now) \in SUBSET DOMAIN book.quotes
      BY DEF ExpiredAt
    <3> QED BY <1>1, <3>1, RemovedWhole, Zenon
  <2> HIDE DEF kept
  <2>3. config.max_fill_qty_per_trade \in Int
    BY Zenon DEF MakerInv
  <2>4. /\ IsList(f) /\ History(f, activated)
        /\ AddsFills(kept, emitted, f, event)
    BY <2>2, <2>3, EventReports, Zenon
  <2> HIDE DEF f
  <2>5. Whole(WithFills(kept, event), f, activated)
    BY <2>2, <2>3, <2>4, WithFillsKeeps, Zenon
  <2> QED BY <1>1, <2>1, <2>3, <2>5, Zenon DEF MakerInv
<1>8. ASSUME NEW r, DeliverMakerReport(r) PROVE MakerInv'
  BY <1>2, <1>8, Zenon DEF DeliverMakerReport
<1>9. ASSUME NEW fill, DeliverExecutionReport(fill) PROVE MakerInv'
  BY <1>2, <1>9, Zenon DEF DeliverExecutionReport
<1>10. ASSUME MakerTick PROVE MakerInv'
  BY <1>2, <1>10, Zenon DEF MakerTick
<1>11. ASSUME UNCHANGED makerVars PROVE MakerInv'
  BY <1>2, <1>11 DEF makerVars
<1> QED BY <1>3, <1>5, <1>6, <1>7, <1>8, <1>9, <1>10, <1>11, Zenon DEF MakerNext

\* For all quotes, markets and fill modes, book, indexes and reports stay whole: what the book
\* counts as filled of an active quote is what was reported of it since its activation.
THEOREM MakerInvariant == LiveSpec => []MakerInv
<1>1. LiveInit => MakerInv
  <2> SUFFICES ASSUME MakerInit PROVE MakerInv
    BY DEF LiveInit
  <2>1. /\ config.max_fill_qty_per_trade \in Int
        /\ book = EmptyBook /\ emitted = << >> /\ activated = << >>
    BY MakerConfigsAssumption DEF MakerInit
  <2>2. IsList(<< >>)
    BY ListEmpty, Zenon
  <2>3. /\ DOMAIN book = BookFields /\ DOMAIN book.quotes = {}
        /\ DOMAIN book.by_group = {} /\ DOMAIN book.by_hash = {}
    BY <2>1 DEF EmptyBook, BookFields
  <2>4. Approved(book) /\ Indexes(book)
    <3>1. Approved(book)
      BY <2>3, FS_EmptySet, Zenon DEF Approved
    <3>2. Indexes(book)
      BY <2>3, Zenon DEF Indexes
    <3> QED BY <3>1, <3>2, Zenon
  <2>5. DOMAIN emitted = {} /\ DOMAIN activated = {}
    BY <2>1
  <2>6. History(emitted, activated) /\ Counted(book, emitted, activated)
          /\ Within(emitted, activated)
    BY <2>3, <2>5, Zenon DEF History, Counted, Within
  <2> QED BY <2>1, <2>2, <2>4, <2>6, Zenon DEF MakerInv, Whole
<1>2. MakerInv /\ [LiveNext]_liveVars => MakerInv'
  <2> SUFFICES ASSUME MakerInv, [LiveNext]_liveVars PROVE MakerInv'
    OBVIOUS
  <2>1. [MakerNext]_makerVars
    BY DEF LiveNext, LiveSubmit, LiveCancel, LiveVenueFills, LiveTick, MakerNext, liveVars
  <2> QED BY <2>1, MakerStep, Zenon
<1> QED BY <1>1, <1>2, PTL DEF LiveSpec

\* For all quotes, markets and fill modes: through every replacement, cancellation, expiry
\* and fill the three maps of ActivePaperQuoteBook lead to the same quotes, no quote is
\* reported filled beyond what risk approved, and what the book counts as filled is what was
\* reported.
THEOREM QuotesWhole == LiveSpec => []QuotesStayWhole
<1>1. MakerInv => QuotesStayWhole
  <2> SUFFICES ASSUME MakerInv PROVE QuotesStayWhole
    OBVIOUS
  <2>1. Whole(book, emitted, activated)
    BY Zenon DEF MakerInv
  <2>2. QuoteIndexesAgree
    BY <2>1, Zenon DEF Whole, Indexes, QuoteIndexesAgree
  <2>3. \A a, s : ReportedLots(a, s) = PrefixSum(Lots(emitted, a, s), Len(emitted))
    BY Zenon DEF ReportedLots, LotsOf, Lots
  <2>4. FillsWithinQuote
    BY <2>1, <2>3, Zenon DEF Whole, Counted, Within, FillsWithinQuote
  <2> QED BY <2>2, <2>4, Zenon DEF QuotesStayWhole
<1> QED BY <1>1, MakerInvariant, PTL

\* For all quotes, markets and fill modes: two reports of one activation differ, so the
\* ledger never takes a second genuine fill for a repetition of the first
\* (compute_maker_execution_report_hash).
THEOREM ReportsToldApart == LiveSpec => []FillsToldApart
<1>1. MakerInv => FillsToldApart
  <2> SUFFICES ASSUME MakerInv PROVE FillsToldApart
    OBVIOUS
  <2>1. Whole(book, emitted, activated)
    BY DEF MakerInv
  <2>2. Len(emitted) \in Nat /\ DOMAIN emitted = 1 .. Len(emitted)
    BY <2>1, ListLength, Zenon DEF Whole
  \* Of two reports of one side the later one leaves less.
  <2>3. ASSUME NEW j \in DOMAIN emitted, NEW k \in DOMAIN emitted, j < k,
               emitted[j].activation = emitted[k].activation,
               emitted[j].report = emitted[k].report
        PROVE  FALSE
    <3> DEFINE a == emitted[k].activation
               s == emitted[k].report.side
               f == Lots(emitted, a, s)
    <3>1. /\ ReportAt(emitted, j, activated) /\ ReportAt(emitted, k, activated)
      BY <2>1, Zenon DEF Whole, History
    <3>2. /\ a \in DOMAIN activated /\ s \in DOMAIN activated[a].legs
          /\ emitted[k].report.lots \in Nat /\ emitted[k].report.lots > 0
          /\ emitted[k].report.remaining = activated[a].legs[s].lots - PrefixSum(f, k)
          /\ emitted[j].report.remaining = activated[a].legs[s].lots - PrefixSum(f, j)
      BY <2>3, <3>1, Zenon DEF ReportAt
    <3>3. activated[a].legs[s].lots \in Nat
      BY <2>1, <3>2, QuotesAssumption, Zenon DEF Whole, Within
    <3>4. f[k] = emitted[k].report.lots
      BY Zenon DEF Lots
    <3>5. \A i \in 1 .. Len(emitted) : f[i] \in Nat
      BY <2>1, LotsSum, Zenon DEF Whole
    <3> HIDE DEF f
    <3>6. j \in Nat /\ k \in Nat /\ k - 1 \in Nat /\ j \in 0 .. k - 1 /\ k <= Len(emitted)
      BY <2>2, <2>3
    <3>7. \A i \in 1 .. k - 1 : f[i] \in Nat
      BY <2>2, <3>5, <3>6
    <3>8. PrefixSum(f, j) <= PrefixSum(f, k - 1)
      BY <3>6, <3>7, PrefixSumMonotone, Zenon
    <3>9. PrefixSum(f, k) = PrefixSum(f, k - 1) + f[k]
      <4>1. PrefixSum(f, (k - 1) + 1) = PrefixSum(f, k - 1) + f[(k - 1) + 1]
        BY <3>6, PrefixSumStep, Zenon
      <4>2. (k - 1) + 1 = k
        BY <3>6
      <4> QED BY <4>1, <4>2, Zenon
    <3>10. PrefixSum(f, j) \in Nat /\ PrefixSum(f, k - 1) \in Nat
      <4>1. j \in 0 .. Len(emitted) /\ k - 1 \in 0 .. Len(emitted)
        BY <2>2, <3>6
      <4> QED BY <2>1, <4>1, LotsSum DEF Whole, f
    <3> QED BY <2>3, <3>2, <3>3, <3>4, <3>8, <3>9, <3>10
  <2> SUFFICES ASSUME NEW j \in DOMAIN emitted, NEW k \in DOMAIN emitted, j # k,
                      emitted[j].activation = emitted[k].activation,
                      emitted[j].report = emitted[k].report
               PROVE  FALSE
    BY DEF FillsToldApart, ReportId
  <2>4. j < k \/ k < j
    BY <2>2
  <2> QED BY <2>3, <2>4, Zenon
<1> QED BY <1>1, MakerInvariant, PTL

-----------------------------------------------------------------------------
(* The live adapter.                                                        *)

AdapterFields == {"config", "accepted_orders_by_group", "submitted_hashes", "venue", "calls"}

OrderFields == {"group", "quote", "side", "acked", "state"}

\* A group names at most one order of a side, and every order that rests confirmed.
AdapterInv(s) ==
  /\ DOMAIN s = AdapterFields
  /\ IsList(s.venue)
  /\ \A id \in DOMAIN s.venue : DOMAIN s.venue[id] = OrderFields
  /\ \A g \in DOMAIN s.accepted_orders_by_group :
       /\ s.accepted_orders_by_group[g] \subseteq DOMAIN s.venue
       /\ \A i, j \in s.accepted_orders_by_group[g] :
            s.venue[i].side = s.venue[j].side => i = j
  /\ \A id \in DOMAIN s.venue :
       Open(s, id) /\ s.venue[id].acked => id \in GroupIds(s, s.venue[id].group)

\* Whatever the venue answers, cancelling a group keeps the invariant, changes no order but
\* in its state, and leaves the other groups alone.
LEMMA CancelKeeps ==
  ASSUME NEW s, AdapterInv(s), NEW g, NEW answers
  PROVE  LET t == CancelExistingGroup(s, g, answers)
         IN  /\ AdapterInv(t)
             /\ AllCancelled(s, g, answers) => GroupIds(t, g) = {}
<1> DEFINE t == CancelExistingGroup(s, g, answers)
           closed == CancelledAtVenue(s, GroupIds(s, g), answers)
           groups == s.accepted_orders_by_group
           all == AllCancelled(s, g, answers)
<1>1. /\ DOMAIN t = AdapterFields
      /\ t.venue = [id \in DOMAIN s.venue |->
                      IF id \in closed THEN [s.venue[id] EXCEPT !.state = "cancelled"]
                      ELSE s.venue[id]]
      /\ t.accepted_orders_by_group = IF all THEN Without(groups, {g}) ELSE groups
  <2> HIDE DEF closed, all
  <2> QED BY Zenon DEF CancelExistingGroup, AdapterInv, AdapterFields, closed, all
<1> HIDE DEF t
<1>2. all => closed = GroupIds(s, g)
  BY Zenon DEF AllCancelled, Told, CancelledAtVenue
<1> HIDE DEF closed
<1>3. DOMAIN t.venue = DOMAIN s.venue
  BY <1>1, Zenon
<1>4. ASSUME NEW id \in DOMAIN s.venue
      PROVE  /\ DOMAIN t.venue[id] = OrderFields
             /\ t.venue[id].side = s.venue[id].side /\ t.venue[id].group = s.venue[id].group
             /\ t.venue[id].acked = s.venue[id].acked
             /\ id \in closed => t.venue[id].state = "cancelled"
             /\ id \notin closed => t.venue[id].state = s.venue[id].state
  <2>1. DOMAIN s.venue[id] = OrderFields
    BY Zenon DEF AdapterInv
  <2> QED BY <1>1, <2>1, Zenon DEF OrderFields
<1>5. IsList(t.venue)
  <2>1. PICK n \in Nat : DOMAIN s.venue = 1 .. n
    BY Zenon DEF AdapterInv, IsList
  <2>2. t.venue \in [1 .. n -> {t.venue[i] : i \in 1 .. n}]
    BY <1>1, <2>1, Zenon
  <2> QED BY <2>1, <2>2, Zenon DEF IsList
<1>6. /\ DOMAIN t.accepted_orders_by_group = IF all THEN DOMAIN groups \ {g} ELSE DOMAIN groups
      /\ \A h \in DOMAIN t.accepted_orders_by_group : t.accepted_orders_by_group[h] = groups[h]
  BY <1>1, Zenon DEF Without
<1>7. ASSUME NEW h \in DOMAIN t.accepted_orders_by_group
      PROVE  /\ t.accepted_orders_by_group[h] \subseteq DOMAIN t.venue
             /\ \A i, j \in t.accepted_orders_by_group[h] :
                  t.venue[i].side = t.venue[j].side => i = j
  <2>1. h \in DOMAIN groups /\ t.accepted_orders_by_group[h] = groups[h]
    BY <1>6, Zenon
  <2>2. /\ groups[h] \subseteq DOMAIN s.venue
        /\ \A i, j \in groups[h] : s.venue[i].side = s.venue[j].side => i = j
    BY <2>1, Zenon DEF AdapterInv
  <2> QED BY <1>3, <1>4, <2>1, <2>2, Zenon
<1>8. ASSUME NEW id \in DOMAIN t.venue, Open(t, id), t.venue[id].acked
      PROVE  id \in GroupIds(t, t.venue[id].group)
  <2>1. id \notin closed /\ Open(s, id) /\ s.venue[id].acked
    BY <1>3, <1>4, <1>8, Zenon DEF Open
  <2>2. id \in GroupIds(s, s.venue[id].group)
    BY <1>3, <2>1, Zenon DEF AdapterInv
  <2>3. ~ (all /\ s.venue[id].group = g)
    BY <1>2, <2>1, <2>2, Zenon
  <2> QED BY <1>3, <1>4, <1>6, <2>2, <2>3, Zenon DEF GroupIds
<1>9. all => GroupIds(t, g) = {}
  BY <1>6, Zenon DEF GroupIds
<1>10. AdapterInv(t)
  BY <1>1, <1>3, <1>4, <1>5, <1>7, <1>8, Zenon DEF AdapterInv
<1> QED BY <1>9, <1>10, Zenon DEF t, all

\* What is asked of the state t after a leg: the group only gained orders of the leg's side.
LegAdded(s, g, side, t) ==
  /\ AdapterInv(t)
  /\ \A id \in GroupIds(t, g) :
       \/ t.venue[id].side = side
       \/ id \in GroupIds(s, g) /\ t.venue[id].side = s.venue[id].side

\* A leg is sent while its group names no order of its side.
LEMMA SubmitLegKeeps ==
  ASSUME NEW s, AdapterInv(s), NEW quote, NEW side, NEW answer,
         \A id \in GroupIds(s, quote.group) : s.venue[id].side # side
  PROVE  LegAdded(s, quote.group, side, SubmitLeg(s, quote, side, answer))
<1> DEFINE t == SubmitLeg(s, quote, side, answer)
           g == quote.group
           n == Len(s.venue) + 1
           order == [group |-> g, quote |-> quote.id, side |-> side,
                     acked |-> answer \in {"live", "matched"},
                     state |-> IF answer = "matched" THEN "filled" ELSE "open"]
           groups == s.accepted_orders_by_group
           taken == LegTaken(s, quote, side, answer)
<1>1. CASE t = s
  BY <1>1, Zenon DEF LegAdded
<1>2. CASE t # s
  <2>1. /\ LegAllowed(s, quote, side) /\ answer # "refused"
        /\ DOMAIN t = AdapterFields /\ t.venue = Append(s.venue, order)
        /\ t.accepted_orders_by_group =
             IF taken THEN With(groups, g, GroupIds(s, g) \cup {n}) ELSE groups
    <3> HIDE DEF order, taken
    <3>1. ~ (~ LegAllowed(s, quote, side) \/ answer = "refused")
      BY <1>2, Zenon DEF SubmitLeg
    <3>2. t = [s EXCEPT !.venue = Append(@, order),
                        !.accepted_orders_by_group =
                           IF taken THEN With(@, g, GroupIds(s, g) \cup {n}) ELSE @]
      BY <3>1, Zenon DEF SubmitLeg, order, taken
    <3>3. DOMAIN s = AdapterFields
      BY Zenon DEF AdapterInv
    <3> HIDE DEF t
    <3> QED BY <3>1, <3>2, <3>3, Zenon DEF AdapterFields
  <2>2. answer = "live" => taken
    BY <2>1, Zenon DEF LegTaken
  <2>3. /\ DOMAIN order = OrderFields /\ order.side = side /\ order.group = g
        /\ order.acked /\ order.state = "open" => answer = "live"
    BY Zenon DEF OrderFields
  <2> HIDE DEF t, order, taken
  <2>4. /\ IsList(t.venue)
        /\ DOMAIN t.venue = DOMAIN s.venue \cup {n} /\ n \notin DOMAIN s.venue
        /\ t.venue[n] = order
        /\ \A i \in DOMAIN s.venue : t.venue[i] = s.venue[i]
    <3>1. IsList(s.venue)
      BY Zenon DEF AdapterInv
    <3>2. t.venue = Append(s.venue, order)
      BY <2>1, Zenon
    <3>3. /\ IsList(Append(s.venue, order))
          /\ DOMAIN Append(s.venue, order) = DOMAIN s.venue \cup {n} /\ n \notin DOMAIN s.venue
          /\ Append(s.venue, order)[n] = order
          /\ \A i \in DOMAIN s.venue : Append(s.venue, order)[i] = s.venue[i]
      BY <3>1, ListAppend, Zenon
    <3> QED BY <3>2, <3>3, Zenon
  <2> HIDE DEF n
  <2>5. /\ \A h : h # g => GroupIds(t, h) = GroupIds(s, h)
        /\ GroupIds(t, g) = IF taken THEN GroupIds(s, g) \cup {n} ELSE GroupIds(s, g)
    BY <2>1 DEF GroupIds, With
  <2>6. ASSUME NEW h PROVE GroupIds(s, h) \subseteq DOMAIN s.venue
    BY Zenon DEF AdapterInv, GroupIds
  <2>7. \A h : \A i, j \in GroupIds(s, h) : s.venue[i].side = s.venue[j].side => i = j
    BY Zenon DEF AdapterInv, GroupIds
  <2>8. ASSUME NEW h \in DOMAIN t.accepted_orders_by_group
        PROVE  /\ t.accepted_orders_by_group[h] \subseteq DOMAIN t.venue
               /\ \A i, j \in t.accepted_orders_by_group[h] :
                    t.venue[i].side = t.venue[j].side => i = j
    <3>1. t.accepted_orders_by_group[h] = GroupIds(t, h)
      BY <2>8, Zenon DEF GroupIds
    <3>2. GroupIds(s, h) \subseteq DOMAIN s.venue
      BY <2>6, Zenon
    <3>3. \A i, j \in GroupIds(s, h) : t.venue[i].side = t.venue[j].side => i = j
      <4>1. \A i \in GroupIds(s, h) : t.venue[i] = s.venue[i]
        BY <2>4, <3>2, Zenon
      <4> QED BY <2>7, <4>1, Zenon
    <3>4. CASE GroupIds(t, h) = GroupIds(s, h)
      BY <2>4, <3>1, <3>2, <3>3, <3>4, Zenon
    <3>5. CASE h = g /\ GroupIds(t, h) = GroupIds(s, h) \cup {n}
      <4>1. \A i \in GroupIds(s, h) : t.venue[i].side # t.venue[n].side
        <5>1. t.venue[n].side = side
          BY <2>3, <2>4, Zenon
        <5>2. \A i \in GroupIds(s, h) : t.venue[i] = s.venue[i] /\ s.venue[i].side # side
          BY <2>4, <3>2, <3>5, Zenon
        <5> QED BY <5>1, <5>2, Zenon
      <4>2. n \in DOMAIN t.venue /\ DOMAIN s.venue \subseteq DOMAIN t.venue
        BY <2>4, Zenon
      <4>3. GroupIds(t, h) \subseteq DOMAIN t.venue
        BY <3>2, <3>5, <4>2, Zenon
      <4>4. \A i, j \in GroupIds(t, h) : t.venue[i].side = t.venue[j].side => i = j
        BY <3>3, <3>5, <4>1, Zenon
      <4> QED BY <3>1, <4>3, <4>4
    <3> QED BY <2>5, <3>4, <3>5, Zenon
  <2>9. ASSUME NEW id \in DOMAIN t.venue, Open(t, id), t.venue[id].acked
        PROVE  id \in GroupIds(t, t.venue[id].group)
    <3>1. CASE id = n
      BY <2>2, <2>3, <2>4, <2>5, <2>9, <3>1, Zenon DEF Open
    <3>2. CASE id \in DOMAIN s.venue
      <4>1. id \in GroupIds(s, s.venue[id].group)
        BY <2>4, <2>9, <3>2, Zenon DEF Open, AdapterInv
      <4> QED BY <2>4, <2>5, <3>2, <4>1, Zenon
    <3> QED BY <2>4, <3>1, <3>2, Zenon
  <2>10. \A id \in DOMAIN t.venue : DOMAIN t.venue[id] = OrderFields
    BY <2>3, <2>4, Zenon DEF AdapterInv
  <2>11. AdapterInv(t)
    BY <2>1, <2>4, <2>8, <2>9, <2>10, Zenon DEF AdapterInv
  <2>12. \A id \in GroupIds(t, g) :
           \/ t.venue[id].side = side
           \/ id \in GroupIds(s, g) /\ t.venue[id].side = s.venue[id].side
    BY <2>3, <2>4, <2>5, <2>6, Zenon
  <2>13. LegAdded(s, g, side, t)
    BY <2>11, <2>12, Zenon DEF LegAdded
  <2> QED BY <2>13, Zenon DEF t
<1> QED BY <1>1, <1>2, Zenon

\* One side of submit_approved_quote, with the cancel after a leg that fails.
LEMMA SubmitSideKeeps ==
  ASSUME NEW r, AdapterInv(r.s), NEW quote, NEW side, NEW answers, NEW cancels,
         r.ok => \A id \in GroupIds(r.s, quote.group) : r.s.venue[id].side # side
  PROVE  LET t == SubmitSide(r, quote, side, answers, cancels)
         IN  /\ AdapterInv(t.s)
             /\ t.ok => \/ t = r
                        \/ \A id \in GroupIds(t.s, quote.group) :
                             \/ t.s.venue[id].side = side
                             \/ /\ id \in GroupIds(r.s, quote.group)
                                /\ t.s.venue[id].side = r.s.venue[id].side
<1> DEFINE sent == SubmitLeg(r.s, quote, side, answers[side])
           gone == CancelExistingGroup(sent, quote.group, cancels)
           t == SubmitSide(r, quote, side, answers, cancels)
<1>1. CASE t = r
  BY <1>1, Zenon
<1>2. CASE t # r
  <2>1. /\ r.ok
        /\ t = IF LegTaken(r.s, quote, side, answers[side]) THEN [ok |-> TRUE, s |-> sent]
               ELSE [ok |-> FALSE, s |-> gone]
    BY <1>2, Zenon DEF SubmitSide
  <2>2. /\ AdapterInv(sent)
        /\ \A id \in GroupIds(sent, quote.group) :
             \/ sent.venue[id].side = side
             \/ id \in GroupIds(r.s, quote.group) /\ sent.venue[id].side = r.s.venue[id].side
    <3> HIDE DEF t, gone
    <3>1. \A id \in GroupIds(r.s, quote.group) : r.s.venue[id].side # side
      BY <2>1, Zenon
    <3>2. AdapterInv(r.s)
      BY Zenon
    <3>3. LegAdded(r.s, quote.group, side, sent)
      BY <3>1, <3>2, SubmitLegKeeps, Zenon
    <3> HIDE DEF sent
    <3> QED BY <3>3, Zenon DEF LegAdded
  <2> HIDE DEF sent
  <2>3. AdapterInv(gone)
    BY <2>2, CancelKeeps, Zenon
  <2> HIDE DEF t, gone
  <2>4. CASE LegTaken(r.s, quote, side, answers[side])
    <3>1. t.s = sent
      BY <2>1, <2>4, Zenon
    <3> QED BY <2>2, <3>1, Zenon DEF t
  <2>5. CASE ~ LegTaken(r.s, quote, side, answers[side])
    <3>1. t.s = gone /\ ~ t.ok
      BY <2>1, <2>5, Zenon
    <3> QED BY <2>3, <3>1, Zenon DEF t
  <2> QED BY <2>4, <2>5, Zenon
<1> QED BY <1>1, <1>2, Zenon

\* What the adapter remembers of hashes and calls is of no concern to its orders.
LEMMA SameOrders ==
  ASSUME NEW s, AdapterInv(s), NEW t, DOMAIN t = AdapterFields, t.venue = s.venue,
         t.accepted_orders_by_group = s.accepted_orders_by_group
  PROVE  AdapterInv(t)
<1>1. \A g : GroupIds(t, g) = GroupIds(s, g)
  BY Zenon DEF GroupIds
<1> QED BY <1>1, Zenon DEF AdapterInv, Open

\* The two legs of a quote whose group names no order.
LEMMA SubmitLegsKeeps ==
  ASSUME NEW s, AdapterInv(s), NEW quote, NEW answers, NEW cancels,
         GroupIds(s, quote.group) = {}
  PROVE  AdapterInv(SubmitLegs(s, quote, answers, cancels))
<1> DEFINE r == [ok |-> TRUE, s |-> s]
           bid == SubmitSide(r, quote, "Bid", answers, cancels)
           ask == SubmitSide(bid, quote, "Ask", answers, cancels)
           hashed == [ask.s EXCEPT !.submitted_hashes = @ \cup {quote.hash}]
<1>1. r.s = s
  BY Zenon
<1> HIDE DEF r
<1>2. /\ AdapterInv(bid.s)
      /\ bid.ok => \/ bid = r
                   \/ \A id \in GroupIds(bid.s, quote.group) :
                        \/ bid.s.venue[id].side = "Bid"
                        \/ /\ id \in GroupIds(r.s, quote.group)
                           /\ bid.s.venue[id].side = r.s.venue[id].side
  BY <1>1, SubmitSideKeeps, Zenon
<1> HIDE DEF bid
<1>3. bid.ok => \A id \in GroupIds(bid.s, quote.group) : bid.s.venue[id].side # "Ask"
  BY <1>1, <1>2, Zenon
<1>4. AdapterInv(ask.s)
  BY <1>2, <1>3, SubmitSideKeeps, Zenon
<1> HIDE DEF ask
<1>5. AdapterInv(hashed)
  <2>1. DOMAIN ask.s = AdapterFields
    BY <1>4, Zenon DEF AdapterInv
  <2>2. /\ DOMAIN hashed = AdapterFields /\ hashed.venue = ask.s.venue
        /\ hashed.accepted_orders_by_group = ask.s.accepted_orders_by_group
    BY <2>1, Zenon DEF AdapterFields
  <2> HIDE DEF hashed
  <2> QED BY <1>4, <2>2, SameOrders, Zenon
<1>6. SubmitLegs(s, quote, answers, cancels) \in {hashed, ask.s}
  BY Zenon DEF SubmitLegs, r, bid, ask
<1> QED BY <1>4, <1>5, <1>6, Zenon

\* submit_approved_quote as a whole: the old group cancelled, then both legs.
LEMMA ReplaceKeeps ==
  ASSUME NEW s, AdapterInv(s), NEW quote, NEW answers, NEW cancels, NEW cleanup
  PROVE  AdapterInv(Replace(s, quote, answers, cancels, cleanup))
<1> DEFINE gone == CancelExistingGroup(s, quote.group, cancels)
           sent == SubmitLegs(gone, quote, answers, [side \in Sides |-> cleanup])
<1>1. /\ AdapterInv(gone)
      /\ AllCancelled(s, quote.group, cancels) => GroupIds(gone, quote.group) = {}
  BY CancelKeeps, Zenon
<1>2. ASSUME Replaced(s, quote, cancels) PROVE GroupIds(gone, quote.group) = {}
  <2>1. CASE quote.group \in DOMAIN s.accepted_orders_by_group
    BY <1>1, <1>2, <2>1, Zenon DEF Replaced
  <2>2. CASE quote.group \notin DOMAIN s.accepted_orders_by_group
    <3>1. gone.accepted_orders_by_group \in
            {s.accepted_orders_by_group, Without(s.accepted_orders_by_group, {quote.group})}
      BY Zenon DEF CancelExistingGroup, AdapterInv, AdapterFields
    <3> HIDE DEF gone
    <3> QED BY <2>2, <3>1, Zenon DEF GroupIds, Without
  <2> QED BY <2>1, <2>2, Zenon
<1> HIDE DEF gone
<1>3. Replaced(s, quote, cancels) => AdapterInv(sent)
  BY <1>1, <1>2, SubmitLegsKeeps, Zenon
<1> HIDE DEF sent
<1>4. \/ Replace(s, quote, answers, cancels, cleanup) = gone
      \/ Replaced(s, quote, cancels) /\ Replace(s, quote, answers, cancels, cleanup) = sent
  BY Zenon DEF Replace, gone, sent
<1> QED BY <1>1, <1>3, <1>4, Zenon

\* Counting a call changes no order.
LEMMA CalledKeeps ==
  ASSUME NEW s, AdapterInv(s)
  PROVE  AdapterInv(Called(s))
<1>1. DOMAIN s = AdapterFields
  BY Zenon DEF AdapterInv
<1>2. /\ DOMAIN Called(s) = AdapterFields /\ Called(s).venue = s.venue
      /\ Called(s).accepted_orders_by_group = s.accepted_orders_by_group
  BY <1>1, Zenon DEF Called, AdapterFields
<1> QED BY <1>2, SameOrders, Zenon

LiveInv == live # NoAdapter => AdapterInv(live)

\* The live adapter and its venue through every step.
LEMMA LiveStep ==
  ASSUME LiveInv, [LiveNext]_liveVars
  PROVE  LiveInv'
<1>1. ASSUME live # NoAdapter, NEW quote, NEW answers, NEW cancels, NEW cleanup,
             LiveSubmit(quote, answers, cancels, cleanup)
      PROVE  LiveInv'
  BY <1>1, ReplaceKeeps, CalledKeeps, Zenon DEF LiveInv, LiveSubmit
<1>2. ASSUME live # NoAdapter, NEW g, NEW answers, LiveCancel(g, answers)
      PROVE  LiveInv'
  BY <1>2, CancelKeeps, CalledKeeps, Zenon DEF LiveInv, LiveCancel
<1>3. ASSUME live # NoAdapter, NEW id \in DOMAIN live.venue, LiveVenueFills(id)
      PROVE  LiveInv'
  <2> DEFINE s == live
             t == live'
  <2>1. AdapterInv(s)
    BY <1>3, Zenon DEF LiveInv
  <2>2. /\ DOMAIN s = AdapterFields /\ DOMAIN s.venue[id] = OrderFields
    BY <2>1, Zenon DEF AdapterInv
  <2>3. /\ DOMAIN t = AdapterFields
        /\ t.accepted_orders_by_group = s.accepted_orders_by_group
        /\ t.venue = [s.venue EXCEPT ![id].state = "filled"]
    BY <1>3, <2>2, Zenon DEF LiveVenueFills, AdapterFields
  <2> HIDE DEF s, t
  <2>4. DOMAIN t.venue = DOMAIN s.venue
    BY <2>3, Zenon
  <2>5. \A i \in DOMAIN s.venue :
          /\ DOMAIN t.venue[i] = OrderFields
          /\ t.venue[i].side = s.venue[i].side /\ t.venue[i].group = s.venue[i].group
          /\ t.venue[i].acked = s.venue[i].acked
          /\ t.venue[i].state = "open" => s.venue[i].state = "open"
    BY <2>1, <2>2, <2>3 DEF AdapterInv, OrderFields
  <2>6. IsList(t.venue)
    <3>1. PICK n \in Nat : DOMAIN s.venue = 1 .. n
      BY <2>1, Zenon DEF AdapterInv, IsList
    <3>2. t.venue \in [1 .. n -> {t.venue[i] : i \in 1 .. n}]
      BY <2>3, <3>1, Zenon
    <3> QED BY <3>1, <3>2, Zenon DEF IsList
  <2>7. \A g : GroupIds(t, g) = GroupIds(s, g)
    BY <2>3, Zenon DEF GroupIds
  <2>8. ASSUME NEW i \in DOMAIN t.venue, Open(t, i), t.venue[i].acked
        PROVE  i \in GroupIds(t, t.venue[i].group)
    BY <2>1, <2>4, <2>5, <2>7, <2>8, Zenon DEF Open, AdapterInv
  <2>9. ASSUME NEW g \in DOMAIN t.accepted_orders_by_group
        PROVE  /\ t.accepted_orders_by_group[g] \subseteq DOMAIN t.venue
               /\ \A i, j \in t.accepted_orders_by_group[g] :
                    t.venue[i].side = t.venue[j].side => i = j
    BY <2>1, <2>3, <2>4, <2>5, <2>9 DEF AdapterInv
  <2>10. AdapterInv(t)
    BY <2>3, <2>4, <2>5, <2>6, <2>8, <2>9, Zenon DEF AdapterInv
  <2> QED BY <2>10, Zenon DEF LiveInv, t
<1>4. CASE UNCHANGED live
  BY <1>4, Zenon DEF LiveInv
<1> QED BY <1>1, <1>2, <1>3, <1>4, Zenon DEF LiveNext, LiveTick, liveVars

\* For all quotes and every venue, the live adapter knows each confirmed order that rests, under
\* its group, and never two of one side (submit_approved_quote, cancel_quote_group).
THEOREM LiveInvariant == LiveSpec => []LiveInv
<1>1. LiveInit => LiveInv
  <2> SUFFICES ASSUME NEW cfg, live = NewAdapter(cfg) PROVE AdapterInv(live)
    BY Zenon DEF LiveInit, LiveInv
  <2>1. /\ DOMAIN live = AdapterFields /\ live.venue = << >>
        /\ live.accepted_orders_by_group = << >>
    BY Zenon DEF NewAdapter, AdapterFields
  <2>2. DOMAIN live.venue = {} /\ DOMAIN live.accepted_orders_by_group = {}
    BY <2>1
  <2>3. IsList(live.venue)
    <3>1. << >> \in [1 .. 0 -> {}]
      OBVIOUS
    <3> QED BY <2>1, <3>1, Zenon DEF IsList
  <2> QED BY <2>1, <2>2, <2>3, Zenon DEF AdapterInv
<1>2. LiveInv /\ [LiveNext]_liveVars => LiveInv'
  BY LiveStep, Zenon
<1> QED BY <1>1, <1>2, PTL DEF LiveSpec

\* For all quotes, configurations and answers: an order that the venue confirmed and that
\* still rests is named by its group, so a cancel of the group reaches it.
THEOREM RestingCancellable == LiveSpec => []RestingStaysCancellable
<1>1. LiveInv => RestingStaysCancellable
  BY Zenon DEF LiveInv, AdapterInv, RestingStaysCancellable, Resting, Orders
<1> QED BY <1>1, LiveInvariant, PTL

\* For all quotes, configurations and answers: no group has two confirmed orders of one side
\* resting, however the cancels of the orders that were replaced went.
THEOREM OnePerSide == LiveSpec => []OneOrderPerSide
<1>1. LiveInv => OneOrderPerSide
  <2> SUFFICES ASSUME LiveInv, NEW i \in Resting, NEW j \in Resting,
                      live.venue[i].group = live.venue[j].group,
                      live.venue[i].side = live.venue[j].side
               PROVE  i = j
    BY Zenon DEF OneOrderPerSide
  <2>1. AdapterInv(live) /\ i \in DOMAIN live.venue /\ j \in DOMAIN live.venue
    BY Zenon DEF LiveInv, Resting, Orders
  <2>2. i \in GroupIds(live, live.venue[i].group) /\ j \in GroupIds(live, live.venue[i].group)
    BY <2>1, Zenon DEF AdapterInv, Resting
  <2>3. live.venue[i].group \in DOMAIN live.accepted_orders_by_group
    BY <2>2, Zenon DEF GroupIds
  <2> QED BY <2>1, <2>2, <2>3, Zenon DEF AdapterInv, GroupIds
<1> QED BY <1>1, LiveInvariant, PTL

=============================================================================
