----------------------------- MODULE SignalEngine -----------------------------
(* engine/signal/core: one scan over the bundles of the loaded artifact, and the *)
(* state that outlives it.  A scan judges every bundle, ranks what is worth      *)
(* publishing, drops opportunities it has shown recently, and lets the rate      *)
(* limiter through to the publisher what is left.  The driver holds the lock of  *)
(* the market state for the whole scan, so that a scan is one step.              *)
EXTENDS SignalPricing

CONSTANTS
  Assets,         \* the assets whose books the state layer keeps
  Bundles,        \* the bundles of the artifact, in its order
  Setups,         \* how the engine may be put together: [mode, ranked, deduped, config]
  AskSides,       \* the ask sides a book may take
  OpeningBooks,   \* the ask sides the assets may have when the engine starts
  Conditions,     \* what may be said of a book: [marks, quality, usable_for_depth, usable_for_signal]
  SecondNs,       \* the length of a rate limiter's window
  DedupeTtlNs,    \* how long an opportunity counts as seen
  MaxNow, MaxUpdates, MaxScans, MaxResolutions

ASSUME SignalAssumption ==
  /\ DedupeTtlNs \in Nat /\ SecondNs \in Nat \ {0} /\ MaxNow \in Nat
  /\ Len(Bundles) \in Nat
  /\ \A s \in Setups : s.config.max_intents_per_second \in Nat

VARIABLES
  setup,          \* the element of Setups this engine was built from
  now,            \* the monotonic clock
  books,          \* asset -> its view, or an empty sequence
  settled,        \* [available, true, false]: what the settlement masks say
  scan_id,        \* scans made so far
  seen,           \* the deduper: idempotency hash -> when it was marked
  window,         \* the rate limiter: [has, second, emitted]
  published,      \* last_published_intents_
  evidence,       \* what last_published_evidence_at gives for each of them
  refused,        \* the intents of the last scan the rate limiter held back
  result,         \* the counters of the last scan
  history,        \* every intent a scan offered the limiter: [hash, status, at, shown]
  counts          \* how often the bounded actions were taken

vars == <<setup, now, books, settled, scan_id, seen, window, published, evidence, refused,
          result, history, counts>>

kSignalScratchMaxIntents == 1024

\* The artifact the reader holds.
ArtifactVersion == 1
ArtifactHash == <<"artifact">>
ConstraintHash == <<"constraints">>
ReaderBundleHash == <<"bundles">>

-----------------------------------------------------------------------------
\* SettlementMaskChecker::is_valid.  Masks are sets of markets.

SettlementValid(bundle, masks) ==
  \/ ~ masks.available
  \/ /\ bundle.required_true \subseteq masks.true
     /\ bundle.required_false \subseteq masks.false
     /\ bundle.invalid \cap (masks.true \cup masks.false) = {}

\* SignalRunResult, with the counters increment_counter_for_status picks by status.
EmptyResult ==
  [bundles_scanned |-> 0, by_status |-> [s \in IntentStatus \ {"CandidateOnly"} |-> 0],
   rejected_duplicate |-> 0, rejected_rate_limited |-> 0, rejected_snapshot_skew |-> 0,
   rejected_stale_snapshot |-> 0, vwap_checked |-> 0, edge_computed |-> 0,
   intents_published |-> 0]

CountStatus(r, status) ==
  IF status = "CandidateOnly" THEN r ELSE [r EXCEPT !.by_status[status] = @ + 1]

StatusFromCostFailure(reason) ==
  IF reason = "MissingSnapshot" THEN "RejectedMissingSnapshot"
  ELSE IF reason = "None" THEN "CandidateOnly" ELSE "RejectedInsufficientDepth"

ShouldPublish(config, status) == status = "PaperOpportunity" \/ config.emit_rejections

IsStaleRejection(read) == read.status = "RejectedBadMarketState" /\ read.why = "stale"
IsSkewRejection(read) == read.status = "RejectedBadMarketState" /\ read.why = "version"

-----------------------------------------------------------------------------
\* Judging one bundle.  A judgement is [intent, evidence, result].

\* Asset indices are shared by all plans and count the assets in the order they are met.
AssetIndexOf(asset) ==
  SelectInSeq(FoldLeft(LAMBDA found, bundle : found \o
                         SelectSeq(UniqueAssets(bundle), LAMBDA a : a \notin ToSet(found)),
                       << >>, Bundles), LAMBDA a : a = asset) - 1

CopyPlanAssetIndices(intent) ==
  [intent EXCEPT !.legs = [i \in DOMAIN intent.legs |->
     [intent.legs[i] EXCEPT !.asset_index = AssetIndexOf(intent.legs[i].asset)]]]

\* The intent a bundle starts with.  The plans carry the hashes, the bundle scan does not.
FreshIntent(bundle, ordinal) ==
  [EmptyIntent EXCEPT !.intent_id = <<scan_id + 1, ordinal>>, !.bundle_id = bundle.bundle_id,
     !.guaranteed_payout_tick = bundle.guaranteed_payout_tick,
     !.min_edge_tick = bundle.min_edge_tick, !.artifact_version = ArtifactVersion,
     !.legs = CopyBundleLegs(bundle)]
PlanIntent(bundle, ordinal) ==
  CopyPlanAssetIndices([FreshIntent(bundle, ordinal) EXCEPT !.bundle_hash = HashCandidateBundle(bundle),
     !.artifact_hash = ArtifactHash, !.constraint_hash = ConstraintHash])

\* copy_cost_fields.
CopyCostFields(intent, cost) ==
  [intent EXCEPT !.enough_depth = cost.executable, !.bundle_qty = cost.bundle_qty,
     !.estimated_cost_tick = cost.total_cost_tick,
     !.slippage_buffer_tick = cost.max_leg_slippage_tick,
     !.max_leg_slippage_tick = cost.max_leg_slippage_tick,
     !.legs = CopyPricedLegs(intent.legs, cost)]

NoEvidence == << >>

\* evidence_from_batch, evidence_from_depth and evidence_from_snapshots.
EvidenceFrom(read) ==
  <<[views |-> read.views, hash |-> read.version.combined_hash, read_ts_ns |-> now]>>

Judgement(intent, proof, r) == [intent |-> intent, evidence |-> proof, result |-> CountStatus(r, intent.status)]

\* Only the plan scan names a code for a rejection.
Coded(mode, intent, code) == IF mode = "bundle" THEN intent ELSE [intent EXCEPT !.reject_code = code]

RejectUnread(mode, intent, read, r) ==
  Judgement(Coded(mode, [intent EXCEPT !.status = read.status],
            IF read.status = "RejectedMissingSnapshot" THEN "MissingSnapshot" ELSE "BadMarketState"),
    NoEvidence,
    [r EXCEPT !.rejected_stale_snapshot = @ + (IF IsStaleRejection(read) THEN 1 ELSE 0),
              !.rejected_snapshot_skew = @ + (IF IsSkewRejection(read) THEN 1 ELSE 0)])

RejectUnpriced(mode, intent, cost, r) ==
  LET status == StatusFromCostFailure(cost.failure_reason)
  IN  Judgement(Coded(mode, [intent EXCEPT !.status = status],
                IF status = "RejectedMissingSnapshot" THEN "MissingSnapshot" ELSE "InsufficientDepth"),
              NoEvidence, r)

\* The input of the IntentBuilder.
BuildInput(mode, bundle, config) ==
  [bundle |-> bundle, now |-> now, ttl |-> config.intent_ttl_ns,
   artifact_version |-> ArtifactVersion, artifact_hash |-> ArtifactHash,
   constraint_hash |-> ConstraintHash,
   bundle_hash |-> IF mode = "bundle" THEN NoHash ELSE HashCandidateBundle(bundle),
   valid_under_settlement |-> TRUE, passed_quality_gate |-> TRUE]

BuiltIntent(mode, bundle, config, cost, version) ==
  LET intent == BuildIntent(BuildInput(mode, bundle, config), cost,
                            CalculateEdge(bundle, cost, config), version)
  IN  IF mode = "bundle" THEN intent ELSE CopyPlanAssetIndices(intent)

JudgePriced(mode, bundle, config, intent, read, cost, r) ==
  IF ~ cost.executable THEN RejectUnpriced(mode, CopyCostFields(intent, cost), cost, r)
  ELSE Judgement(BuiltIntent(mode, bundle, config, cost, read.version), EvidenceFrom(read),
               [r EXCEPT !.edge_computed = @ + 1])

ReadIn(mode, bundle, config) ==
  CASE mode = "depth"  -> ReadDepthForPlan(bundle, books, now, config)
    [] mode = "batch"  -> ReadForPlan(bundle, books, now, config)
    [] mode = "bundle" -> ReadForBundle(bundle, books, now, config)
PriceIn(mode, bundle, views) ==
  CASE mode = "depth"  -> PricePlanDepth(bundle, views)
    [] mode = "batch"  -> PricePlanSnapshots(bundle, views)
    [] mode = "bundle" -> PriceBundle(bundle, views)

JudgeRead(mode, bundle, config, intent, read, r) ==
  IF ~ read.ok THEN RejectUnread(mode, intent, read, r)
  ELSE JudgePriced(mode, bundle, config,
         [intent EXCEPT !.passed_quality_gate = TRUE,
                        !.snapshot_version = read.version.max_book_version,
                        !.snapshot_version_hash = read.version.combined_hash],
         read, PriceIn(mode, bundle, read.views), [r EXCEPT !.vwap_checked = @ + 1])

JudgeBundle(mode, bundle, config, intent, r) ==
  IF ~ SettlementValid(bundle, settled)
  THEN Judgement(Coded(mode, [intent EXCEPT !.status = "RejectedInvalidSettlement"], "InvalidSettlement"),
               NoEvidence, r)
  ELSE JudgeRead(mode, bundle, config, [intent EXCEPT !.valid_under_settlement = TRUE],
                 ReadIn(mode, bundle, config), r)

-----------------------------------------------------------------------------
\* The scan.

PublishLimit(config) == Lesser(config.max_intents_per_scan, kSignalScratchMaxIntents)

\* try_publish: a candidate beyond the limit is dropped in the order of the scan, before
\* anything is ranked.  Evidence is stored apart and found again by its index.
TryPublish(acc, judged, config) ==
  LET stored == acc.stored \o judged.evidence
      index  == IF judged.evidence = NoEvidence THEN 0 ELSE Len(stored)
  IN  [result |-> judged.result, ordinal |-> acc.ordinal + 1,
       stored |-> IF ShouldPublish(config, judged.intent.status) THEN stored ELSE acc.stored,
       candidates |->
         IF ShouldPublish(config, judged.intent.status) /\ Len(acc.candidates) < PublishLimit(config)
         THEN Append(acc.candidates, [intent |-> judged.intent, evidence_index |-> index])
         ELSE acc.candidates]

ScanBundle(acc, mode, bundle, config) ==
  TryPublish(acc,
    JudgeBundle(mode, bundle, config,
      IF mode = "bundle" THEN FreshIntent(bundle, acc.ordinal) ELSE PlanIntent(bundle, acc.ordinal),
      [acc.result EXCEPT !.bundles_scanned = @ + 1]),
    config)

ScanBundles(mode, config) ==
  LET scanned[k \in 0 .. Len(Bundles)] ==
        IF k = 0 THEN [result |-> EmptyResult, ordinal |-> 1, stored |-> << >>, candidates |-> << >>]
        ELSE ScanBundle(scanned[k - 1], mode, Bundles[k], config)
  IN  scanned[Len(Bundles)]

\* complete_intent_lifecycle: a rejected intent did not go through the builder and lacks
\* what the builder fills in.
OrElse(value, default) == IF value = NoHash THEN default ELSE value

CompleteIntentLifecycle(intent, config) ==
  LET ttl == IF config.intent_ttl_ns = 0 THEN 1 ELSE config.intent_ttl_ns
      dated == [intent EXCEPT
        !.created_ts_ns = IF @ = 0 THEN now ELSE @,
        !.expires_at_ns = IF @ <= now THEN now + ttl ELSE @,
        !.artifact_version = IF @ = 0 THEN ArtifactVersion ELSE @,
        !.artifact_hash = OrElse(@, ArtifactHash),
        !.constraint_hash = OrElse(@, ConstraintHash),
        !.bundle_hash = OrElse(@, ReaderBundleHash)]
      named == [dated EXCEPT !.intent_id = OrElse(@, IdentityOf(dated))]
  IN  [named EXCEPT !.idempotency_hash = OrElse(@, named.intent_id),
                    !.proof_hash = OrElse(@, MakeProofHash(named))]

Completed(candidates, config) ==
  [i \in DOMAIN candidates |->
     [candidates[i] EXCEPT !.intent = CompleteIntentLifecycle(@, config)]]

StatusPriority(status) == IF status = "PaperOpportunity" THEN 0 ELSE 1

\* Faulty variant: the smallest edge comes first.
CandidateLessAscending(a, b) ==
  LET key(c) == <<StatusPriority(c.intent.status), c.intent.total_edge_tick, c.intent.bundle_id>>
      i == SelectInSeq([k \in 1 .. 3 |-> key(a)[k] # key(b)[k]], LAMBDA differ : differ)
  IN  i # 0 /\ key(a)[i] < key(b)[i]

\* candidate_less.  Bundle ids are unique, so that the intent id never decides.
CandidateLess(a, b) ==
  LET key(c) == <<StatusPriority(c.intent.status), - c.intent.total_edge_tick, - c.intent.edge_bps,
                  - c.intent.bundle_qty, c.intent.bundle_id>>
      i == SelectInSeq([k \in 1 .. 5 |-> key(a)[k] # key(b)[k]], LAMBDA differ : differ)
  IN  i # 0 /\ key(a)[i] < key(b)[i]

\* std::sort by it: each candidate comes behind all that are less.
Ranked(candidates) ==
  IF setup.ranked
  THEN [i \in DOMAIN candidates |->
          candidates[CHOOSE k \in DOMAIN candidates :
                       Cardinality({j \in DOMAIN candidates :
                                      CandidateLess(candidates[j], candidates[k])}) = i - 1]]
  ELSE candidates

\* Faulty variant: a mark only counts from the next instant on.
SeenEarlier(marks, hash) ==
  hash \in DOMAIN marks /\ now > marks[hash] /\ now - marks[hash] < DedupeTtlNs

\* IntentDeduper.  A mark that has expired is erased when it is looked up, and only then.
SeenRecently(marks, hash) ==
  hash \in DOMAIN marks /\ now >= marks[hash] /\ now - marks[hash] < DedupeTtlNs
MarkSeen(marks, hash) == [h \in DOMAIN marks \cup {hash} |-> IF h = hash THEN now ELSE marks[h]]

\* An opportunity shown recently is dropped; any other is marked here, whether or not the
\* rate limiter lets it through afterwards.
Dedupe(acc, candidate) ==
  IF candidate.intent.status # "PaperOpportunity" \/ ~ setup.deduped
  THEN [acc EXCEPT !.kept = Append(@, candidate)]
  ELSE IF SeenRecently(acc.marks, candidate.intent.idempotency_hash)
  THEN [acc EXCEPT !.dropped = @ + 1]
  ELSE [acc EXCEPT !.kept = Append(@, candidate),
                   !.marks = MarkSeen(@, candidate.intent.idempotency_hash)]

Deduped(candidates) ==
  LET deduped[k \in 0 .. Len(candidates)] ==
        IF k = 0 THEN [kept |-> << >>, dropped |-> 0, marks |-> seen]
        ELSE Dedupe(deduped[k - 1], candidates[k])
  IN  deduped[Len(candidates)]

\* IntentRateLimiter::allow.
OpenWindow(w) ==
  IF ~ w.has \/ w.second # now \div SecondNs
  THEN [has |-> TRUE, second |-> now \div SecondNs, emitted |-> 0] ELSE w

Allowed(w, config) == w.emitted < config.max_intents_per_second

LimitRate(acc, candidate, config) ==
  LET w == OpenWindow(acc.window)
  IN  IF Allowed(w, config)
      THEN [acc EXCEPT !.kept = Append(@, candidate), !.window = [w EXCEPT !.emitted = @ + 1]]
      ELSE [acc EXCEPT !.late = Append(@, candidate), !.window = w]

Limited(candidates, config) ==
  LET limited[k \in 0 .. Len(candidates)] ==
        IF k = 0 THEN [kept |-> << >>, late |-> << >>, window |-> window]
        ELSE LimitRate(limited[k - 1], candidates[k], config)
  IN  limited[Len(candidates)]

\* last_published_evidence_at.
EvidenceAt(stored, index) == IF index = 0 THEN NoEvidence ELSE <<stored[index]>>

Offers(candidates, shown) ==
  [i \in DOMAIN candidates |->
     [hash |-> candidates[i].intent.idempotency_hash, status |-> candidates[i].intent.status,
      at |-> now, shown |-> shown]]

\* scan_once.
Scan ==
  /\ scan_id < MaxScans
  /\ \E scanned \in {ScanBundles(setup.mode, setup.config)} :
     \E deduped \in {Deduped(Ranked(Completed(scanned.candidates, setup.config)))} :
     \E limited \in {Limited(deduped.kept, setup.config)} :
       /\ seen' = deduped.marks
       /\ window' = limited.window
       /\ published' = [i \in DOMAIN limited.kept |-> limited.kept[i].intent]
       /\ evidence' = [i \in DOMAIN limited.kept |->
                         EvidenceAt(scanned.stored, limited.kept[i].evidence_index)]
       /\ result' = [scanned.result EXCEPT !.rejected_duplicate = deduped.dropped,
                                           !.by_status["DuplicateIntent"] = @ + deduped.dropped,
                                           !.rejected_rate_limited = Len(limited.late),
                                           !.intents_published = Len(limited.kept)]
       /\ refused' = [i \in DOMAIN limited.late |-> limited.late[i].intent]
       /\ history' = history \o Offers(limited.kept, TRUE) \o Offers(limited.late, FALSE)
  /\ scan_id' = scan_id + 1
  /\ UNCHANGED <<setup, now, books, settled, counts>>

-----------------------------------------------------------------------------
\* What happens around the engine.

\* The state layer publishes a book: what it shows, and what is said of it.
ViewOf(asset, asks, version, condition) ==
  [asset |-> asset, asks |-> asks, version |-> version, version_hash |-> <<asset, version>>,
   last_book_update_ns |-> now, marks |-> condition.marks, quality |-> condition.quality,
   usable_for_depth |-> condition.usable_for_depth, usable_for_signal |-> condition.usable_for_signal]

GoodCondition == [marks |-> {}, quality |-> "Good", usable_for_depth |-> TRUE, usable_for_signal |-> TRUE]

PublishBook(asset, asks, condition) ==
  /\ counts.updates < MaxUpdates
  /\ books' = [books EXCEPT ![asset] =
       <<ViewOf(asset, asks, IF @ = << >> THEN 1 ELSE @[1].version + 1, condition)>>]
  /\ counts' = [counts EXCEPT !.updates = @ + 1]
  /\ UNCHANGED <<setup, now, settled, scan_id, seen, window, published, evidence, refused, result,
                 history>>

\* A market resolves, and a caller of scan_once that keeps settlement masks passes them from
\* then on.  The repository's own drivers keep none: for them available stays FALSE.
Resolve(market, outcome) ==
  /\ counts.resolutions < MaxResolutions
  /\ market \notin settled.true \cup settled.false
  /\ settled' = IF outcome THEN [settled EXCEPT !.available = TRUE, !.true = @ \cup {market}]
                ELSE [settled EXCEPT !.available = TRUE, !.false = @ \cup {market}]
  /\ counts' = [counts EXCEPT !.resolutions = @ + 1]
  /\ UNCHANGED <<setup, now, books, scan_id, seen, window, published, evidence, refused, result,
                 history>>

Tick ==
  /\ now < MaxNow
  /\ now' = now + 1
  /\ UNCHANGED <<setup, books, settled, scan_id, seen, window, published, evidence, refused,
                 result, history, counts>>

SignalInit ==
  /\ setup \in Setups
  /\ now = 1
  /\ \E opening \in OpeningBooks :
       books = [a \in Assets |-> IF a \in DOMAIN opening
                                THEN <<ViewOf(a, opening[a], 1, GoodCondition)>> ELSE << >>]
  /\ settled = [available |-> FALSE, true |-> {}, false |-> {}]
  /\ scan_id = 0
  /\ seen = [h \in {} |-> 0]
  /\ window = [has |-> FALSE, second |-> 0, emitted |-> 0]
  /\ published = << >> /\ evidence = << >> /\ refused = << >> /\ history = << >>
  /\ result = EmptyResult
  /\ counts = [updates |-> 0, resolutions |-> 0]

Markets == UNION {{b.legs[i].market : i \in DOMAIN b.legs} : b \in ToSet(Bundles)}

SignalNext ==
  \/ Scan
  \/ \E asset \in Assets, asks \in AskSides, condition \in Conditions : PublishBook(asset, asks, condition)
  \/ \E market \in Markets, outcome \in BOOLEAN : Resolve(market, outcome)
  \/ Tick

SignalSpec == SignalInit /\ [][SignalNext]_vars

-----------------------------------------------------------------------------
\* Properties.

Opportunities == {i \in DOMAIN published : published[i].status = "PaperOpportunity"}

BundleOf(intent) == CHOOSE b \in ToSet(Bundles) : b.bundle_id = intent.bundle_id

\* What n lots of an ask side cost when the cheapest are bought, lot by lot.
CheapestCost(asks, n) ==
  LET UpTo(price) == FoldLeft(LAMBDA s, l : s + (IF l.price_tick <= price THEN l.size \div LotUnit ELSE 0), 0, asks)
      PriceOf(k)  == Min({asks[i].price_tick : i \in {j \in DOMAIN asks : UpTo(asks[j].price_tick) >= k}})
  IN  FoldLeft(LAMBDA s, k : s + PriceOf(k), 0, [k \in 1 .. n |-> k])

ReferenceCost(bundle, views, qty) ==
  FoldLeft(LAMBDA s, leg :
             s + CheapestCost((CHOOSE v \in ToSet(views) : v.asset = leg.asset).asks, leg.quantity_lots * qty),
           0, bundle.legs)

\* An opportunity is worth what it claims: whatever the outcome, the guaranteed payout of the
\* bundles it names, less the price of the cheapest lots in the books it was priced from and
\* less the fee and the buffers, is at least its total edge, and reaches both thresholds on
\* the edge of one bundle.  VWAPPrecheck rounds the cost of a bundle up, so that the sum of
\* the bundles may not be worth less than their parts.
OpportunityIsWorthItsEdge ==
  \A i \in Opportunities :
    LET intent == published[i]
        bundle == BundleOf(intent)
        cost   == ReferenceCost(bundle, evidence[i][1].views, intent.bundle_qty)
        charge == setup.config.default_fee_tick + setup.config.default_latency_buffer_tick
                  + setup.config.slippage_buffer_tick
        left   == (bundle.guaranteed_payout_tick - charge) * intent.bundle_qty - cost
    IN  /\ intent.total_edge_tick <= left
        /\ left >= intent.bundle_qty * Greater(bundle.min_edge_tick, setup.config.min_unit_edge_tick)

\* What a published intent says about its books is what it was priced from: after ranking,
\* deduplication and rate limiting have moved it, the evidence found under its place carries
\* the hash the intent names and covers the assets of its legs, and only opportunities and
\* intents with too little edge have evidence at all.
EvidenceFollowsItsIntent ==
  \A i \in DOMAIN published :
    IF published[i].status \in {"PaperOpportunity", "RejectedLowEdge"}
    THEN /\ evidence[i] # NoEvidence
         /\ evidence[i][1].hash = published[i].snapshot_version_hash
         /\ {published[i].legs[k].asset : k \in DOMAIN published[i].legs}
              = {evidence[i][1].views[k].asset : k \in DOMAIN evidence[i][1].views}
    ELSE evidence[i] = NoEvidence

\* A published opportunity can be trusted: it is worth the edge it claims in the books its evidence
\* names, wherever ranking and limiting have put it (SignalEngine, IntentPublisher).
OpportunitiesAreSound == OpportunityIsWorthItsEdge /\ EvidenceFollowsItsIntent

\* An opportunity shown once is not shown again before its mark expires, however often the
\* books are scanned in between.
NoRepeatWithinTtl ==
  setup.deduped =>
    \A i, j \in DOMAIN history :
      /\ i < j /\ history[i].shown /\ history[j].shown
      /\ history[i].status = "PaperOpportunity" /\ history[j].status = "PaperOpportunity"
      /\ history[i].hash = history[j].hash
      => history[j].at - history[i].at >= DedupeTtlNs

\* No second of the clock shows more intents than the limiter grants it, over all scans.
RateIsBounded ==
  \A s \in 0 .. MaxNow \div SecondNs :
    Cardinality({i \in DOMAIN history : history[i].shown /\ history[i].at \div SecondNs = s})
      <= setup.config.max_intents_per_second

\* When the limiter holds intents back, a ranked scan has given it the best first: nothing
\* it refused is worth more than an opportunity it let through, and no rejection took the
\* place of an opportunity.
LimiterKeepsTheBest ==
  setup.ranked =>
    \A i \in DOMAIN published, j \in DOMAIN refused :
      refused[j].status = "PaperOpportunity" =>
        /\ published[i].status = "PaperOpportunity"
        /\ published[i].total_edge_tick >= refused[j].total_edge_tick

\* The limiter grants no second more than its share, and grants it to the best (IntentRateLimiter
\* behind IntentRanker).
LimiterIsFair == RateIsBounded /\ LimiterKeepsTheBest

\* The three ways to read and price a bundle agree on the books the state layer publishes:
\* they accept the same books, and give the same quantity at the same cost, although one
\* walks the levels and another looks the quantity up in prefix sums.
ScanPathsAgree ==
  \A bundle \in ToSet(Bundles) :
    LET snapshots == ReadForBundle(bundle, books, now, setup.config)
        depth     == ReadDepthForPlan(bundle, books, now, setup.config)
        priced    == PriceBundle(bundle, snapshots.views)
    IN  /\ snapshots.ok = ReadForPlan(bundle, books, now, setup.config).ok
        /\ ~ setup.config.require_usable_for_signal => snapshots.ok = depth.ok
        /\ snapshots.ok =>
             /\ priced = PricePlanSnapshots(bundle, snapshots.views)
             /\ priced = PricePlanDepth(bundle, depth.views)
=============================================================================
