---------------------------- MODULE OracleWorkflow ----------------------------
(* The offline tools of oracle/tools as one system: fetch_market_universe pages  *)
(* through the market list, extract_oracle_rules turns drafts into an approved   *)
(* rulebook, verify_oracle_workflow compiles both into an artifact directory,    *)
(* file by file, and the signal engine's reader loads that directory.  A tool    *)
(* may stop between any two writes.                                              *)
EXTENDS OracleArtifact

CONSTANTS GammaLists,      \* the market lists the remote service may show
          TargetRecords,   \* --limit of the fetch
          GammaPageLimit,  \* kGammaPageLimit, 100 in the code
          Responses,       \* the replies of the model
          HandWritten,     \* the rulebooks a person may write
          Earlier,         \* the inputs of the verifications that may have exported before
          Options,         \* the options verify_oracle_workflow may be started with
          Leftovers,       \* the sets of old files that remove_all may fail to remove
          MaxRuns,         \* bound on the runs of each tool and of the reader
          Idle             \* no verification, or no export, is in progress

VARIABLES gamma,          \* the remote list
          fetch,          \* the fetch in progress
          markets_file,   \* raw_markets.jsonl
          bundles_file,   \* the buy-all fixture
          drafts_file, rulebook_file,
          approval,       \* the rulebook extract_oracle_rules has yet to write, if any
          verify,         \* the verification in progress, and what it has read so far
          export,         \* its export
          disk,           \* the artifact directory
          last,           \* the summary of the last verification
          reader,         \* the signal engine's OracleArtifactReader
          exported,       \* every contents an export was started with
          rulebooks,      \* everything the rulebook file ever held
          runs            \* how often each tool was started

workflowVars ==
  << gamma, fetch, markets_file, bundles_file, drafts_file, rulebook_file, approval, verify, export,
     disk, last, reader, exported, rulebooks, runs >>
verifyVars == << verify, export, disk, last, exported >>
ruleVars == << drafts_file, rulebook_file, approval, rulebooks >>

-----------------------------------------------------------------------------
\* Bound: a run of another tool starts while a verification is reading or is still to come.
\* An export has read its inputs, and the other tools do not look at its directory: what they
\* write during an export they may as well write before or after it.
WillBeRead == export = Idle /\ (verify # Idle \/ runs.verify < MaxRuns.verify)

-----------------------------------------------------------------------------
\* oracle/ingestion.

UsableRecord(record) ==
  /\ record.market_id # 0
  /\ record.outcomes # << >> /\ record.asset_ids # << >>
  /\ Len(record.outcomes) = Len(record.asset_ids)

\* record_from_gamma_market: each name and its fallback.
RecordFromGammaMarket(entry) ==
  [market_id |-> IF entry.condition_id # 0 THEN entry.condition_id ELSE entry.id,
   outcomes  |-> entry.outcomes,
   asset_ids |-> IF entry.clob_token_ids # << >> THEN entry.clob_token_ids ELSE entry.asset_ids,
   split     |-> entry.split]

\* One request and parse_polymarket_gamma_markets: the entries without an order book, and
\* those that map no outcomes to assets, are dropped; the count is that of the response.
GammaPage(list, offset, limit) ==
  SubSeq(list, offset + 1, Min({offset + limit, Len(list)}))
RecordsOf(entries) == [i \in DOMAIN entries |-> RecordFromGammaMarket(entries[i])]
ParsedPage(page) == SelectSeq(RecordsOf(SelectSeq(page, LAMBDA e : e.enable_order_book)), UsableRecord)

\* MarketDescriptionLoader: a record without an id, or whose lists differ in length, is an error.
LoadsClean(records) ==
  \A i \in DOMAIN records :
    records[i].market_id # 0 /\ Len(records[i].outcomes) = Len(records[i].asset_ids)

\* MarketUniverseBuilder::build.
BuildUniverse(records) ==
  [ok |-> LoadsClean(records),
   markets |->
     FoldLeft(LAMBDA kept, r :
                IF \/ r.market_id = 0
                   \/ Len(r.outcomes) # Len(r.asset_ids)
                   \/ \E i \in DOMAIN kept : kept[i].market_id = r.market_id
                THEN kept ELSE Append(kept, r),
              << >>, records)]

-----------------------------------------------------------------------------
\* fetch_market_universe.

NoFetch == [running |-> FALSE, offset |-> 0, records |-> << >>, steady |-> TRUE, fixture |-> << >>]
PageLimit(records) == Min({GammaPageLimit, TargetRecords - Len(records)})

StartFetch ==
  /\ ~ fetch.running /\ runs.fetch < MaxRuns.fetch /\ WillBeRead
  /\ fetch' = [NoFetch EXCEPT !.running = TRUE]
  /\ runs' = [runs EXCEPT !.fetch = @ + 1]
  /\ UNCHANGED << gamma, markets_file, bundles_file, ruleVars, verifyVars, reader >>

\* The end of run(): the universe is written, and then, unless they are refused, the buy-all
\* bundles.
WriteUniverse(built, generated) ==
  /\ markets_file' = IF built.ok THEN built.markets ELSE markets_file
  /\ fetch' = IF built.ok /\ generated.ok
              THEN [NoFetch EXCEPT !.running = TRUE, !.fixture = << ExportFixtureArtifact(generated.bundles) >>]
              ELSE NoFetch
WriteBuyAll ==
  /\ fetch.fixture # << >>
  /\ bundles_file' = fetch.fixture[1]
  /\ fetch' = NoFetch
  /\ UNCHANGED << gamma, markets_file, ruleVars, verifyVars, reader, runs >>

NextOffset(offset, limit, kept) == offset + limit

\* One turn of the paging loop.
FetchPageOf(page, limit) ==
  LET records == fetch.records \o ParsedPage(page)
      done    == Len(page) < limit \/ Len(page) = 0 \/ Len(records) >= TargetRecords
  IN  IF done
      THEN WriteUniverse(BuildUniverse(records),
                         GenerateBuyAllOutcomes(BuildUniverse(records).markets))
      ELSE /\ fetch' = [fetch EXCEPT !.offset = NextOffset(@, limit, Len(ParsedPage(page))),
                                     !.records = records]
           /\ UNCHANGED markets_file
FetchPage ==
  /\ fetch.running /\ fetch.fixture = << >>
  /\ FetchPageOf(GammaPage(gamma, fetch.offset, PageLimit(fetch.records)), PageLimit(fetch.records))
  /\ UNCHANGED << gamma, bundles_file, ruleVars, verifyVars, reader, runs >>

\* A failed request ends the tool with nothing written, a failed second write with the
\* bundles of an older universe.
FetchFails ==
  /\ fetch.running
  /\ fetch' = NoFetch
  /\ UNCHANGED << gamma, markets_file, bundles_file, ruleVars, verifyVars, reader, runs >>

\* The remote list moves while pages are read.
GammaChanges ==
  /\ fetch.running /\ fetch.steady /\ fetch.fixture = << >>
  /\ gamma' \in GammaLists \ {gamma}
  /\ fetch' = [fetch EXCEPT !.steady = FALSE]
  /\ UNCHANGED << markets_file, bundles_file, ruleVars, verifyVars, reader, runs >>

-----------------------------------------------------------------------------
\* extract_oracle_rules.

\* parse_rule_drafts_json: one bad entry drops them all.
LLMExtractionStatus == {"Disabled", "MissingApiKey", "ProviderError", "InvalidResponse", "Ok"}
ExtractionResult(status, drafts) == [status |-> status, drafts |-> drafts]
ParseRuleDraftsJson(objects) ==
  IF \A i \in DOMAIN objects : DraftErrors(objects[i]) = {}
  THEN ExtractionResult("Ok", [i \in DOMAIN objects |-> ParseDraft(objects[i])])
  ELSE ExtractionResult("InvalidResponse", << >>)

\* extract: a reply is an error of the request, a message without content or one draft list.
ParseChatResponse(reply) ==
  IF reply.content = << >> THEN ExtractionResult("InvalidResponse", << >>)
  ELSE ParseRuleDraftsJson(reply.content[1])
Extract(reply) ==
  IF ~ reply.delivered THEN ExtractionResult("ProviderError", << >>) ELSE ParseChatResponse(reply)

\* The tail of run(): the drafts are written, and then, if the operator approves them, the
\* rulebook.
KeepDrafts(drafts, approve) ==
  /\ drafts_file' = WriteRuleDrafts(drafts)
  /\ approval' = IF approve THEN << WriteApprovedRulebook(ApproveDrafts(drafts, "operator")) >> ELSE << >>
RewriteRulebook(objects) ==
  /\ rulebook_file' = objects
  /\ rulebooks' = rulebooks \cup {objects}
SaveApproved ==
  /\ approval # << >>
  /\ RewriteRulebook(approval[1])
  /\ approval' = << >>
  /\ UNCHANGED << gamma, fetch, markets_file, bundles_file, drafts_file, verifyVars, reader, runs >>
\* The tool stops between its two files.
ExtractStops ==
  /\ approval # << >>
  /\ approval' = << >>
  /\ UNCHANGED << gamma, fetch, markets_file, bundles_file, drafts_file, rulebook_file, rulebooks,
                  verifyVars, reader, runs >>

\* The drafts of a model, which is asked about the markets of the snapshot.
ExtractRules(reply, approve) ==
  /\ runs.extract < MaxRuns.extract /\ approval = << >> /\ WillBeRead
  /\ runs' = [runs EXCEPT !.extract = @ + 1]
  /\ IF markets_file # << >> /\ Extract(reply).status = "Ok"
     THEN KeepDrafts(Extract(reply).drafts, approve)
     ELSE UNCHANGED << drafts_file, approval >>
  /\ UNCHANGED << gamma, fetch, markets_file, bundles_file, rulebook_file, rulebooks, verifyVars, reader >>

\* The drafts of the drafts file, reviewed and approved.
ApproveDraftsFile ==
  /\ runs.extract < MaxRuns.extract /\ approval = << >> /\ drafts_file # << >> /\ WillBeRead
  /\ runs' = [runs EXCEPT !.extract = @ + 1]
  /\ IF LoadRuleDrafts(drafts_file).errors = {}
     THEN KeepDrafts(LoadRuleDrafts(drafts_file).drafts, TRUE)
     ELSE UNCHANGED << drafts_file, approval >>
  /\ UNCHANGED << gamma, fetch, markets_file, bundles_file, rulebook_file, rulebooks, verifyVars, reader >>

\* A rulebook written by hand.
WriteRulebook(objects) ==
  /\ runs.extract < MaxRuns.extract /\ WillBeRead
  /\ runs' = [runs EXCEPT !.extract = @ + 1]
  /\ RewriteRulebook(objects)
  /\ UNCHANGED << gamma, fetch, markets_file, bundles_file, drafts_file, approval, verifyVars, reader >>

-----------------------------------------------------------------------------
\* verify_oracle_workflow.

\* WorkflowSummary; enumeration_mode is a function of the number of variables.
DefaultSummary ==
  [markets_loaded |-> 0, assets_loaded |-> 0, approved_rules |-> 0, variables |-> 0,
   constraints |-> 0, contradictions |-> 0, component_count |-> 0, skipped |-> 0,
   large_without_oracle |-> 0, feasible_states |-> 0, payoff_rows |-> 0,
   candidate_bundles |-> 0, manifest_ok |-> FALSE, checksums_ok |-> FALSE,
   determinism_passed |-> FALSE, failed |-> FALSE]
Bruteforce(variables) == Len(variables) <= MaxBruteforceVariables

\* acceptance_ok
AcceptanceOk(summary) ==
  /\ summary.markets_loaded > 0 /\ summary.assets_loaded > 0 /\ summary.approved_rules > 0
  /\ summary.variables > 0 /\ summary.constraints > 0 /\ summary.contradictions = 0
  /\ summary.component_count > 0
  /\ \/ summary.feasible_states > 0 /\ summary.payoff_rows > 0
     \/ summary.skipped > 0 /\ summary.large_without_oracle = 0
  /\ summary.manifest_ok /\ summary.checksums_ok /\ summary.determinism_passed
  /\ ~ summary.failed

-----------------------------------------------------------------------------
\* run_once from the rules to the payoff matrix, one operator per early return.

Failed(summary) == [ok |-> FALSE, summary |-> [summary EXCEPT !.failed = TRUE]]

NoPayoffMatrix == [row_count |-> 0, column_count |-> 0, asset_ids |-> << >>, entries |-> << >>]

\* What is left of it when the bundles are read.
Prepared(markets, rules, compiled, components, feasible, matrix, summary) ==
  [ok |-> TRUE, markets |-> markets, rules |-> rules, compiled |-> compiled,
   components |-> components, feasible |-> feasible, matrix |-> matrix, summary |-> summary]

Contradictions(feasible) == IF feasible = {} THEN 1 ELSE 0

\* The brute-force branch.
AfterEnumeration(markets, rules, compiled, components, feasible, summary) ==
  IF ~ BuildColumns(compiled.variables).ok THEN Failed(summary)
  ELSE Prepared(markets, rules, compiled, components, feasible,
                PayoffMatrix(compiled.variables, feasible),
                [summary EXCEPT !.feasible_states = Cardinality(feasible),
                                !.payoff_rows = Cardinality(feasible),
                                !.contradictions = Contradictions(feasible)])

LargeComponents(components) ==
  SelectSeq(components, LAMBDA c : Len(c.variable_ids) > MaxBruteforceVariables)
LargeWithoutOracle(components) ==
  SelectSeq(LargeComponents(components), LAMBDA c : c.kind \notin {"ExactlyOne", "AtMostOne"})
CountComponents(compiled, components, summary) ==
  [summary EXCEPT
     !.variables = Len(compiled.variables), !.constraints = Len(compiled.constraints),
     !.component_count = Len(components),
     !.skipped = IF Bruteforce(compiled.variables) THEN 0
                 ELSE Max({1, Len(LargeComponents(components))}),
     !.large_without_oracle = Len(LargeWithoutOracle(components))]

\* The states are enumerated when the variables are few; otherwise every large component
\* needs an oracle of its own.
AfterPartition(markets, rules, compiled, components, summary) ==
  IF Bruteforce(compiled.variables)
  THEN AfterEnumeration(markets, rules, compiled, components,
                        Enumerate(0 .. Len(compiled.variables) - 1, compiled.constraints), summary)
  ELSE IF LargeWithoutOracle(components) # << >> THEN Failed(summary)
  ELSE Prepared(markets, rules, compiled, components, {}, NoPayoffMatrix, summary)

WithIntrinsic(markets, compiled) ==
  [compiled EXCEPT !.constraints = @ \o IntrinsicConstraints(markets, compiled.variables)]
WithComponents(markets, rules, compiled, summary) ==
  AfterPartition(markets, rules, compiled,
                 PartitionComponents(ConstraintGraphBuild(compiled), compiled),
                 CountComponents(compiled, PartitionComponents(ConstraintGraphBuild(compiled), compiled), summary))
AfterCompile(markets, rules, compiled, summary) ==
  IF ~ compiled.ok THEN Failed(summary)
  ELSE WithComponents(markets, rules, WithIntrinsic(markets, compiled), summary)

KnownVariableKeys(variables) == {variables[i].key : i \in DOMAIN variables}
CountApproved(rules, summary) == [summary EXCEPT !.approved_rules = Len(ApprovedRules(rules))]
AfterRules(markets, rules, variables, summary) ==
  IF ~ CompilerReady(rules, KnownVariableKeys(variables)) THEN Failed(CountApproved(rules, summary))
  ELSE AfterCompile(markets, rules, Compile(rules, variables), CountApproved(rules, summary))

UniverseSummary(markets) ==
  [DefaultSummary EXCEPT !.markets_loaded = Len(markets),
                         !.assets_loaded = Cardinality(KnownAssetIds(markets) \ {0})]
Prepare(markets, loaded) ==
  IF loaded.errors # {} THEN Failed(UniverseSummary(markets))
  ELSE AfterRules(markets, loaded.rules, VariablesFromUniverse(markets), UniverseSummary(markets))

-----------------------------------------------------------------------------
\* run_once behind it: the bundles and the contents.  The text of the rulebook is read again.

\* --generate-combinatorial-bundles, or --candidate-bundles.
ChosenBundles(markets, rules, fixture, combinatorial) ==
  IF combinatorial THEN GenerateFromRulebook(markets, rules) ELSE LoadFixture(fixture, markets)

\* build_manifest and the count that is filled in after it.
BuildManifest(prepared, text, bundles) ==
  [DefaultManifest EXCEPT
     !.artifact_version = 1, !.market_count = Len(prepared.markets),
     !.variable_count = Len(prepared.compiled.variables), !.rule_count = Len(prepared.rules),
     !.constraint_count = Len(prepared.compiled.constraints),
     !.component_count = Len(prepared.components),
     !.feasible_state_count = Cardinality(prepared.feasible), !.bundle_count = Len(bundles),
     !.rulebook_hash = text, !.constraint_hash = prepared.compiled.constraints]

Contents(prepared, text, bundles) ==
  [manifest |-> BuildManifest(prepared, text, bundles),
   markets |-> prepared.markets, rulebook |-> text, variables |-> prepared.compiled.variables,
   constraints |-> prepared.compiled.constraints, components |-> prepared.components,
   feasible_states |-> prepared.feasible, payoff_matrix |-> prepared.matrix, bundles |-> bundles]

CountBundles(summary, bundles) == [summary EXCEPT !.candidate_bundles = Len(bundles)]

-----------------------------------------------------------------------------
\* The tool step by step.  It opens each input when it needs it, and the other tools may
\* write in between: the markets, the rulebook, the fixture, the rulebook again as text.

\* What main() knows between two of these steps; first is the result of the first pass when
\* --check-determinism runs a second one.
Verification(options, first) ==
  [options |-> options, first |-> first, stage |-> "markets", markets |-> << >>,
   prepared |-> << >>, bundles |-> << >>]
AtStage(stage) == verify # Idle /\ verify.stage = stage

\* The end of main() after a run_once that ended with errors.
Conclude(summary) ==
  /\ last' = IF verify.first # << >> THEN [verify.first[1].summary EXCEPT !.failed = TRUE]
             ELSE [summary EXCEPT !.determinism_passed = ~ verify.options.check_determinism]
  /\ verify' = Idle

StartVerify(options) ==
  /\ verify = Idle /\ runs.verify < MaxRuns.verify /\ markets_file # << >>
  /\ runs' = [runs EXCEPT !.verify = @ + 1]
  /\ verify' = Verification(options, << >>)
  /\ UNCHANGED << gamma, fetch, markets_file, bundles_file, ruleVars, export, disk, last, exported, reader >>

ReadMarkets ==
  /\ AtStage("markets")
  /\ IF LoadsClean(markets_file) /\ BuildUniverse(markets_file).ok
     THEN /\ verify' = [verify EXCEPT !.stage = "rulebook", !.markets = BuildUniverse(markets_file).markets]
          /\ UNCHANGED last
     ELSE Conclude(Failed(DefaultSummary).summary)
  /\ UNCHANGED << gamma, fetch, markets_file, bundles_file, ruleVars, export, disk, exported, reader, runs >>

ReadRulebook ==
  /\ AtStage("rulebook")
  /\ \E prepared \in {Prepare(verify.markets, LoadRulebook(rulebook_file))} :
       \/ /\ prepared.ok
          /\ verify' = [verify EXCEPT !.stage = "bundles", !.prepared = prepared]
          /\ UNCHANGED last
       \/ ~ prepared.ok /\ Conclude(prepared.summary)
  /\ UNCHANGED << gamma, fetch, markets_file, bundles_file, ruleVars, export, disk, exported, reader, runs >>

ReadBundles ==
  /\ AtStage("bundles")
  /\ \E generated \in {ChosenBundles(verify.markets, verify.prepared.rules, bundles_file,
                                     verify.options.combinatorial)} :
       IF generated.ok
       THEN /\ verify' = [verify EXCEPT !.stage = "text", !.bundles = generated.bundles]
            /\ UNCHANGED last
       ELSE Conclude(Failed(verify.prepared.summary).summary)
  /\ UNCHANGED << gamma, fetch, markets_file, bundles_file, ruleVars, export, disk, exported, reader, runs >>

\* The first pass exports what it has read: remove_all may leave old files behind, as its
\* error is discarded.
BeginExport(contents, summary, left) ==
  /\ export' = [contents |-> contents, summary |-> summary, next |-> 1]
  /\ exported' = exported \cup {contents}
  /\ disk' = [file \in DOMAIN disk \cap left |-> disk[file]]
  /\ verify' = [Verification(verify.options, << >>) EXCEPT !.stage = "export"]
  /\ UNCHANGED last
ReadRulebookText(left) ==
  /\ AtStage("text") /\ verify.first = << >>
  /\ BeginExport(Contents(verify.prepared, rulebook_file, verify.bundles),
                 CountBundles(verify.prepared.summary, verify.bundles), left)
  /\ UNCHANGED << gamma, fetch, markets_file, bundles_file, ruleVars, reader, runs >>

\* One payload is written.
ExportPayload ==
  /\ export # Idle /\ export.next <= Len(kArtifactPayloadFiles)
  /\ disk' = WritePayload(disk, export.contents, export.next)
  /\ export' = [export EXCEPT !.next = @ + 1]
  /\ UNCHANGED << gamma, fetch, markets_file, bundles_file, ruleVars, verify, last, reader, exported, runs >>

\* The load-back at the end of run_once.
ManifestOk(dir, summary) ==
  /\ ArtifactOk(dir)
  /\ dir["manifest.json"].value.market_count = summary.markets_loaded
  /\ dir["manifest.json"].value.variable_count = summary.variables
  /\ dir["manifest.json"].value.constraint_count = summary.constraints
  /\ dir["manifest.json"].value.component_count = summary.component_count
  /\ dir["manifest.json"].value.feasible_state_count = summary.feasible_states
Verdict(dir, summary) ==
  [summary EXCEPT !.checksums_ok = ArtifactOk(dir), !.manifest_ok = ManifestOk(dir, summary),
                  !.failed = ~ ArtifactOk(dir)]

\* The directory of an export that was not disturbed.
AllPayloads(contents) == [file \in ToSet(kArtifactPayloadFiles) |-> Whole(Payload(contents, file))]
WholeExport(contents) == WriteChecksums(AllPayloads(contents))

\* The checksums are written last, and the directory is loaded back.  --check-determinism then
\* runs everything once more.
ExportChecksums ==
  /\ export # Idle /\ export.next > Len(kArtifactPayloadFiles)
  /\ disk' = WriteChecksums(disk)
  /\ IF verify.options.check_determinism /\ ArtifactOk(disk')
     THEN /\ verify' = Verification(verify.options, << [contents |-> export.contents,
                                                      summary  |-> Verdict(disk', export.summary)] >>)
          /\ UNCHANGED last
     ELSE Conclude(Verdict(disk', export.summary))
  /\ export' = Idle
  /\ UNCHANGED << gamma, fetch, markets_file, bundles_file, ruleVars, reader, exported, runs >>

\* The end of the second pass: it exports to a directory that nobody else looks at, and its
\* hash and counts are compared with those of the first.
SecondPass(written) ==
  /\ AtStage("text") /\ verify.first # << >>
  /\ \E contents \in {Contents(verify.prepared, rulebook_file, verify.bundles)} :
       last' = [verify.first[1].summary EXCEPT
                  !.determinism_passed =
                     /\ written /\ contents = verify.first[1].contents
                     /\ Verdict(WholeExport(contents), CountBundles(verify.prepared.summary, verify.bundles))
                          = verify.first[1].summary,
                  !.failed = ~ written]
  /\ verify' = Idle
  /\ UNCHANGED << gamma, fetch, markets_file, bundles_file, ruleVars, export, disk, exported, reader, runs >>

\* The tool stops, killed or on a failed write, with the file it was writing absent or torn;
\* a torn checksum list has lost all entries or the last.
ExportStops ==
  /\ export # Idle
  /\ \/ disk' = disk
     \/ /\ export.next <= Len(kArtifactPayloadFiles)
        /\ disk' = TearPayload(disk, export.contents, export.next)
     \/ /\ export.next > Len(kArtifactPayloadFiles)
        /\ \E count \in {0, Len(kChecksumFiles) - 1} : disk' = TearChecksums(disk, count)
  /\ Conclude(Failed(export.summary).summary)
  /\ export' = Idle
  /\ UNCHANGED << gamma, fetch, markets_file, bundles_file, ruleVars, reader, exported, runs >>

\* The tool is stopped while it reads.
VerifyStops ==
  /\ verify # Idle /\ export = Idle
  /\ Conclude(Failed(DefaultSummary).summary)
  /\ UNCHANGED << gamma, fetch, markets_file, bundles_file, ruleVars, export, disk, exported, reader, runs >>

\* The engine loads the directory as it is now, which may be in the middle of an export.
LoadArtifact ==
  /\ runs.load < MaxRuns.load
  /\ runs' = [runs EXCEPT !.load = @ + 1]
  /\ reader' = ReaderLoad(disk)
  /\ UNCHANGED << gamma, fetch, markets_file, bundles_file, ruleVars, verifyVars >>

-----------------------------------------------------------------------------

\* A verification that nobody disturbed, before the system is looked at.
EarlierPrepared(inputs) == Prepare(BuildUniverse(inputs.records).markets, LoadRulebook(inputs.rulebook))
EarlierBundles(inputs, prepared) ==
  ChosenBundles(prepared.markets, prepared.rules, inputs.fixture, inputs.combinatorial)
EarlierExport(inputs) ==
  \E prepared \in {EarlierPrepared(inputs)} : \E generated \in {EarlierBundles(inputs, prepared)} :
    /\ prepared.ok /\ generated.ok
    /\ exported = {Contents(prepared, inputs.rulebook, generated.bundles)}
    /\ disk = WholeExport(Contents(prepared, inputs.rulebook, generated.bundles))
    /\ rulebooks = {<< >>, inputs.rulebook}

Init ==
  /\ gamma \in GammaLists
  /\ fetch = NoFetch
  /\ markets_file = << >> /\ bundles_file = << >> /\ drafts_file = << >> /\ rulebook_file = << >>
  /\ approval = << >> /\ verify = Idle
  /\ export = Idle /\ last = DefaultSummary /\ reader = UnloadedReader
  /\ \/ disk = NoFiles /\ exported = {} /\ rulebooks = {<< >>}
     \/ \E inputs \in Earlier : EarlierExport(inputs)
  /\ runs = [fetch |-> 0, extract |-> 0, verify |-> 0, load |-> 0]

Next ==
  \/ StartFetch \/ FetchPage \/ WriteBuyAll \/ FetchFails \/ GammaChanges
  \/ \E reply \in Responses, approve \in BOOLEAN : ExtractRules(reply, approve)
  \/ ApproveDraftsFile \/ SaveApproved \/ ExtractStops
  \/ \E objects \in HandWritten : WriteRulebook(objects)
  \/ \E options \in Options : StartVerify(options)
  \/ ReadMarkets \/ ReadRulebook \/ ReadBundles
  \/ \E left \in Leftovers : ReadRulebookText(left)
  \/ \E written \in BOOLEAN : SecondPass(written)
  \/ VerifyStops
  \/ ExportPayload \/ ExportChecksums \/ ExportStops
  \/ LoadArtifact

Spec == Init /\ [][Next]_workflowVars

-----------------------------------------------------------------------------
\* Properties.  Those about compiled contents are stated for an export that is about to
\* write its first file: every contents passes through that state.

Compiled == IF export # Idle /\ export.next = 1 THEN {export.contents} ELSE {}
AllStates(contents) ==
  {state \in SUBSET (0 .. Len(contents.variables) - 1) : Feasible(contents.constraints, state)}

\* The constraints of an exported artifact are those of the markets it names and of one
\* rulebook that the file held at some time and that was approved rule by rule, although
\* replies of a model, approvals and edits by hand reach that file while verify_oracle_workflow
\* reads its inputs one after the other (compiler_ready, ConstraintCompiler).  The rulebook.json
\* that is exported beside them is read later, and may be another.
OnlyApprovedRulesCompile ==
  \A contents \in exported : \E objects \in rulebooks :
    /\ \A i \in DOMAIN objects : objects[i].approved
    /\ contents.constraints =
         WithIntrinsic(contents.markets,
                       Compile(LoadRulebook(objects).rules, VariablesFromUniverse(contents.markets))).constraints

\* A combinatorial or buy-all bundle of two-outcome markets pays its guaranteed payout in
\* every state that the compiled constraints allow.
GuaranteedPayoutHolds ==
  \A contents \in Compiled : \A i \in DOMAIN contents.bundles :
    (\A k \in DOMAIN contents.bundles[i].legs : \A m \in DOMAIN contents.markets :
       contents.markets[m].market_id = contents.bundles[i].legs[k].market_id =>
         IsYesNoPair(contents.markets[m].outcomes)) =>
      \A state \in AllStates(contents) :
        BundlePays(contents.bundles[i], contents.variables, state) >=
          contents.bundles[i].guaranteed_payout_tick

\* A state of the variables of a component, in the component's own numbers.
LocalState(component, state) == {LocalId(component, v) : v \in state}

\* The components split the problem: each variable is in one, a state is feasible exactly
\* when each component's part of it is, and no component falls apart into two.
PartitionIsProduct ==
  \A contents \in Compiled :
    LET parts == [i \in DOMAIN contents.components |-> ToSet(contents.components[i].variable_ids)]
    IN  /\ \A v \in 0 .. Len(contents.variables) - 1 : Cardinality({i \in DOMAIN parts : v \in parts[i]}) = 1
        /\ \A state \in SUBSET (0 .. Len(contents.variables) - 1) :
             Feasible(contents.constraints, state) <=>
               \A i \in DOMAIN parts :
                 SmallEnumIsFeasible(contents.components[i], contents.constraints,
                                     LocalState(contents.components[i], state \cap parts[i]))
        /\ \A i \in DOMAIN parts : \A half \in (SUBSET parts[i]) \ {{}, parts[i]} :
             \E k \in DOMAIN contents.components[i].constraint_ids :
               LET ids == ToSet(contents.constraints[contents.components[i].constraint_ids[k] + 1].var_ids)
               IN  ids \cap half # {} /\ ids \ half # {}

\* A component of one constraint that is given to a semantic oracle gets from it what an
\* enumeration of its states gives, for the worst case of every set of its positions, and the
\* two take the same states for feasible.  The enumeration is asked in the component's own
\* numbers and the semantic oracle in those of the whole problem.
ComponentOraclesAgree ==
  \A contents \in Compiled : \A i \in DOMAIN contents.components :
    LET component == contents.components[i]
    IN  Len(component.constraint_ids) = 1 =>
          \A held \in SUBSET ToSet(component.variable_ids) :
            LET objective == [k \in DOMAIN component.variable_ids |->
                    [variable_id |-> component.variable_ids[k], cost_tick |-> 0,
                     payout_if_true_tick  |-> IF component.variable_ids[k] \in held THEN PayoutOneTick ELSE 0,
                     payout_if_false_tick |-> IF component.variable_ids[k] \in held THEN 0 ELSE PayoutOneTick]]
                enumerated == SmallEnumMinPayoff(component, contents.constraints, objective)
            IN  /\ component.kind = "ExactlyOne" =>
                     /\ ExactlyOneMinPayoff(component, objective) = enumerated
                     /\ ExactlyOneIsFeasible(component, held) <=>
                          SmallEnumIsFeasible(component, contents.constraints, LocalState(component, held))
                /\ component.kind = "AtMostOne" =>
                     /\ AtMostOneMinPayoff(component, objective) = enumerated
                     /\ AtMostOneIsFeasible(component, held) <=>
                          SmallEnumIsFeasible(component, contents.constraints, LocalState(component, held))

\* The payoff matrix gives every asset what its own variable settles at, although the
\* columns are in the order of the assets and the variables in that of their keys.
PayoffMatrixIsSettlement ==
  \A contents \in Compiled : \A state \in DOMAIN contents.payoff_matrix.entries :
    \A i \in DOMAIN contents.payoff_matrix.asset_ids :
      contents.payoff_matrix.entries[state][i] =
        LegPays([asset_id |-> contents.payoff_matrix.asset_ids[i], quantity_lots |-> 1],
                contents.variables, state)

\* The compiler loses nothing: components, semantic oracles and payoff matrix say of every state
\* what the constraints and the variables say (ComponentPartitioner, the oracles, PayoffMatrixBuilder).
CompilerIsExact == PartitionIsProduct /\ ComponentOraclesAgree /\ PayoffMatrixIsSettlement

\* What the engine has loaded is one export, whole: a stopped export, old files that were
\* left behind and a cut-off checksum list never load as a mixture.
LoadedIsOneExport ==
  reader.ok => \E contents \in exported :
                 reader.bundles = contents.bundles /\ reader.manifest = contents.manifest

\* An artifact that the workflow accepts is one that the engine's reader loads.
AcceptedArtifactLoads == (export = Idle /\ AcceptanceOk(last)) => ReaderLoad(disk).ok

\* One asset has one index in all runtime plans, and no two assets share one.
PlansShareIndices ==
  \A p, q \in DOMAIN reader.plans :
    \A i \in DOMAIN reader.plans[p].asset_ids, j \in DOMAIN reader.plans[q].asset_ids :
      reader.plans[p].asset_ids[i] = reader.plans[q].asset_ids[j] <=>
        reader.plans[p].asset_indices[i] = reader.plans[q].asset_indices[j]

\* What reaches the runtime is whole: one export, which loads if the workflow accepted it, in plans
\* that agree on the index of every asset (OracleArtifactReader).
ArtifactLoadsWhole == LoadedIsOneExport /\ AcceptedArtifactLoads /\ PlansShareIndices

\* A rulebook that no state satisfies is reported as contradictory and not accepted.
ContradictionsAreReported ==
  \A contents \in Compiled : AllStates(contents) = {} => export.summary.contradictions = 1
=============================================================================
