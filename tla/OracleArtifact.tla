---------------------------- MODULE OracleArtifact ----------------------------
(* oracle/artifact and the signal engine's OracleArtifactReader: the directory   *)
(* an export leaves behind, file by file, and what loading it yields.  A file is *)
(* [value, torn]; a checksum stands for the bytes it was taken of, so two        *)
(* checksums are equal exactly when the files are.                               *)
EXTENDS OracleCompiler

-----------------------------------------------------------------------------
\* ArtifactLayout.

kArtifactPayloadFiles ==
  << "manifest.json", "market_universe.json", "rulebook.json", "variables.bin", "constraints.bin",
     "components.bin", "component_constraints.bin", "oracle_descriptors.bin",
     "bundle_templates.bin", "feasible_states.bin", "payoff_matrix.bin",
     "candidate_bundles.bin", "market_dependency_graph.bin", "settlement_bitmask.bin" >>
kChecksumFiles == SubSeq(kArtifactPayloadFiles, 1, 12)
kLegacyRequiredChecksumFiles ==
  {"manifest.json", "market_universe.json", "rulebook.json", "variables.bin", "constraints.bin",
   "feasible_states.bin", "payoff_matrix.bin", "candidate_bundles.bin"}
kChecksumsFile == "checksums.txt"
OptionalFiles ==
  {"components.bin", "component_constraints.bin", "oracle_descriptors.bin", "bundle_templates.bin"}
Files == ToSet(kArtifactPayloadFiles) \cup {kChecksumsFile}

\* A directory is a function from the files that exist.
NoFiles == [f \in {} |-> << >>]
WriteFile(disk, file, content) ==
  [f \in DOMAIN disk \cup {file} |-> IF f = file THEN content ELSE disk[f]]
Whole(value) == [value |-> value, torn |-> FALSE]
Torn(value) == [value |-> value, torn |-> TRUE]

\* ArtifactManifest, with the counts and hashes that are checked or handed on.
DefaultManifest ==
  [artifact_version |-> 1, market_count |-> 0, variable_count |-> 0, rule_count |-> 0,
   constraint_count |-> 0, component_count |-> 0, feasible_state_count |-> 0,
   bundle_count |-> 0, llm_outputs_used |-> FALSE, rulebook_hash |-> << >>, constraint_hash |-> << >>]

\* manifest_to_json and parse_manifest: a field that is missing reads as zero.
ManifestToJson(manifest) == [field \in DOMAIN manifest |-> manifest[field]]
ParseManifest(object) ==
  [field \in DOMAIN DefaultManifest |->
     IF field \in DOMAIN object THEN object[field]
     ELSE [DefaultManifest EXCEPT !.artifact_version = 0][field]]

\* hash_candidate_bundle: the bundle itself, which it is taken of.
BundleHash(bundle) == bundle

\* The serializers.  Only the manifest and the bundles are ever read again; the others are
\* the fields that are written.  A bundle file is the run of its numbers and names.
SerializeVariables(variables) ==
  [i \in DOMAIN variables |-> << i - 1, variables[i].key, variables[i].asset_id >>]
SerializeConstraints(constraints) ==
  [i \in DOMAIN constraints |->
     << constraints[i].op, constraints[i].rhs, constraints[i].var_ids, constraints[i].coeffs >>]
SerializeComponents(components) ==
  [i \in DOMAIN components |->
     << components[i].component_id, components[i].kind, components[i].variable_ids,
        components[i].constraint_ids >>]
SerializeOracleDescriptors(components) ==
  [i \in DOMAIN components |->
     << components[i].component_id, components[i].kind, Len(components[i].variable_ids),
        Len(components[i].constraint_ids) >>]
SerializeFeasibleStates(states) == [count |-> Cardinality(states), states |-> states]
SerializePayoffMatrix(matrix) ==
  << matrix.row_count, matrix.column_count, matrix.asset_ids, matrix.entries >>
MarketUniverseJson(markets) ==
  [i \in DOMAIN markets |-> << markets[i].market_id, markets[i].outcomes, markets[i].asset_ids >>]

SerializeLeg(leg) ==
  << leg.market_id, leg.asset_id, leg.side, leg.quantity_lots, leg.max_price_tick >>
SerializeBundle(bundle) ==
  << bundle.bundle_id, bundle.required_true_mask, bundle.required_false_mask,
     bundle.invalid_mask, bundle.guaranteed_payout_tick, Len(bundle.legs), bundle.min_edge_tick >>
  \o FlattenSeq([i \in DOMAIN bundle.legs |-> SerializeLeg(bundle.legs[i])])
SerializeCandidateBundles(bundles) ==
  << Len(bundles) >> \o FlattenSeq([i \in DOMAIN bundles |-> SerializeBundle(bundles[i])])

\* What each payload file holds; the templates and the last two are written empty.
Payload(contents, file) ==
  CASE file = "manifest.json"          -> ManifestToJson(contents.manifest)
    [] file = "market_universe.json"   -> MarketUniverseJson(contents.markets)
    [] file = "rulebook.json"          -> contents.rulebook
    [] file = "variables.bin"          -> SerializeVariables(contents.variables)
    [] file = "constraints.bin"        -> SerializeConstraints(contents.constraints)
    [] file \in {"components.bin", "component_constraints.bin"} ->
         SerializeComponents(contents.components)
    [] file = "oracle_descriptors.bin" -> SerializeOracleDescriptors(contents.components)
    [] file = "feasible_states.bin"    -> SerializeFeasibleStates(contents.feasible_states)
    [] file = "payoff_matrix.bin"      -> SerializePayoffMatrix(contents.payoff_matrix)
    [] file = "candidate_bundles.bin"  -> SerializeCandidateBundles(contents.bundles)
    [] OTHER -> << >>

-----------------------------------------------------------------------------
\* ArtifactExporter: the payloads in the order of their list, the checksums last.

\* write_checksums reads every payload back and lists it.
ChecksumsOf(disk, count) == [i \in 1 .. count |-> [name |-> kChecksumFiles[i], hash |-> disk[kChecksumFiles[i]]]]

WritePayload(disk, contents, place) ==
  WriteFile(disk, kArtifactPayloadFiles[place], Whole(Payload(contents, kArtifactPayloadFiles[place])))
WriteChecksums(disk) ==
  WriteFile(disk, kChecksumsFile, Whole(ChecksumsOf(disk, Len(kChecksumFiles))))

\* A write that stops half way leaves a payload torn, and the checksum list cut off.
TearPayload(disk, contents, place) ==
  WriteFile(disk, kArtifactPayloadFiles[place], Torn(Payload(contents, kArtifactPayloadFiles[place])))
TearChecksums(disk, count) == WriteFile(disk, kChecksumsFile, Whole(ChecksumsOf(disk, count)))

-----------------------------------------------------------------------------
\* ArtifactLoader.

\* parse_checksums: no error when every required file has an entry.
ListsRequired(checksums) ==
  \A f \in kLegacyRequiredChecksumFiles : \E i \in DOMAIN checksums : checksums[i].name = f

\* Faulty variant: a file is compared only by being there.
VerifyChecksumsExistence(disk, checksums) ==
  \A i \in DOMAIN checksums : checksums[i].name \in DOMAIN disk

\* verify_checksums.
VerifyChecksums(disk, checksums) ==
  \A i \in DOMAIN checksums :
    checksums[i].name \in DOMAIN disk /\ disk[checksums[i].name] = checksums[i].hash

\* load: whether there is no error.  A torn manifest is malformed; any other torn file is
\* only noticed by its checksum.
ArtifactOk(disk) ==
  /\ kChecksumsFile \in DOMAIN disk
  /\ ListsRequired(disk[kChecksumsFile].value)
  /\ VerifyChecksums(disk, disk[kChecksumsFile].value)
  /\ \A i \in DOMAIN kArtifactPayloadFiles :
       kArtifactPayloadFiles[i] \in OptionalFiles \/ kArtifactPayloadFiles[i] \in DOMAIN disk
  /\ ~ disk["manifest.json"].torn

-----------------------------------------------------------------------------
\* OracleArtifactReader.

kSupportedArtifactVersion == 1

\* parse_bundles takes a file whose first byte is a bracket or a brace for JSON.  The first
\* byte of the binary format is the low byte of the number of bundles, and '{' is 123, '[' 91:
\* a binary file of so many bundles is read as JSON, and refused.
ReadAsJson(words) == words[1] % 256 \in {91, 123}

\* read_binary_bundle, from a place in the file on; the leg count bounds what is read.
ReadLeg(words, at) ==
  [market_id |-> words[at], asset_id |-> words[at + 1], side |-> words[at + 2],
   quantity_lots |-> words[at + 3], max_price_tick |-> words[at + 4]]
ReadBinaryBundle(words, at) ==
  [bundle_id |-> words[at], required_true_mask |-> words[at + 1],
   required_false_mask |-> words[at + 2], invalid_mask |-> words[at + 3],
   guaranteed_payout_tick |-> words[at + 4], min_edge_tick |-> words[at + 6],
   legs |-> [i \in 1 .. words[at + 5] |-> ReadLeg(words, at + 7 + 5 * (i - 1))]]
Readable(words, at) ==
  /\ at + 6 <= Len(words) /\ words[at + 5] <= MaxBundleLegs
  /\ at + 6 + 5 * words[at + 5] <= Len(words)
ValidSides(words, at) == \A i \in 1 .. words[at + 5] : ReadLeg(words, at + 7 + 5 * (i - 1)).side \in Side
NoBundles == [ok |-> FALSE, bundles |-> << >>, at |-> 0]
ParseBinaryBundles(words) ==
  LET read == FoldLeft(LAMBDA r, i :
                         IF ~ (r.ok /\ Readable(words, r.at) /\ ValidSides(words, r.at)) THEN NoBundles
                         ELSE [ok |-> TRUE, at |-> r.at + 7 + 5 * words[r.at + 5],
                               bundles |-> Append(r.bundles, ReadBinaryBundle(words, r.at))],
                       [ok |-> TRUE, bundles |-> << >>, at |-> 2], [i \in 1 .. words[1] |-> i])
  IN  IF read.ok /\ read.at = Len(words) + 1 THEN read ELSE NoBundles
\* A binary file is no JSON document.
ParseJsonBundles(words) == NoBundles
ParseBundles(words) ==
  IF ReadAsJson(words) THEN ParseJsonBundles(words) ELSE ParseBinaryBundles(words)

ReaderValidates(bundles) ==
  \A i \in DOMAIN bundles :
    /\ Len(bundles[i].legs) <= MaxBundleLegs
    /\ \A j \in 1 .. i - 1 : bundles[j].bundle_id # bundles[i].bundle_id

\* SideResolver::resolve
ExecutableSide(side) == IF side = "Buy" THEN "Asks" ELSE "Unsupported"

\* The assets of a list of bundles in the order in which their legs first name them; the
\* index of an asset is its place in it, counted from 0.
FirstAppearances(assets) ==
  SelectSeq([i \in DOMAIN assets |-> << i, assets[i] >>],
            LAMBDA p : \A j \in 1 .. p[1] - 1 : assets[j] # p[2])
LegAssets(bundle) == [i \in DOMAIN bundle.legs |-> bundle.legs[i].asset_id]
AssetOrder(bundles) == FirstAppearances(FlattenSeq([i \in DOMAIN bundles |-> LegAssets(bundles[i])]))
AssetIndex(order, asset) == SelectInSeq(order, LAMBDA p : p[2] = asset) - 1

\* The order that numbers the assets of the i-th plan.
PlanOrder(bundles, i) == AssetOrder(bundles)

\* BundleRuntimePlan and build_runtime_plans.
RuntimePlan(bundle, order, artifact_hash, constraint_hash) ==
  [bundle_id |-> bundle.bundle_id, bundle_hash |-> BundleHash(bundle),
   oracle_artifact_hash |-> artifact_hash, constraint_hash |-> constraint_hash,
   guaranteed_payout_tick |-> bundle.guaranteed_payout_tick,
   min_unit_edge_tick |-> bundle.min_edge_tick, min_total_edge_tick |-> bundle.min_edge_tick,
   market_ids |-> [i \in DOMAIN bundle.legs |-> bundle.legs[i].market_id],
   asset_ids  |-> LegAssets(bundle),
   executable_sides |-> [i \in DOMAIN bundle.legs |-> ExecutableSide(bundle.legs[i].side)],
   ratio_qty_lots   |-> [i \in DOMAIN bundle.legs |-> bundle.legs[i].quantity_lots],
   max_price_ticks  |-> [i \in DOMAIN bundle.legs |-> bundle.legs[i].max_price_tick],
   asset_indices    |-> [i \in DOMAIN bundle.legs |-> AssetIndex(order, bundle.legs[i].asset_id)],
   unique_asset_ids |->
     LET first == FirstAppearances(LegAssets(bundle)) IN [i \in DOMAIN first |-> first[i][2]]]
BuildRuntimePlans(bundles, artifact_hash, constraint_hash) ==
  [i \in DOMAIN bundles |->
     RuntimePlan(bundles[i], PlanOrder(bundles, i), artifact_hash, constraint_hash)]

UnloadedReader ==
  [ok |-> FALSE, bundles |-> << >>, plans |-> << >>, manifest |-> DefaultManifest]

\* OracleArtifactReader::load, which drops what was loaded before it looks at the directory.
ReaderLoadFrom(manifest, parsed) ==
  IF /\ manifest.artifact_version = kSupportedArtifactVersion
     /\ parsed.ok
     /\ Len(parsed.bundles) = manifest.bundle_count
     /\ ReaderValidates(parsed.bundles)
  THEN [ok |-> TRUE, bundles |-> parsed.bundles, manifest |-> manifest,
        plans |-> BuildRuntimePlans(parsed.bundles, manifest, manifest.constraint_hash)]
  ELSE UnloadedReader
ReaderLoad(disk) ==
  IF ArtifactOk(disk)
  THEN ReaderLoadFrom(ParseManifest(disk["manifest.json"].value),
                      ParseBundles(disk["candidate_bundles.bin"].value))
  ELSE UnloadedReader
=============================================================================
