----------------------------- MODULE OracleProofs -----------------------------
(* What the offline workflow guarantees for every market list, rulebook and      *)
(* fixture, and for every point at which a tool may stop or its inputs change:   *)
(* exported constraints come from one rulebook that was approved rule by rule,   *)
(* and a directory that passes its checksums holds one export.                   *)
EXTENDS OracleWorkflow, SequenceTheorems, TLAPS

-----------------------------------------------------------------------------
\* What run_once has prepared when it comes to the bundles.

\* The constraints that a rulebook stands for over a list of markets.
ConstraintsOf(objects, markets) ==
  WithIntrinsic(markets, Compile(LoadRulebook(objects).rules, VariablesFromUniverse(markets))).constraints
AllApproved(objects) == \A i \in DOMAIN objects : objects[i].approved

\* A result is refused, or it holds the markets and the constraints it was computed from.
Keeps(result, markets, compiled) ==
  result.ok => result.markets = markets /\ result.compiled = compiled

LEMMA RefusalKeeps ==
  ASSUME NEW summary, NEW markets, NEW compiled
  PROVE  Keeps(Failed(summary), markets, compiled)
BY DEF Keeps, Failed

LEMMA PreparedKeeps ==
  ASSUME NEW markets, NEW rules, NEW compiled, NEW components, NEW feasible, NEW matrix, NEW summary
  PROVE  Keeps(Prepared(markets, rules, compiled, components, feasible, matrix, summary), markets, compiled)
BY DEF Keeps, Prepared

\* run_once behind the intrinsic constraints, on each of its ways.
LEMMA PartitionKeeps ==
  ASSUME NEW markets, NEW rules, NEW compiled, NEW components, NEW summary
  PROVE  Keeps(AfterPartition(markets, rules, compiled, components, summary), markets, compiled)
<1>1. ASSUME NEW feasible
      PROVE  Keeps(AfterEnumeration(markets, rules, compiled, components, feasible, summary), markets, compiled)
  BY RefusalKeeps, PreparedKeeps DEF AfterEnumeration
<1> QED BY <1>1, RefusalKeeps, PreparedKeeps DEF AfterPartition

\* What is not refused was compiled from rules that are all approved, and from nothing else.
LEMMA PrepareIsChecked ==
  ASSUME NEW markets, NEW objects, Prepare(markets, LoadRulebook(objects)).ok
  PROVE  /\ AllApproved(objects)
         /\ Prepare(markets, LoadRulebook(objects)).markets = markets
         /\ Prepare(markets, LoadRulebook(objects)).compiled.constraints = ConstraintsOf(objects, markets)
<1> DEFINE loaded    == LoadRulebook(objects)
           variables == VariablesFromUniverse(markets)
           before    == UniverseSummary(markets)
           counted   == CountApproved(loaded.rules, before)
           compiled  == Compile(loaded.rules, variables)
           whole     == WithIntrinsic(markets, compiled)
           result    == Prepare(markets, loaded)
<1>1. \A summary : Failed(summary).ok = FALSE
  BY DEF Failed
<1>2. result = AfterRules(markets, loaded.rules, variables, before)
  <2> HIDE DEF loaded, variables, before
  <2>1. \/ result = Failed(before)
        \/ result = AfterRules(markets, loaded.rules, variables, before)
    BY DEF Prepare, variables, before
  <2> QED BY <1>1, <2>1 DEF loaded
<1>3. /\ CompilerReady(loaded.rules, KnownVariableKeys(variables))
      /\ result = AfterCompile(markets, loaded.rules, compiled, counted)
  <2> HIDE DEF loaded, variables, before
  <2>1. \/ result = Failed(counted)
        \/ /\ CompilerReady(loaded.rules, KnownVariableKeys(variables))
           /\ result = AfterCompile(markets, loaded.rules, compiled, counted)
    <3> HIDE DEF result
    <3> QED BY <1>2 DEF AfterRules
  <2> QED BY <1>1, <2>1 DEF loaded
<1>4. result = WithComponents(markets, loaded.rules, whole, counted)
  <2> HIDE DEF loaded, variables, before, compiled, counted
  <2>1. \/ result = Failed(counted)
        \/ result = WithComponents(markets, loaded.rules, whole, counted)
    <3> HIDE DEF result
    <3> QED BY <1>3 DEF AfterCompile
  <2> QED BY <1>1, <2>1 DEF loaded
<1>5. result.markets = markets /\ result.compiled = whole
  <2>1. Keeps(WithComponents(markets, loaded.rules, whole, counted), markets, whole)
    <3> HIDE DEF loaded, whole, counted
    <3> QED BY PartitionKeeps DEF WithComponents
  <2> HIDE DEF loaded, whole, counted, result
  <2>2. Keeps(result, markets, whole)
    BY <1>4, <2>1
  <2>3. result.ok
    BY DEF result, loaded
  <2> QED BY <2>2, <2>3 DEF Keeps
<1>6. AllApproved(objects)
  <2>1. \A i \in DOMAIN objects : ParseRule(objects[i]).approved
    <3>1. DOMAIN loaded.rules = DOMAIN objects /\ \A i \in DOMAIN objects : loaded.rules[i] = ParseRule(objects[i])
      BY DEF LoadRulebook
    <3> HIDE DEF loaded, variables
    <3> QED BY <1>3, <3>1 DEF CompilerReady
  <2>2. ASSUME NEW object PROVE ParseRule(object).approved = object.approved
    BY DEF ParseRule, DefaultValidatedRule
  <2> QED BY <2>1, <2>2 DEF AllApproved
<1>7. whole.constraints = ConstraintsOf(objects, markets)
  BY DEF ConstraintsOf
<1> HIDE DEF whole
<1> QED BY <1>5, <1>6, <1>7

-----------------------------------------------------------------------------
\* Only approved rules are compiled.

\* One rulebook that the file held, approved rule by rule, gave the constraints.
ApprovedConstraints(markets, constraints) ==
  \E objects \in rulebooks : AllApproved(objects) /\ constraints = ConstraintsOf(objects, markets)

\* What a verification has prepared, and what was exported, comes from such a rulebook; the
\* rulebook of the file is one of those the file held.
CompiledFromApproved ==
  /\ rulebook_file \in rulebooks
  /\ verify # Idle => {"stage", "prepared"} \subseteq DOMAIN verify
  /\ AtStage("bundles") \/ AtStage("text") =>
       ApprovedConstraints(verify.prepared.markets, verify.prepared.compiled.constraints)
  /\ \A contents \in exported : ApprovedConstraints(contents.markets, contents.constraints)

LEMMA FirstExports == Init => CompiledFromApproved
<1> SUFFICES ASSUME Init PROVE CompiledFromApproved
  OBVIOUS
<1>1. rulebook_file = << >> /\ verify = Idle
  BY DEF Init
<1>2. CASE exported = {} /\ rulebooks = {<< >>}
  BY <1>1, <1>2 DEF CompiledFromApproved, AtStage
<1>3. ASSUME NEW inputs \in Earlier, EarlierExport(inputs)
      PROVE  CompiledFromApproved
  <2> DEFINE markets == BuildUniverse(inputs.records).markets
  <2>1. PICK prepared, generated :
          /\ prepared = Prepare(markets, LoadRulebook(inputs.rulebook)) /\ prepared.ok
          /\ exported = {Contents(prepared, inputs.rulebook, generated.bundles)}
          /\ rulebooks = {<< >>, inputs.rulebook}
    BY <1>3 DEF EarlierExport, EarlierPrepared
  <2> HIDE DEF markets
  <2>2. /\ AllApproved(inputs.rulebook) /\ prepared.markets = markets
        /\ prepared.compiled.constraints = ConstraintsOf(inputs.rulebook, markets)
    BY <2>1, PrepareIsChecked
  <2>3. ASSUME NEW contents \in exported
        PROVE  contents.markets = markets /\ contents.constraints = prepared.compiled.constraints
    BY <2>1, <2>2 DEF Contents
  <2>4. \A contents \in exported : ApprovedConstraints(contents.markets, contents.constraints)
    BY <2>1, <2>2, <2>3 DEF ApprovedConstraints
  <2>5. rulebook_file \in rulebooks
    BY <1>1, <2>1
  <2> QED BY <1>1, <2>4, <2>5 DEF CompiledFromApproved, AtStage
<1> QED BY <1>2, <1>3 DEF Init

\* The history only grows.
LEMMA HistoryGrows ==
  ASSUME [Next]_workflowVars
  PROVE  /\ rulebooks \subseteq rulebooks'
         /\ rulebook_file' = rulebook_file \/ rulebook_file' \in rulebooks'
<1>1. CASE UNCHANGED << rulebook_file, rulebooks >>
  BY <1>1
<1>2. CASE StartFetch \/ FetchPage \/ WriteBuyAll \/ FetchFails \/ GammaChanges
  BY <1>1, <1>2 DEF StartFetch, FetchPage, WriteBuyAll, FetchFails, GammaChanges, ruleVars
<1>3. CASE ApproveDraftsFile \/ ExtractStops \/ \E reply \in Responses, approve \in BOOLEAN : ExtractRules(reply, approve)
  BY <1>1, <1>3, Zenon DEF ApproveDraftsFile, ExtractStops, ExtractRules
<1>4. CASE SaveApproved \/ \E objects \in HandWritten : WriteRulebook(objects)
  BY <1>4 DEF SaveApproved, WriteRulebook, RewriteRulebook
<1>5. CASE \/ \E options \in Options : StartVerify(options)
           \/ ReadMarkets \/ ReadRulebook \/ ReadBundles
  BY <1>1, <1>5 DEF StartVerify, ReadMarkets, ReadRulebook, ReadBundles, ruleVars
<1>6. CASE (\E left \in Leftovers : ReadRulebookText(left)) \/ (\E written \in BOOLEAN : SecondPass(written))
  BY <1>1, <1>6, Zenon DEF ReadRulebookText, SecondPass, ruleVars
<1>7. CASE VerifyStops \/ ExportPayload \/ ExportChecksums \/ ExportStops
  BY <1>1, <1>7 DEF VerifyStops, ExportPayload, ExportChecksums, ExportStops, ruleVars
<1>8. CASE LoadArtifact \/ UNCHANGED workflowVars
  BY <1>1, <1>8 DEF LoadArtifact, workflowVars, ruleVars
<1> QED BY <1>2, <1>3, <1>4, <1>5, <1>6, <1>7, <1>8 DEF Next

\* A verification that is started has the fields of Verification.
LEMMA VerificationShape ==
  ASSUME NEW options, NEW first
  PROVE  /\ Verification(options, first).stage = "markets"
         /\ {"stage", "prepared"} \subseteq DOMAIN Verification(options, first)
         /\ LET stopped == [Verification(options, first) EXCEPT !.stage = "export"]
            IN  stopped.stage = "export" /\ {"stage", "prepared"} \subseteq DOMAIN stopped
BY DEF Verification

\* The ways of a verification: it stays, is stopped, reads on, or has just compiled the rulebook
\* as it is in the file.
LEMMA VerificationStep ==
  ASSUME CompiledFromApproved, [Next]_workflowVars
  PROVE  \/ UNCHANGED verify
         \/ verify' = Idle
         \/ /\ {"stage", "prepared"} \subseteq DOMAIN verify'
            /\ verify'.stage \in {"markets", "rulebook", "export"}
         \/ /\ {"stage", "prepared"} \subseteq DOMAIN verify'
            /\ AtStage("bundles") /\ verify'.prepared = verify.prepared
         \/ /\ {"stage", "prepared"} \subseteq DOMAIN verify'
            /\ Prepare(verify.markets, LoadRulebook(rulebook_file)).ok
            /\ verify'.prepared = Prepare(verify.markets, LoadRulebook(rulebook_file))
<1> DEFINE Goal == \/ UNCHANGED verify
                   \/ verify' = Idle
                   \/ /\ {"stage", "prepared"} \subseteq DOMAIN verify'
                      /\ verify'.stage \in {"markets", "rulebook", "export"}
                   \/ /\ {"stage", "prepared"} \subseteq DOMAIN verify'
                      /\ AtStage("bundles") /\ verify'.prepared = verify.prepared
                   \/ /\ {"stage", "prepared"} \subseteq DOMAIN verify'
                      /\ Prepare(verify.markets, LoadRulebook(rulebook_file)).ok
                      /\ verify'.prepared = Prepare(verify.markets, LoadRulebook(rulebook_file))
<1> SUFFICES Goal
  OBVIOUS
<1>1. CASE UNCHANGED verify
  BY <1>1
<1>2. ASSUME NEW summary, Conclude(summary) PROVE Goal
  BY <1>2 DEF Conclude
<1>3. verify # Idle => {"stage", "prepared"} \subseteq DOMAIN verify
  BY DEF CompiledFromApproved
<1>4. CASE \E options \in Options : StartVerify(options)
  BY <1>4, VerificationShape DEF StartVerify
<1>5. CASE ReadMarkets
  <2>1. CASE verify' = [verify EXCEPT !.stage = "rulebook", !.markets = BuildUniverse(markets_file).markets]
    BY <1>3, <1>5, <2>1 DEF ReadMarkets, AtStage
  <2> QED BY <1>2, <1>5, <2>1 DEF ReadMarkets
<1>6. CASE ReadRulebook
  <2> DEFINE prepared == Prepare(verify.markets, LoadRulebook(rulebook_file))
  <2>1. CASE prepared.ok /\ verify' = [verify EXCEPT !.stage = "bundles", !.prepared = prepared]
    <3>1. {"stage", "prepared"} \subseteq DOMAIN verify
      BY <1>3, <1>6 DEF ReadRulebook, AtStage
    <3> HIDE DEF prepared
    <3>2. {"stage", "prepared"} \subseteq DOMAIN verify' /\ verify'.prepared = prepared
      BY <2>1, <3>1
    <3> QED BY <2>1, <3>2 DEF prepared
  <2>2. \/ prepared.ok /\ verify' = [verify EXCEPT !.stage = "bundles", !.prepared = prepared]
        \/ Conclude(prepared.summary)
    BY <1>6 DEF ReadRulebook
  <2> QED BY <1>2, <2>1, <2>2
<1>7. CASE ReadBundles
  <2>1. PICK generated : \/ verify' = [verify EXCEPT !.stage = "text", !.bundles = generated.bundles]
                         \/ Conclude(Failed(verify.prepared.summary).summary)
    BY <1>7, Zenon DEF ReadBundles
  <2>2. CASE verify' = [verify EXCEPT !.stage = "text", !.bundles = generated.bundles]
    BY <1>3, <1>7, <2>2 DEF ReadBundles, AtStage
  <2> QED BY <1>2, <2>1, <2>2
<1>8. CASE \E left \in Leftovers : ReadRulebookText(left)
  BY <1>8, VerificationShape DEF ReadRulebookText, BeginExport
<1>9. CASE \E written \in BOOLEAN : SecondPass(written)
  BY <1>9 DEF SecondPass
<1>10. CASE VerifyStops \/ ExportStops
  BY <1>2, <1>10 DEF VerifyStops, ExportStops
<1>11. CASE ExportChecksums
  <2>1. \/ \E first : verify' = Verification(verify.options, first)
        \/ Conclude(Verdict(disk', export.summary))
    BY <1>11 DEF ExportChecksums
  <2> QED BY <1>2, <2>1, VerificationShape
<1>12. CASE StartFetch \/ FetchPage \/ WriteBuyAll \/ FetchFails \/ GammaChanges
  BY <1>1, <1>12 DEF StartFetch, FetchPage, WriteBuyAll, FetchFails, GammaChanges, verifyVars
<1>13. CASE \/ ApproveDraftsFile \/ SaveApproved \/ ExtractStops
            \/ \E reply \in Responses, approve \in BOOLEAN : ExtractRules(reply, approve)
            \/ \E objects \in HandWritten : WriteRulebook(objects)
  BY <1>1, <1>13, Zenon DEF ApproveDraftsFile, SaveApproved, ExtractStops, ExtractRules, WriteRulebook, verifyVars
<1>14. CASE ExportPayload \/ LoadArtifact \/ UNCHANGED workflowVars
  BY <1>1, <1>14 DEF ExportPayload, LoadArtifact, workflowVars, verifyVars
<1> QED BY <1>4, <1>5, <1>6, <1>7, <1>8, <1>9, <1>10, <1>11, <1>12, <1>13, <1>14 DEF Next

\* A step exports nothing but what a verification has prepared, and forgets no export.
LEMMA NewExports ==
  ASSUME [Next]_workflowVars
  PROVE  \/ UNCHANGED exported
         \/ AtStage("text") /\ exported' = exported \cup {Contents(verify.prepared, rulebook_file, verify.bundles)}
<1>1. CASE UNCHANGED exported
  BY <1>1
<1>2. CASE \E left \in Leftovers : ReadRulebookText(left)
  BY <1>2 DEF ReadRulebookText, BeginExport
<1>3. CASE StartFetch \/ FetchPage \/ WriteBuyAll \/ FetchFails \/ GammaChanges
  BY <1>1, <1>3 DEF StartFetch, FetchPage, WriteBuyAll, FetchFails, GammaChanges, verifyVars
<1>4. CASE \/ ApproveDraftsFile \/ SaveApproved \/ ExtractStops
           \/ \E reply \in Responses, approve \in BOOLEAN : ExtractRules(reply, approve)
           \/ \E objects \in HandWritten : WriteRulebook(objects)
  BY <1>1, <1>4, Zenon DEF ApproveDraftsFile, SaveApproved, ExtractStops, ExtractRules, WriteRulebook, verifyVars
<1>5. CASE \/ \E options \in Options : StartVerify(options)
           \/ ReadMarkets \/ ReadRulebook \/ ReadBundles
           \/ \E written \in BOOLEAN : SecondPass(written)
  BY <1>1, <1>5, Zenon DEF StartVerify, ReadMarkets, ReadRulebook, ReadBundles, SecondPass
<1>6. CASE VerifyStops \/ ExportPayload \/ ExportChecksums \/ ExportStops
  BY <1>1, <1>6 DEF VerifyStops, ExportPayload, ExportChecksums, ExportStops
<1>7. CASE LoadArtifact \/ UNCHANGED workflowVars
  BY <1>1, <1>7 DEF LoadArtifact, workflowVars, verifyVars
<1> QED BY <1>2, <1>3, <1>4, <1>5, <1>6, <1>7 DEF Next

LEMMA ApprovedStep == CompiledFromApproved /\ [Next]_workflowVars => CompiledFromApproved'
<1> SUFFICES ASSUME CompiledFromApproved, [Next]_workflowVars PROVE CompiledFromApproved'
  OBVIOUS
<1>1. rulebooks \subseteq rulebooks' /\ (rulebook_file \in rulebooks)'
  BY HistoryGrows DEF CompiledFromApproved
<1>2. (verify # Idle => {"stage", "prepared"} \subseteq DOMAIN verify)'
  BY VerificationStep DEF CompiledFromApproved
<1>3. ASSUME (AtStage("bundles") \/ AtStage("text"))'
      PROVE  ApprovedConstraints(verify.prepared.markets, verify.prepared.compiled.constraints)'
  <2> DEFINE prepared == Prepare(verify.markets, LoadRulebook(rulebook_file))
  <2>1. verify' # Idle /\ verify'.stage \notin {"markets", "rulebook", "export"}
    BY <1>3 DEF AtStage
  <2>2. CASE (AtStage("bundles") \/ AtStage("text")) /\ verify'.prepared = verify.prepared
    <3>1. ApprovedConstraints(verify.prepared.markets, verify.prepared.compiled.constraints)
      BY <2>2 DEF CompiledFromApproved
    <3>2. \E objects \in rulebooks' :
             AllApproved(objects) /\ verify.prepared.compiled.constraints = ConstraintsOf(objects, verify.prepared.markets)
      BY <1>1, <3>1 DEF ApprovedConstraints
    <3> QED BY <2>2, <3>2 DEF ApprovedConstraints
  <2>3. CASE prepared.ok /\ verify'.prepared = prepared
    <3>1. /\ AllApproved(rulebook_file)
          /\ prepared.compiled.constraints = ConstraintsOf(rulebook_file, prepared.markets)
      BY <2>3, PrepareIsChecked
    <3>2. rulebook_file \in rulebooks'
      BY <1>1 DEF CompiledFromApproved
    <3> HIDE DEF prepared
    <3> QED BY <2>3, <3>1, <3>2 DEF ApprovedConstraints
  <2>4. CASE UNCHANGED verify
    BY <1>3, <2>2, <2>4 DEF AtStage
  <2> QED BY <2>1, <2>2, <2>3, <2>4, VerificationStep
<1>4. ASSUME NEW contents \in exported' PROVE ApprovedConstraints(contents.markets, contents.constraints)'
  <2>1. ApprovedConstraints(contents.markets, contents.constraints)
    <3>1. CASE contents \in exported
      BY <3>1 DEF CompiledFromApproved
    <3>2. CASE AtStage("text") /\ contents = Contents(verify.prepared, rulebook_file, verify.bundles)
      <4>1. contents.markets = verify.prepared.markets /\ contents.constraints = verify.prepared.compiled.constraints
        BY <3>2 DEF Contents
      <4> QED BY <3>2, <4>1 DEF CompiledFromApproved
    <3> QED BY <3>1, <3>2, NewExports
  <2> QED BY <1>1, <2>1 DEF ApprovedConstraints
<1> QED BY <1>1, <1>2, <1>3, <1>4 DEF CompiledFromApproved

\* Whatever the model replies, the operator approves and a person writes into the rulebook
\* while verify_oracle_workflow reads its inputs, the constraints it exports are those of one
\* rulebook that was approved rule by rule (compiler_ready).
THEOREM OnlyApprovedRules == Spec => []OnlyApprovedRulesCompile
<1>1. CompiledFromApproved => OnlyApprovedRulesCompile
  BY DEF CompiledFromApproved, ApprovedConstraints, OnlyApprovedRulesCompile, AllApproved, ConstraintsOf
<1> QED BY <1>1, FirstExports, ApprovedStep, PTL DEF Spec

-----------------------------------------------------------------------------
\* A directory that passes its checksums holds one export.

\* The files the checksum list names, as one export leaves them.
ListOf(contents) ==
  [i \in 1 .. 12 |-> [name |-> kArtifactPayloadFiles[i],
                      hash |-> Whole(Payload(contents, kArtifactPayloadFiles[i]))]]

\* A checksum list that names every required file was taken of one export.
ListIsOfOneExport ==
  kChecksumsFile \in DOMAIN disk /\ ListsRequired(disk[kChecksumsFile].value) =>
    \E contents \in exported : disk[kChecksumsFile].value = ListOf(contents)

\* The export in progress has written the files before its place, and they are still there.
WrittenSoFar ==
  export # Idle =>
    /\ export.contents \in exported
    /\ export.next \in 1 .. 15
    /\ \A i \in 1 .. export.next - 1 :
         /\ kArtifactPayloadFiles[i] \in DOMAIN disk
         /\ disk[kArtifactPayloadFiles[i]] = Whole(Payload(export.contents, kArtifactPayloadFiles[i]))

\* The inductive invariant of the artifact directory.
DirectoryInv == ListIsOfOneExport /\ WrittenSoFar

\* No payload file has the name of the checksum list.
LEMMA PayloadNames ==
  /\ Len(kArtifactPayloadFiles) = 14
  /\ \A i \in 1 .. 14 : kArtifactPayloadFiles[i] # kChecksumsFile
  /\ \A i \in 1 .. 11 : kArtifactPayloadFiles[i] # "candidate_bundles.bin"
BY DEF kArtifactPayloadFiles, kChecksumsFile

LEMMA ChecksumNames ==
  /\ Len(kChecksumFiles) = 12
  /\ \A i \in 1 .. 12 : kChecksumFiles[i] = kArtifactPayloadFiles[i]
<1> DEFINE files == kArtifactPayloadFiles
           names == {files[i] : i \in 1 .. 12}
<1>1. \A i \in 1 .. 12 : files[i] \in names
  OBVIOUS
<1> HIDE DEF files, names
<1>2. /\ Len(SubSeq(files, 1, 12)) = IF 1 <= 12 THEN 12 - 1 + 1 ELSE 0
      /\ \A i \in 1 .. 12 - 1 + 1 : SubSeq(files, 1, 12)[i] = files[1 + i - 1]
  BY <1>1, SubSeqProperties
<1>3. Len(SubSeq(files, 1, 12)) = 12 /\ \A i \in 1 .. 12 : SubSeq(files, 1, 12)[i] = files[i]
  BY <1>2
<1> QED BY <1>3 DEF files, kChecksumFiles

\* What a write leaves behind.
LEMMA WriteFileKeeps ==
  ASSUME NEW dir, NEW file, NEW content, NEW other
  PROVE  /\ file \in DOMAIN WriteFile(dir, file, content)
         /\ WriteFile(dir, file, content)[file] = content
         /\ other # file =>
              /\ other \in DOMAIN WriteFile(dir, file, content) <=> other \in DOMAIN dir
              /\ other \in DOMAIN dir => WriteFile(dir, file, content)[other] = dir[other]
BY DEF WriteFile

\* A list that is cut off before its last entry lacks the bundles, which are required.
LEMMA CutListIsRefused ==
  ASSUME NEW dir, NEW count \in {0, 11}
  PROVE  ~ ListsRequired(ChecksumsOf(dir, count))
<1>1. "candidate_bundles.bin" \in kLegacyRequiredChecksumFiles
  BY DEF kLegacyRequiredChecksumFiles
<1>2. DOMAIN ChecksumsOf(dir, count) = 1 .. count
  BY DEF ChecksumsOf
<1>3. ASSUME NEW i \in 1 .. count PROVE ChecksumsOf(dir, count)[i].name # "candidate_bundles.bin"
  <2>1. i \in 1 .. 11 /\ i \in 1 .. 12
    OBVIOUS
  <2>2. ChecksumsOf(dir, count)[i].name = kChecksumFiles[i]
    BY DEF ChecksumsOf
  <2> QED BY <2>1, <2>2, ChecksumNames, PayloadNames
<1> QED BY <1>1, <1>2, <1>3 DEF ListsRequired

\* The list of a directory that holds a whole export is that export's list.
LEMMA WholeListIsOfItsExport ==
  ASSUME NEW dir, NEW contents,
         \A i \in 1 .. 14 : dir[kArtifactPayloadFiles[i]] = Whole(Payload(contents, kArtifactPayloadFiles[i]))
  PROVE  WriteChecksums(dir)[kChecksumsFile].value = ListOf(contents)
<1>1. WriteChecksums(dir)[kChecksumsFile].value = ChecksumsOf(dir, 12)
  BY WriteFileKeeps, ChecksumNames DEF WriteChecksums, Whole
<1>2. ASSUME NEW i \in 1 .. 12
      PROVE  /\ kChecksumFiles[i] = kArtifactPayloadFiles[i]
             /\ dir[kChecksumFiles[i]] = Whole(Payload(contents, kArtifactPayloadFiles[i]))
  BY ChecksumNames
<1>3. ChecksumsOf(dir, 12) = ListOf(contents)
  BY <1>2 DEF ChecksumsOf, ListOf
<1> QED BY <1>1, <1>3

-----------------------------------------------------------------------------
LEMMA DirectoryInit == Init => DirectoryInv
<1> SUFFICES ASSUME Init PROVE DirectoryInv
  OBVIOUS
<1>1. WrittenSoFar
  BY DEF Init, WrittenSoFar
<1>2. CASE disk = NoFiles
  <2>1. kChecksumsFile \notin DOMAIN disk
    BY <1>2 DEF NoFiles
  <2> QED BY <1>1, <2>1 DEF DirectoryInv, ListIsOfOneExport
<1>3. ASSUME NEW contents, disk = WholeExport(contents), exported = {contents}
      PROVE  DirectoryInv
  <2>1. ASSUME NEW i \in 1 .. 14
        PROVE  AllPayloads(contents)[kArtifactPayloadFiles[i]]
                 = Whole(Payload(contents, kArtifactPayloadFiles[i]))
    <3>1. kArtifactPayloadFiles[i] \in ToSet(kArtifactPayloadFiles)
      BY DEF ToSet, kArtifactPayloadFiles
    <3> QED BY <3>1 DEF AllPayloads
  <2>2. disk[kChecksumsFile].value = ListOf(contents)
    BY <1>3, <2>1, WholeListIsOfItsExport DEF WholeExport
  <2> QED BY <1>1, <1>3, <2>2 DEF DirectoryInv, ListIsOfOneExport
<1>4. \/ disk = NoFiles
      \/ \E contents : disk = WholeExport(contents) /\ exported = {contents}
  BY DEF Init, EarlierExport
<1> QED BY <1>2, <1>3, <1>4

\* A verification starts an export, over whichever of the old files are left.
LEMMA BeginExportKeeps ==
  ASSUME DirectoryInv, NEW contents, NEW summary, NEW left, BeginExport(contents, summary, left)
  PROVE  DirectoryInv'
<1>1. WrittenSoFar'
  BY DEF BeginExport, WrittenSoFar
<1>2. /\ kChecksumsFile \in DOMAIN disk' => kChecksumsFile \in DOMAIN disk /\ disk'[kChecksumsFile] = disk[kChecksumsFile]
      /\ exported \subseteq exported'
  BY DEF BeginExport
<1>3. ListIsOfOneExport'
  BY <1>2 DEF DirectoryInv, ListIsOfOneExport
<1> QED BY <1>1, <1>3 DEF DirectoryInv

\* A payload is written, whole or torn: the list that is there does not change.
LEMMA PayloadKeepsList ==
  ASSUME ListIsOfOneExport, NEW place \in 1 .. 14, NEW content,
         disk' = WriteFile(disk, kArtifactPayloadFiles[place], content), UNCHANGED exported
  PROVE  ListIsOfOneExport'
<1>1. kArtifactPayloadFiles[place] # kChecksumsFile
  BY PayloadNames
<1>2. /\ kChecksumsFile \in DOMAIN disk' <=> kChecksumsFile \in DOMAIN disk
      /\ kChecksumsFile \in DOMAIN disk => disk'[kChecksumsFile] = disk[kChecksumsFile]
  BY <1>1, WriteFileKeeps
<1> QED BY <1>2 DEF ListIsOfOneExport

LEMMA ExportPayloadKeeps == DirectoryInv /\ ExportPayload => DirectoryInv'
<1> SUFFICES ASSUME DirectoryInv, ExportPayload PROVE DirectoryInv'
  OBVIOUS
<1> DEFINE place == export.next
           c     == export.contents
<1>1. /\ export # Idle /\ place <= 14 /\ place \in 1 .. 15 /\ c \in exported
      /\ \A i \in 1 .. place - 1 :
           /\ kArtifactPayloadFiles[i] \in DOMAIN disk
           /\ disk[kArtifactPayloadFiles[i]] = Whole(Payload(c, kArtifactPayloadFiles[i]))
  BY PayloadNames DEF ExportPayload, DirectoryInv, WrittenSoFar
<1>2. place \in 1 .. 14
  BY <1>1
<1>3. /\ disk' = WriteFile(disk, kArtifactPayloadFiles[place], Whole(Payload(c, kArtifactPayloadFiles[place])))
      /\ export' = [export EXCEPT !.next = @ + 1]
      /\ exported' = exported
  BY DEF ExportPayload, WritePayload
<1> HIDE DEF place, c
<1>4. ListIsOfOneExport'
  BY <1>2, <1>3, PayloadKeepsList DEF DirectoryInv
<1>5. WrittenSoFar'
  <2>1. CASE export' = Idle
    BY <2>1 DEF WrittenSoFar
  <2>2. CASE export' # Idle
    <3>1. export'.contents = c /\ export'.next = place + 1
      BY <1>3 DEF c, place
    <3>2. ASSUME NEW i \in 1 .. (place + 1) - 1
          PROVE  /\ kArtifactPayloadFiles[i] \in DOMAIN disk'
                 /\ disk'[kArtifactPayloadFiles[i]] = Whole(Payload(c, kArtifactPayloadFiles[i]))
      <4>1. CASE kArtifactPayloadFiles[i] = kArtifactPayloadFiles[place]
        BY <1>3, <4>1, WriteFileKeeps
      <4>2. CASE kArtifactPayloadFiles[i] # kArtifactPayloadFiles[place]
        <5>1. i \in 1 .. place - 1
          <6>1. i # place
            BY <4>2
          <6> QED BY <1>2, <6>1
        <5> QED BY <1>1, <1>3, <4>2, <5>1, WriteFileKeeps
      <4> QED BY <4>1, <4>2
    <3>3. place + 1 \in 1 .. 15
      BY <1>2
    <3> QED BY <1>1, <1>3, <3>1, <3>2, <3>3 DEF WrittenSoFar
  <2> QED BY <2>1, <2>2
<1> QED BY <1>4, <1>5 DEF DirectoryInv

\* The list is written last, of the files of the export and of no others.
LEMMA ExportChecksumsKeeps == DirectoryInv /\ ExportChecksums => DirectoryInv'
<1> SUFFICES ASSUME DirectoryInv, ExportChecksums PROVE DirectoryInv'
  OBVIOUS
<1>1. /\ export.contents \in exported /\ export.next \in 1 .. 15 /\ export.next > 14
      /\ \A i \in 1 .. export.next - 1 :
           disk[kArtifactPayloadFiles[i]] = Whole(Payload(export.contents, kArtifactPayloadFiles[i]))
  BY PayloadNames DEF ExportChecksums, DirectoryInv, WrittenSoFar
<1>2. export.next - 1 = 14
  BY <1>1
<1>3. disk'[kChecksumsFile].value = ListOf(export.contents)
  BY <1>1, <1>2, WholeListIsOfItsExport DEF ExportChecksums
<1>4. WrittenSoFar'
  BY DEF ExportChecksums, WrittenSoFar
<1>5. ListIsOfOneExport'
  BY <1>1, <1>3 DEF ListIsOfOneExport, ExportChecksums
<1> QED BY <1>4, <1>5 DEF DirectoryInv

\* Wherever an export stops, no list is left behind that passes for a whole one.
LEMMA ExportStopsKeeps == DirectoryInv /\ ExportStops => DirectoryInv'
<1> SUFFICES ASSUME DirectoryInv, ExportStops PROVE DirectoryInv'
  OBVIOUS
<1>1. WrittenSoFar' /\ exported' = exported /\ export # Idle
  BY DEF ExportStops, WrittenSoFar
<1>2. CASE disk' = disk
  BY <1>1, <1>2 DEF DirectoryInv, ListIsOfOneExport
<1>3. CASE /\ export.next <= Len(kArtifactPayloadFiles)
           /\ disk' = TearPayload(disk, export.contents, export.next)
  <2>1. export.next \in 1 .. 14
    BY <1>1, <1>3, PayloadNames DEF DirectoryInv, WrittenSoFar
  <2>2. ListIsOfOneExport'
    BY <1>1, <1>3, <2>1, PayloadKeepsList, Zenon DEF TearPayload, DirectoryInv
  <2> QED BY <1>1, <2>2 DEF DirectoryInv
<1>4. CASE \E count \in {0, Len(kChecksumFiles) - 1} : disk' = TearChecksums(disk, count)
  <2>1. Len(kChecksumFiles) - 1 = 11
    BY ChecksumNames
  <2>2. PICK count \in {0, 11} : disk' = TearChecksums(disk, count)
    BY <1>4, <2>1
  <2>3. disk'[kChecksumsFile].value = ChecksumsOf(disk, count)
    BY <2>2, WriteFileKeeps DEF TearChecksums, Whole
  <2>4. ~ ListsRequired(disk'[kChecksumsFile].value)
    BY <2>2, <2>3, CutListIsRefused
  <2> QED BY <1>1, <2>4 DEF DirectoryInv, ListIsOfOneExport
<1> QED BY <1>2, <1>3, <1>4 DEF ExportStops

LEMMA DirectoryStep == DirectoryInv /\ [Next]_workflowVars => DirectoryInv'
<1> SUFFICES ASSUME DirectoryInv, [Next]_workflowVars PROVE DirectoryInv'
  OBVIOUS
<1>1. CASE UNCHANGED << export, disk, exported >>
  BY <1>1 DEF DirectoryInv, ListIsOfOneExport, WrittenSoFar
<1>2. CASE StartFetch \/ FetchPage \/ WriteBuyAll \/ FetchFails \/ GammaChanges
  BY <1>1, <1>2 DEF StartFetch, FetchPage, WriteBuyAll, FetchFails, GammaChanges, verifyVars
<1>3. CASE \/ ApproveDraftsFile \/ SaveApproved \/ ExtractStops
           \/ \E reply \in Responses, approve \in BOOLEAN : ExtractRules(reply, approve)
           \/ \E objects \in HandWritten : WriteRulebook(objects)
  BY <1>1, <1>3, Zenon DEF ApproveDraftsFile, SaveApproved, ExtractStops, ExtractRules, WriteRulebook, verifyVars
<1>4. CASE \/ \E options \in Options : StartVerify(options)
           \/ ReadMarkets \/ ReadRulebook \/ ReadBundles
           \/ \E written \in BOOLEAN : SecondPass(written)
           \/ VerifyStops
  BY <1>1, <1>4, Zenon DEF StartVerify, ReadMarkets, ReadRulebook, ReadBundles, SecondPass, VerifyStops
<1>5. CASE \E left \in Leftovers : ReadRulebookText(left)
  BY <1>5, BeginExportKeeps DEF ReadRulebookText
<1>6. CASE ExportPayload \/ ExportChecksums \/ ExportStops
  BY <1>6, ExportPayloadKeeps, ExportChecksumsKeeps, ExportStopsKeeps
<1>7. CASE LoadArtifact \/ UNCHANGED workflowVars
  BY <1>1, <1>7 DEF LoadArtifact, workflowVars, verifyVars
<1> QED BY <1>2, <1>3, <1>4, <1>5, <1>6, <1>7 DEF Next

-----------------------------------------------------------------------------
\* A directory that passes its checksums holds the twelve listed files of one export, however
\* many exports were started over each other, wherever each of them stopped, and whether or
\* not remove_all cleared the directory before it (ArtifactExporter, ArtifactLoader).
CheckedDirectoryIsOneExport ==
  ArtifactOk(disk) =>
    \E contents \in exported : \A i \in 1 .. 12 :
      disk[kArtifactPayloadFiles[i]] = Whole(Payload(contents, kArtifactPayloadFiles[i]))

LEMMA CheckedIsWhole == DirectoryInv => CheckedDirectoryIsOneExport
<1> SUFFICES ASSUME DirectoryInv, ArtifactOk(disk)
             PROVE  \E contents \in exported : \A i \in 1 .. 12 :
                      disk[kArtifactPayloadFiles[i]] = Whole(Payload(contents, kArtifactPayloadFiles[i]))
  BY DEF CheckedDirectoryIsOneExport
<1>1. PICK contents \in exported : disk[kChecksumsFile].value = ListOf(contents)
  BY DEF DirectoryInv, ListIsOfOneExport, ArtifactOk
<1>2. VerifyChecksums(disk, ListOf(contents))
  BY <1>1 DEF ArtifactOk
<1>3. DOMAIN ListOf(contents) = 1 .. 12
  BY DEF ListOf
<1>4. ASSUME NEW i \in 1 .. 12
      PROVE  disk[kArtifactPayloadFiles[i]] = Whole(Payload(contents, kArtifactPayloadFiles[i]))
  <2>1. /\ ListOf(contents)[i].name = kArtifactPayloadFiles[i]
        /\ ListOf(contents)[i].hash = Whole(Payload(contents, kArtifactPayloadFiles[i]))
    BY DEF ListOf
  <2>2. disk[ListOf(contents)[i].name] = ListOf(contents)[i].hash
    BY <1>2, <1>3 DEF VerifyChecksums
  <2> QED BY <2>1, <2>2
<1> QED BY <1>4

\* The checksum list, written last and of one export, makes a directory whole or refused.
THEOREM CheckedDirectory == Spec => []CheckedDirectoryIsOneExport
BY DirectoryInit, DirectoryStep, CheckedIsWhole, PTL DEF Spec

-----------------------------------------------------------------------------
\* What the engine has loaded.

\* What the signal engine's reader holds was parsed from the files of one export, and its
\* manifest is that export's manifest (OracleArtifactReader::load); a reader never holds the
\* manifest of one export and the bundles of another.
LoadedFromOneExport ==
  reader.ok => \E contents \in exported :
                 /\ reader.manifest = contents.manifest
                 /\ reader.bundles = ParseBundles(SerializeCandidateBundles(contents.bundles)).bundles
                 /\ Len(reader.bundles) = contents.manifest.bundle_count

\* The manifest has the fields of ArtifactManifest.
IsManifest(manifest) ==
  manifest = [field \in DOMAIN DefaultManifest |-> manifest[field]]

ManifestsAreWhole == \A contents \in exported : IsManifest(contents.manifest)

LEMMA ManifestIsWhole ==
  ASSUME NEW prepared, NEW text, NEW bundles
  PROVE  IsManifest(Contents(prepared, text, bundles).manifest)
<1>1. Contents(prepared, text, bundles).manifest = BuildManifest(prepared, text, bundles)
  BY DEF Contents
<1>2. IsManifest(BuildManifest(prepared, text, bundles))
  BY Zenon DEF BuildManifest, IsManifest, DefaultManifest
<1> QED BY <1>1, <1>2

\* parse_manifest reads back what manifest_to_json writes.
LEMMA ManifestRoundTrip ==
  ASSUME NEW manifest, IsManifest(manifest)
  PROVE  ParseManifest(ManifestToJson(manifest)) = manifest
<1>1. DOMAIN manifest = DOMAIN DefaultManifest
  BY DEF IsManifest
<1>2. ManifestToJson(manifest) = manifest
  BY <1>1 DEF IsManifest, ManifestToJson
<1>3. ParseManifest(manifest) = [field \in DOMAIN DefaultManifest |-> manifest[field]]
  BY <1>1 DEF ParseManifest
<1> QED BY <1>2, <1>3 DEF IsManifest

\* What a load takes from a directory that holds one export.
LEMMA LoadTakesOneExport ==
  ASSUME DirectoryInv, ManifestsAreWhole, ReaderLoad(disk).ok
  PROVE  \E contents \in exported :
           /\ ReaderLoad(disk).manifest = contents.manifest
           /\ ReaderLoad(disk).bundles = ParseBundles(SerializeCandidateBundles(contents.bundles)).bundles
           /\ Len(ReaderLoad(disk).bundles) = contents.manifest.bundle_count
<1>1. UnloadedReader.ok = FALSE
  BY DEF UnloadedReader
<1>2. ArtifactOk(disk)
  BY <1>1 DEF ReaderLoad
<1>3. PICK contents \in exported : \A i \in 1 .. 12 :
        disk[kArtifactPayloadFiles[i]] = Whole(Payload(contents, kArtifactPayloadFiles[i]))
  BY <1>2, CheckedIsWhole DEF CheckedDirectoryIsOneExport
<1>4. disk["manifest.json"].value = ManifestToJson(contents.manifest)
  <2>1. kArtifactPayloadFiles[1] = "manifest.json"
    BY DEF kArtifactPayloadFiles
  <2>2. disk["manifest.json"] = Whole(Payload(contents, "manifest.json"))
    BY <1>3, <2>1
  <2>3. Payload(contents, "manifest.json") = ManifestToJson(contents.manifest)
    BY DEF Payload
  <2> QED BY <2>2, <2>3 DEF Whole
<1>5. disk["candidate_bundles.bin"].value = SerializeCandidateBundles(contents.bundles)
  <2>1. kArtifactPayloadFiles[12] = "candidate_bundles.bin"
    BY DEF kArtifactPayloadFiles
  <2>2. disk["candidate_bundles.bin"] = Whole(Payload(contents, "candidate_bundles.bin"))
    BY <1>3, <2>1
  <2>3. Payload(contents, "candidate_bundles.bin") = SerializeCandidateBundles(contents.bundles)
    BY DEF Payload
  <2> QED BY <2>2, <2>3 DEF Whole
<1>6. ParseManifest(disk["manifest.json"].value) = contents.manifest
  BY <1>4, ManifestRoundTrip DEF ManifestsAreWhole
<1> DEFINE parsed == ParseBundles(SerializeCandidateBundles(contents.bundles))
<1>7. ReaderLoad(disk) = ReaderLoadFrom(contents.manifest, parsed)
  BY <1>2, <1>5, <1>6 DEF ReaderLoad
<1> HIDE DEF parsed
<1>8. /\ Len(parsed.bundles) = contents.manifest.bundle_count
      /\ ReaderLoadFrom(contents.manifest, parsed).bundles = parsed.bundles
      /\ ReaderLoadFrom(contents.manifest, parsed).manifest = contents.manifest
  BY <1>1, <1>7 DEF ReaderLoadFrom
<1> QED BY <1>7, <1>8 DEF parsed

\* The reader keeps what it loaded from one export, while later exports replace the directory
\* under it and stop at any point.
THEOREM LoadedExport == Spec => []LoadedFromOneExport
<1> DEFINE Inv == DirectoryInv /\ ManifestsAreWhole /\ LoadedFromOneExport
<1>1. Init => Inv
  <2> SUFFICES ASSUME Init PROVE Inv
    OBVIOUS
  <2>1. ManifestsAreWhole
    <3>1. \/ exported = {}
          \/ \E prepared, text, bundles : exported = {Contents(prepared, text, bundles)}
      BY DEF Init, EarlierExport
    <3> QED BY <3>1, ManifestIsWhole DEF ManifestsAreWhole
  <2>2. LoadedFromOneExport
    BY DEF Init, UnloadedReader, LoadedFromOneExport
  <2> QED BY <2>1, <2>2, DirectoryInit
<1>2. Inv /\ [Next]_workflowVars => Inv'
  <2> SUFFICES ASSUME Inv, [Next]_workflowVars PROVE Inv'
    OBVIOUS
  <2>1. DirectoryInv'
    BY DirectoryStep
  <2>2. ManifestsAreWhole'
    BY NewExports, ManifestIsWhole DEF ManifestsAreWhole
  <2>3. LoadedFromOneExport'
    <3>1. exported \subseteq exported'
      BY NewExports
    <3>2. CASE LoadArtifact
      <4>1. reader' = ReaderLoad(disk)
        BY <3>2 DEF LoadArtifact
      <4> QED BY <3>1, <4>1, LoadTakesOneExport DEF LoadedFromOneExport
    <3>3. CASE UNCHANGED reader
      BY <3>1, <3>3 DEF LoadedFromOneExport
    <3>4. LoadArtifact \/ UNCHANGED reader
      <4>1. CASE StartFetch \/ FetchPage \/ WriteBuyAll \/ FetchFails \/ GammaChanges
        BY <4>1 DEF StartFetch, FetchPage, WriteBuyAll, FetchFails, GammaChanges
      <4>2. CASE \E reply \in Responses, approve \in BOOLEAN : ExtractRules(reply, approve)
        BY <4>2 DEF ExtractRules
      <4>3. CASE ApproveDraftsFile \/ SaveApproved \/ ExtractStops \/ \E objects \in HandWritten : WriteRulebook(objects)
        BY <4>3, Zenon DEF ApproveDraftsFile, SaveApproved, ExtractStops, WriteRulebook
      <4>4. CASE VerifyStops \/ ExportPayload \/ ExportChecksums \/ ExportStops
        BY <4>4 DEF VerifyStops, ExportPayload, ExportChecksums, ExportStops
      <4>5. CASE \/ \E options \in Options : StartVerify(options)
                 \/ ReadMarkets \/ ReadRulebook \/ ReadBundles
                 \/ \E left \in Leftovers : ReadRulebookText(left)
                 \/ \E written \in BOOLEAN : SecondPass(written)
        BY <4>5, Zenon DEF StartVerify, ReadMarkets, ReadRulebook, ReadBundles, ReadRulebookText, SecondPass
      <4>6. CASE UNCHANGED workflowVars
        BY <4>6 DEF workflowVars
      <4> QED BY <4>1, <4>2, <4>3, <4>4, <4>5, <4>6 DEF Next
    <3> QED BY <3>2, <3>3, <3>4
  <2> QED BY <2>1, <2>2, <2>3
<1> QED BY <1>1, <1>2, PTL DEF Spec
=============================================================================
