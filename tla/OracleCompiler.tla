---------------------------- MODULE OracleCompiler ----------------------------
(* oracle/rules, oracle/compiler, oracle/enumerate and oracle/payoff: what a     *)
(* person may approve, and the linear Boolean constraints an approved rulebook   *)
(* stands for; the constraint graph and its components, the states a constraint  *)
(* set allows, what every asset pays in each of them, and the oracles that       *)
(* answer for one component.  A market is [market_id, outcomes, asset_ids]; the  *)
(* key of a variable is the pair of its market and its outcome; a rule names its *)
(* variables by key.  Keys are ordered by market and then alphabetically.  A     *)
(* state is the set of the variables that are true in it.                        *)
EXTENDS Integers, Sequences, FiniteSets, FiniteSetsExt, SequencesExt

CONSTANTS MaxBruteforceVariables,   \* StateEnumerator::kMaxBruteforceVariables, 32 in the code
          PayoutOneTick             \* PAYOUT_ONE_TICK


RuleType ==
  {"MutuallyExclusive", "CollectivelyExhaustive", "AtMostOne", "AtLeastOne", "ExactlyOne",
   "Implies", "Equivalent", "Disjoint", "Custom"}
RuleCoverage == {"ExclusiveOnly", "ExhaustiveAndExclusive"}

DefaultRuleDraft ==
  [rule_id |-> 0, type |-> "Custom", coverage |-> "ExclusiveOnly", variable_ids |-> << >>,
   requires_manual_review |-> TRUE]
DefaultValidatedRule ==
  [rule_id |-> 0, type |-> "Custom", coverage |-> "ExclusiveOnly", variable_ids |-> << >>,
   approved |-> FALSE, approved_by |-> "", source_rule_draft_id |-> 0]

RuleIsExhaustive(coverage) == coverage = "ExhaustiveAndExclusive"

-----------------------------------------------------------------------------
\* Documents.  A JSON rule is a record of the fields it has; 0 and "" are missing fields.

\* rule_type_from_string and rule_coverage_from_string: a name that is in the table.
RuleTypeFromString(name) == name \in RuleType
RuleCoverageFromString(name) == name \in RuleCoverage

\* The coverage of a parsed document: the named one, which "exhaustive" overrides.
ParsedCoverage(object) ==
  IF object.exhaustive THEN "ExhaustiveAndExclusive"
  ELSE IF RuleCoverageFromString(object.coverage) THEN object.coverage ELSE "ExclusiveOnly"

NameErrors(object) ==
  (IF RuleTypeFromString(object.type) THEN {} ELSE {"unknown rule type"})
  \cup (IF object.coverage = "" \/ RuleCoverageFromString(object.coverage) THEN {}
        ELSE {"unknown rule coverage"})
  \cup (IF object.rule_id # 0 THEN {} ELSE {"missing rule_id"})

\* parse_draft: whatever the document says, a draft requires a manual review.
ParseDraft(object) ==
  [DefaultRuleDraft EXCEPT
     !.rule_id = object.rule_id, !.variable_ids = object.variable_ids,
     !.type = IF RuleTypeFromString(object.type) THEN object.type ELSE "Custom",
     !.coverage = ParsedCoverage(object)]

DraftErrors(object) ==
  NameErrors(object) \cup (IF object.variable_ids # << >> THEN {} ELSE {"missing variable_ids"})

\* load_rule_drafts: every entry is kept, the errors are collected.
LoadRuleDrafts(objects) ==
  [drafts |-> [i \in DOMAIN objects |-> ParseDraft(objects[i])],
   errors |-> UNION {DraftErrors(objects[i]) : i \in DOMAIN objects}]

\* Faulty variant: a rule of the rulebook counts as approved.
ParseRuleApproved(object) ==
  [DefaultValidatedRule EXCEPT
     !.rule_id = object.rule_id, !.variable_ids = object.variable_ids,
     !.type = IF RuleTypeFromString(object.type) THEN object.type ELSE "Custom",
     !.coverage = ParsedCoverage(object), !.approved = TRUE]

\* parse_rule and Rulebook::load_json.
ParseRule(object) ==
  [DefaultValidatedRule EXCEPT
     !.rule_id = object.rule_id, !.variable_ids = object.variable_ids,
     !.type = IF RuleTypeFromString(object.type) THEN object.type ELSE "Custom",
     !.coverage = ParsedCoverage(object),
     !.approved = object.approved, !.approved_by = object.approved_by,
     !.source_rule_draft_id = object.source_rule_draft_id]

LoadRulebook(objects) ==
  [rules  |-> [i \in DOMAIN objects |-> ParseRule(objects[i])],
   errors |-> UNION {NameErrors(objects[i]) : i \in DOMAIN objects}]

\* to_json_object and save_json: the documents that a rulebook is written as.
RuleToJson(rule) ==
  [rule_id |-> rule.rule_id, type |-> rule.type, coverage |-> rule.coverage,
   exhaustive |-> RuleIsExhaustive(rule.coverage), variable_ids |-> rule.variable_ids,
   approved |-> rule.approved, approved_by |-> rule.approved_by,
   source_rule_draft_id |-> rule.source_rule_draft_id]
DraftToJson(draft) ==
  [rule_id |-> draft.rule_id, type |-> draft.type, coverage |-> draft.coverage,
   exhaustive |-> RuleIsExhaustive(draft.coverage), variable_ids |-> draft.variable_ids,
   requires_manual_review |-> TRUE]
SaveRulebook(rules) == [i \in DOMAIN rules |-> RuleToJson(rules[i])]
WriteRuleDrafts(drafts) == [i \in DOMAIN drafts |-> DraftToJson(drafts[i])]

-----------------------------------------------------------------------------
\* The manual step.

ApproveDraft(draft, approved_by) ==
  [DefaultValidatedRule EXCEPT
     !.rule_id = draft.rule_id, !.type = draft.type, !.coverage = draft.coverage,
     !.variable_ids = draft.variable_ids, !.approved = TRUE, !.approved_by = approved_by,
     !.source_rule_draft_id = draft.rule_id]

\* approve_drafts: every draft becomes an approved rule of the rulebook.
ApproveDrafts(drafts, approved_by) ==
  [i \in DOMAIN drafts |-> ApproveDraft(drafts[i], approved_by)]

ApprovedRules(rules) == SelectSeq(rules, LAMBDA rule : rule.approved)
\* write_approved_rulebook: only the approved rules reach the file.
WriteApprovedRulebook(rules) == SaveRulebook(ApprovedRules(rules))

\* validate_rulebook and compiler_ready.
CompilerReady(rules, known) ==
  \A i \in DOMAIN rules :
    /\ rules[i].rule_id # 0
    /\ \A j \in 1 .. i - 1 : rules[j].rule_id # rules[i].rule_id
    /\ rules[i].variable_ids # << >>
    /\ \A k \in DOMAIN rules[i].variable_ids : known = {} \/ rules[i].variable_ids[k] \in known
    /\ rules[i].approved

-----------------------------------------------------------------------------
\* Variables and constraints.  A constraint is [var_ids, coeffs, op, rhs].

\* The outcome names in alphabetical order, and lower_copy on them.
OutcomeNames == << "Draw", "No", "YES", "Yes", "no" >>
Lower(outcome) ==
  CASE outcome \in {"Yes", "YES"} -> "yes"
    [] outcome \in {"No", "no"} -> "no"
    [] OTHER -> outcome

KeyLess(a, b) ==
  \/ a[1] < b[1]
  \/ a[1] = b[1] /\ SelectInSeq(OutcomeNames, LAMBDA o : o = a[2]) < SelectInSeq(OutcomeNames, LAMBDA o : o = b[2])

\* variables_from_universe: one variable per outcome that has an asset.
MarketVariables(market) ==
  [i \in 1 .. (IF Len(market.outcomes) <= Len(market.asset_ids)
               THEN Len(market.outcomes) ELSE Len(market.asset_ids)) |->
     [key |-> << market.market_id, market.outcomes[i] >>, asset_id |-> market.asset_ids[i]]]
VariablesFromUniverse(markets) ==
  FlattenSeq([i \in DOMAIN markets |-> MarketVariables(markets[i])])

\* normalize_variables: sorted by key, numbered from 0; a key twice is an error.
NormalizeVariables(variables) ==
  SortSeq(variables, LAMBDA a, b : KeyLess(a.key, b.key))
DuplicateVariable(variables) ==
  \E i, j \in DOMAIN variables : i < j /\ variables[i].key = variables[j].key

\* index_variables; the number of a variable is its place, counted from 0.
VarId(variables, key) == SelectInSeq(variables, LAMBDA v : v.key = key) - 1

ConstraintOp == {"Equal", "LessEqual", "GreaterEqual"}

\* sum_constraint over known keys.  A key given twice stands twice in the sum.
SumConstraint(variables, keys, op, rhs) ==
  [var_ids |-> [i \in DOMAIN keys |-> VarId(variables, keys[i])],
   coeffs  |-> [i \in DOMAIN keys |-> 1], op |-> op, rhs |-> rhs]
ExactlyOne(variables, keys) == SumConstraint(variables, keys, "Equal", 1)
AtMostOne(variables, keys) == SumConstraint(variables, keys, "LessEqual", 1)
AtLeastOne(variables, keys) == SumConstraint(variables, keys, "GreaterEqual", 1)
Implies(variables, keys) ==
  [var_ids |-> [i \in DOMAIN keys |-> VarId(variables, keys[i])],
   coeffs  |-> << 1, -1 >>, op |-> "LessEqual", rhs |-> 0]

\* The switch of ConstraintCompiler::compile.
RuleConstraint(variables, rule) ==
  CASE rule.type = "MutuallyExclusive" ->
         IF RuleIsExhaustive(rule.coverage) THEN ExactlyOne(variables, rule.variable_ids)
         ELSE AtMostOne(variables, rule.variable_ids)
    [] rule.type = "ExactlyOne" -> ExactlyOne(variables, rule.variable_ids)
    [] rule.type = "AtMostOne"  -> AtMostOne(variables, rule.variable_ids)
    [] rule.type = "AtLeastOne" -> AtLeastOne(variables, rule.variable_ids)
    [] rule.type = "Implies"    -> Implies(variables, rule.variable_ids)

\* What keeps a rule from being compiled.
RuleCompiles(variables, rule) ==
  /\ rule.approved
  /\ rule.type \in {"MutuallyExclusive", "ExactlyOne", "AtMostOne", "AtLeastOne", "Implies"}
  /\ rule.variable_ids # << >>
  /\ rule.type = "Implies" => Len(rule.variable_ids) = 2
  /\ \A i \in DOMAIN rule.variable_ids : VarId(variables, rule.variable_ids[i]) >= 0

\* ConstraintCompiler::compile.
Compile(rules, universe_variables) ==
  LET variables == NormalizeVariables(universe_variables)
  IN  [ok          |-> /\ ~ DuplicateVariable(variables)
                       /\ \A i \in DOMAIN rules : RuleCompiles(variables, rules[i]),
       variables   |-> variables,
       constraints |->
         LET compiled == SelectSeq(rules, LAMBDA rule : RuleCompiles(variables, rule))
         IN  [i \in DOMAIN compiled |-> RuleConstraint(variables, compiled[i])]]

\* is_yes_no_pair: exactly two outcomes, one of each.
IsYesNoPair(outcomes) ==
  Len(outcomes) = 2 /\ {Lower(outcomes[1]), Lower(outcomes[2])} = {"yes", "no"}

\* MarketIntrinsicConstraintBuilder::build: in market order, the two outcomes of a binary
\* market sum to one.
IntrinsicConstraints(markets, variables) ==
  LET ordered == SortSeq(markets, LAMBDA a, b : a.market_id < b.market_id)
      binary  == SelectSeq(ordered, LAMBDA m :
                   /\ Len(m.outcomes) = Len(m.asset_ids)
                   /\ IsYesNoPair(m.outcomes)
                   /\ \A i \in 1 .. 2 : VarId(variables, << m.market_id, m.outcomes[i] >>) >= 0)
      OutcomeId(m, name) ==
        VarId(variables, << m.market_id, m.outcomes[SelectInSeq(m.outcomes, LAMBDA o : Lower(o) = name)] >>)
  IN  [i \in DOMAIN binary |->
         [var_ids |-> << OutcomeId(binary[i], "yes"), OutcomeId(binary[i], "no") >>,
          coeffs |-> << 1, 1 >>, op |-> "Equal", rhs |-> 1]]


-----------------------------------------------------------------------------
\* ConstraintGraph: a node per variable, an edge per constraint.

SortedIds(ids) == SortSeq(ids, LAMBDA a, b : a < b)
GraphEdge(constraints, id) ==
  [constraint_id |-> id, var_ids |-> SortedIds(constraints[id + 1].var_ids)]
ConstraintGraphBuild(compiled) ==
  [nodes |-> Len(compiled.variables),
   edges |-> [i \in DOMAIN compiled.constraints |-> GraphEdge(compiled.constraints, i - 1)]]

-----------------------------------------------------------------------------
\* DisjointSet with union by rank.  The path compression of find moves no root.

DisjointSet(size) ==
  [parent |-> [v \in 0 .. size - 1 |-> v], rank |-> [v \in 0 .. size - 1 |-> 0]]

Find(set, value) ==
  LET Root[v \in DOMAIN set.parent] == IF set.parent[v] = v THEN v ELSE Root[set.parent[v]]
  IN  Root[value]

Link(set, left, right) ==
  [parent |-> [set.parent EXCEPT ![right] = left],
   rank   |-> IF set.rank[left] = set.rank[right]
              THEN [set.rank EXCEPT ![left] = @ + 1] ELSE set.rank]

\* Faulty variant: the two members are linked instead of the roots of their sets.
UniteMembers(set, lhs, rhs) ==
  IF Find(set, lhs) = Find(set, rhs) THEN set
  ELSE [set EXCEPT !.parent[rhs] = lhs]

Unite(set, lhs, rhs) ==
  LET left  == Find(set, lhs)
      right == Find(set, rhs)
  IN  CASE left = right                       -> set
        [] set.rank[left] < set.rank[right]   -> Link(set, right, left)
        [] OTHER                              -> Link(set, left, right)

-----------------------------------------------------------------------------
\* ComponentPartitioner.

ComponentKind ==
  {"SmallEnumerable", "ExactlyOne", "AtMostOne", "ImplicationDag", "WeightedThreshold",
   "GenericLinearBoolean"}

AllCoeffsOne(constraint) == \A i \in DOMAIN constraint.coeffs : constraint.coeffs[i] = 1

IsExactlyOneConstraint(constraint, variable_ids) ==
  /\ constraint.op = "Equal" /\ constraint.rhs = 1
  /\ Len(constraint.var_ids) = Len(variable_ids)
  /\ AllCoeffsOne(constraint)
IsAtMostOneConstraint(constraint, variable_ids) ==
  /\ constraint.op = "LessEqual" /\ constraint.rhs = 1
  /\ Len(constraint.var_ids) = Len(variable_ids)
  /\ AllCoeffsOne(constraint)
IsLargeExactlyOneHyperedge(constraint) ==
  /\ constraint.op = "Equal" /\ constraint.rhs = 1
  /\ Len(constraint.var_ids) > 2
  /\ AllCoeffsOne(constraint)
IsLargeAtMostOneHyperedge(constraint) ==
  /\ constraint.op = "LessEqual" /\ constraint.rhs = 1
  /\ Len(constraint.var_ids) > 2
  /\ AllCoeffsOne(constraint)
IsBinaryComplementConstraint(constraint) ==
  /\ constraint.op = "Equal" /\ constraint.rhs = 1
  /\ Len(constraint.var_ids) = 2
  /\ AllCoeffsOne(constraint)

\* classify_component, over the constraints of the component.
ClassifyComponent(variable_ids, members) ==
  LET supported == /\ members # << >>
                   /\ \A i \in DOMAIN members :
                        \/ IsLargeExactlyOneHyperedge(members[i])
                        \/ IsLargeAtMostOneHyperedge(members[i])
                        \/ IsBinaryComplementConstraint(members[i])
  IN  CASE Len(members) = 1 /\ IsExactlyOneConstraint(members[1], variable_ids) -> "ExactlyOne"
        [] Len(members) = 1 /\ IsAtMostOneConstraint(members[1], variable_ids)  -> "AtMostOne"
        [] OTHER ->
             CASE supported /\ \E i \in DOMAIN members : IsLargeExactlyOneHyperedge(members[i]) ->
                    "ExactlyOne"
               [] supported /\ (\E i \in DOMAIN members : IsLargeAtMostOneHyperedge(members[i]))
                            /\ ~ (\E i \in DOMAIN members : IsLargeExactlyOneHyperedge(members[i])) ->
                    "AtMostOne"
               [] OTHER -> IF Len(variable_ids) <= MaxBruteforceVariables
                           THEN "SmallEnumerable" ELSE "GenericLinearBoolean"

\* The first loop of partition: the variables of an edge are one set.
UniteEdges(graph) ==
  FoldLeft(LAMBDA set, edge :
             FoldLeft(LAMBDA s, var_id : Unite(s, edge.var_ids[1], var_id), set, edge.var_ids),
           DisjointSet(graph.nodes),
           SelectSeq(graph.edges, LAMBDA edge : edge.var_ids # << >>))

\* CompiledComponent without its hash, which is a function of these fields.
Component(id, variable_ids, constraint_ids, constraints) ==
  [component_id   |-> id,
   variable_ids   |-> variable_ids,
   constraint_ids |-> constraint_ids,
   kind |-> ClassifyComponent(variable_ids,
              [i \in DOMAIN constraint_ids |-> constraints[constraint_ids[i] + 1]])]

\* The components in the order of their first variables, which is the order of the final
\* sort: each holds its variables and its edges in ascending order.
ComponentsOf(root, edges, constraints) ==
  LET nodes  == SortedIds(SetToSeq(DOMAIN root))
      firsts == SelectSeq(nodes, LAMBDA v : \A u \in DOMAIN root : u < v => root[u] # root[v])
  IN  [i \in DOMAIN firsts |->
         LET own == SelectSeq(edges, LAMBDA e : e.var_ids # << >> /\ root[e.var_ids[1]] = root[firsts[i]])
         IN  Component(i - 1,
                       SelectSeq(nodes, LAMBDA v : root[v] = root[firsts[i]]),
                       [j \in DOMAIN own |-> own[j].constraint_id],
                       constraints)]
RootsOf(set) == [v \in DOMAIN set.parent |-> Find(set, v)]
PartitionComponents(graph, compiled) ==
  ComponentsOf(RootsOf(UniteEdges(graph)), graph.edges, compiled.constraints)

-----------------------------------------------------------------------------
\* FeasibilityChecker and StateEnumerator.

\* evaluate
Evaluate(lhs, op, rhs) ==
  CASE op = "Equal"        -> lhs = rhs
    [] op = "LessEqual"    -> lhs <= rhs
    [] op = "GreaterEqual" -> lhs >= rhs

Holds(constraint, state) ==
  Evaluate(MapThenSumSet(LAMBDA i : IF constraint.var_ids[i] \in state THEN constraint.coeffs[i] ELSE 0,
                         DOMAIN constraint.var_ids),
           constraint.op, constraint.rhs)
Feasible(constraints, state) == \A i \in DOMAIN constraints : Holds(constraints[i], state)

\* enumerate; more variables than the bound are an error, here the empty result.
Enumerate(variable_ids, constraints) ==
  IF Cardinality(variable_ids) > MaxBruteforceVariables THEN {}
  ELSE {state \in SUBSET variable_ids : Feasible(constraints, state)}

-----------------------------------------------------------------------------
\* PayoffMatrixBuilder.

\* build_columns: a column per variable, in the order of the assets; an asset that is
\* missing or stands twice is an error.
BuildColumns(variables) ==
  [ok |-> \A i \in DOMAIN variables :
            /\ variables[i].asset_id # 0
            /\ \A j \in 1 .. i - 1 : variables[j].asset_id # variables[i].asset_id,
   columns |-> SortSeq([i \in DOMAIN variables |->
                          [var_id |-> i - 1, asset_id |-> variables[i].asset_id]],
                       LAMBDA a, b : a.asset_id < b.asset_id)]

\* bit_is_set and the payout of an entry.
PayoffTick(columns, asset_index, state) ==
  IF columns[asset_index].var_id \in state THEN PayoutOneTick ELSE 0

\* build: a row per feasible state, a column per asset.
PayoffMatrixFrom(columns, feasible) ==
  [row_count |-> Cardinality(feasible), column_count |-> Len(columns),
   asset_ids |-> [i \in DOMAIN columns |-> columns[i].asset_id],
   entries   |-> [state \in feasible |-> [i \in DOMAIN columns |-> PayoffTick(columns, i, state)]]]
PayoffMatrix(variables, feasible) == PayoffMatrixFrom(BuildColumns(variables).columns, feasible)

-----------------------------------------------------------------------------
\* The component oracles.  An objective is a sequence of legs
\* [variable_id, payout_if_true_tick, payout_if_false_tick, cost_tick].

LegProfit(leg, value) ==
  (IF value THEN leg.payout_if_true_tick ELSE leg.payout_if_false_tick) - leg.cost_tick
Profit(objective, state) ==
  MapThenSumSet(LAMBDA i : LegProfit(objective[i], objective[i].variable_id \in state), DOMAIN objective)

\* The lowest profit over the states an oracle tries; 0 when it tries none.
WorstCase(objective, states) ==
  IF states = {} THEN 0 ELSE Min({Profit(objective, state) : state \in states})

\* ExactlyOneOracle: one variable of the component is true.
ExactlyOneMinPayoff(component, objective) ==
  WorstCase(objective, {{component.variable_ids[i]} : i \in DOMAIN component.variable_ids})
ExactlyOneIsFeasible(component, state) ==
  Cardinality({i \in DOMAIN component.variable_ids : component.variable_ids[i] \in state}) = 1

\* AtMostOneOracle: none is true, or one is.
AtMostOneMinPayoff(component, objective) ==
  WorstCase(objective,
            {{}} \cup {{component.variable_ids[i]} : i \in DOMAIN component.variable_ids})
AtMostOneIsFeasible(component, state) ==
  Cardinality({i \in DOMAIN component.variable_ids : component.variable_ids[i] \in state}) <= 1

\* subset_compiled_set: the component as a problem of its own, its variables renumbered from 0
\* in their order.
LocalId(component, var_id) == SelectInSeq(component.variable_ids, LAMBDA v : v = var_id) - 1
Renumbered(component, constraint) ==
  [constraint EXCEPT !.var_ids =
     [k \in DOMAIN constraint.var_ids |-> LocalId(component, constraint.var_ids[k])]]
SubsetConstraints(component, constraints) ==
  [i \in DOMAIN component.constraint_ids |->
     Renumbered(component, constraints[component.constraint_ids[i] + 1])]

\* SmallEnumOracle: every renumbered state that the constraints of the component allow.  A leg
\* finds its variable by name, and one of another component counts nothing.
SmallEnumMinPayoff(component, constraints, objective) ==
  LET own == SelectSeq(objective, LAMBDA leg : leg.variable_id \in ToSet(component.variable_ids))
  IN  WorstCase([i \in DOMAIN own |-> [own[i] EXCEPT !.variable_id = LocalId(component, @)]],
                Enumerate(0 .. Len(component.variable_ids) - 1, SubsetConstraints(component, constraints)))
\* The state that is asked about is one of the renumbered variables.
SmallEnumIsFeasible(component, constraints, state) ==
  Feasible(SubsetConstraints(component, constraints), state)

-----------------------------------------------------------------------------
\* oracle/bundles: the baskets of positions the engine may buy, generated from
\* approved rules or markets or read from a fixture, and the validation all of
\* them pass.  A settlement mask is the set of its bits.

CONSTANT MaxBundleLegs   \* kMaxBundleLegs, 16 in the code

Side == {"Buy", "Sell"}
DefaultCandidateBundle ==
  [bundle_id |-> 0, required_true_mask |-> {}, required_false_mask |-> {}, invalid_mask |-> {},
   guaranteed_payout_tick |-> 0, min_edge_tick |-> 0, legs |-> << >>]

-----------------------------------------------------------------------------
\* BundleValidator.

MasksConflict(bundle) ==
  \/ bundle.required_true_mask \cap bundle.required_false_mask # {}
  \/ bundle.required_true_mask \cap bundle.invalid_mask # {}
  \/ bundle.required_false_mask \cap bundle.invalid_mask # {}

ValidLeg(leg, known_market_ids, known_asset_ids) ==
  /\ leg.market_id # 0 /\ leg.market_id \in known_market_ids
  /\ leg.asset_id # 0 /\ leg.asset_id \in known_asset_ids
  /\ leg.quantity_lots > 0
  /\ leg.max_price_tick >= 0

\* validate: no error.
ValidBundles(bundles, known_market_ids, known_asset_ids) ==
  \A i \in DOMAIN bundles :
    /\ \A j \in 1 .. i - 1 : bundles[j].bundle_id # bundles[i].bundle_id
    /\ Len(bundles[i].legs) \in 1 .. MaxBundleLegs
    /\ ~ MasksConflict(bundles[i])
    /\ \A k \in DOMAIN bundles[i].legs :
         ValidLeg(bundles[i].legs[k], known_market_ids, known_asset_ids)

KnownMarketIds(markets) == {markets[i].market_id : i \in DOMAIN markets}
KnownAssetIds(markets) == UNION {ToSet(markets[i].asset_ids) : i \in DOMAIN markets}

-----------------------------------------------------------------------------
\* CombinatorialBundleGenerator.  A binding is [market_id, outcome_id, asset_id].

MarketBindings(market) ==
  [i \in DOMAIN MarketVariables(market) |->
     [market_id |-> market.market_id, outcome_id |-> market.outcomes[i],
      asset_id  |-> market.asset_ids[i]]]
\* build_index: every binding in market order.  The first of a key, or of a lower-cased
\* outcome in a market, is the one that is found.
BuildIndex(markets) == FlattenSeq([i \in DOMAIN markets |-> MarketBindings(markets[i])])
ByVariable(index, key) ==
  SelectSeq(index, LAMBDA b : << b.market_id, b.outcome_id >> = key)
ByMarketOutcome(index, market_id, outcome) ==
  SelectSeq(index, LAMBDA b : b.market_id = market_id /\ Lower(b.outcome_id) = outcome)

ResolveVariables(rule, index) ==
  [i \in DOMAIN rule.variable_ids |-> ByVariable(index, rule.variable_ids[i])[1]]
Unresolved(rule, index) ==
  \E i \in DOMAIN rule.variable_ids : ByVariable(index, rule.variable_ids[i]) = << >>

DistinctMarketCount(bindings) == Cardinality({bindings[i].market_id : i \in DOMAIN bindings})
HasTooManyLegs(bindings) == Len(bindings) > MaxBundleLegs
IsTrivialSingleMarketRule(bindings) == DistinctMarketCount(bindings) <= 1

IsYesNoOutcome(outcome) == Lower(outcome) \in {"yes", "no"}
OppositeOutcome(outcome) == IF Lower(outcome) = "yes" THEN "no" ELSE "yes"

\* make_bundle: one lot of every position, at any price up to its payout.
MakeBundle(bundle_id, bindings, guaranteed_payout_tick) ==
  [DefaultCandidateBundle EXCEPT
     !.bundle_id = bundle_id, !.guaranteed_payout_tick = guaranteed_payout_tick,
     !.legs = [i \in DOMAIN bindings |->
                 [market_id |-> bindings[i].market_id, asset_id |-> bindings[i].asset_id,
                  side |-> "Buy", quantity_lots |-> 1, max_price_tick |-> PayoutOneTick]]]

\* complement_bindings: the other outcome of every market, or nothing if one has none.
ComplementBindings(bindings, index) ==
  IF \A i \in DOMAIN bindings :
       /\ IsYesNoOutcome(bindings[i].outcome_id)
       /\ ByMarketOutcome(index, bindings[i].market_id, OppositeOutcome(bindings[i].outcome_id)) # << >>
  THEN [i \in DOMAIN bindings |->
          ByMarketOutcome(index, bindings[i].market_id, OppositeOutcome(bindings[i].outcome_id))[1]]
  ELSE << >>

\* Faulty variant: the basket of all complements is taken to pay every leg.
ComplementBasketPaysAll(bundles, complements) ==
  IF complements = << >> THEN bundles
  ELSE Append(bundles, MakeBundle(Len(bundles) + 1, complements, Len(complements) * PayoutOneTick))

\* At most one of the rule's outcomes is lost with its complement.
ComplementBasket(bundles, complements) ==
  IF complements = << >> THEN bundles
  ELSE Append(bundles,
              MakeBundle(Len(bundles) + 1, complements, (Len(complements) - 1) * PayoutOneTick))

AppendExactlyOneBundles(bundles, bindings, index) ==
  IF HasTooManyLegs(bindings) \/ IsTrivialSingleMarketRule(bindings) THEN bundles
  ELSE ComplementBasket(Append(bundles, MakeBundle(Len(bundles) + 1, bindings, PayoutOneTick)),
                        ComplementBindings(bindings, index))

AppendAtMostOneBundles(bundles, bindings, index) ==
  IF HasTooManyLegs(bindings) \/ IsTrivialSingleMarketRule(bindings) THEN bundles
  ELSE ComplementBasket(bundles, ComplementBindings(bindings, index))

\* The body of the loop over rules; bundle ids are places in the list.
RuleBundles(bundles, rule, index) ==
  IF ~ rule.approved \/ Unresolved(rule, index) \/ Len(rule.variable_ids) < 2 THEN bundles
  ELSE CASE rule.type = "ExactlyOne" ->
              AppendExactlyOneBundles(bundles, ResolveVariables(rule, index), index)
         [] rule.type = "AtMostOne" ->
              AppendAtMostOneBundles(bundles, ResolveVariables(rule, index), index)
         [] OTHER -> bundles

\* generate_from_rulebook: an unapproved rule or an unknown variable is an error, and so is
\* a bundle the validator refuses.
GenerateFromRulebook(markets, rules) ==
  LET index   == BuildIndex(markets)
      bundles == FoldLeft(LAMBDA acc, rule : RuleBundles(acc, rule, index), << >>, rules)
  IN  [ok |-> /\ \A i \in DOMAIN rules : rules[i].approved /\ ~ Unresolved(rules[i], index)
              /\ ValidBundles(bundles, KnownMarketIds(markets), KnownAssetIds(markets)),
       bundles |-> bundles]

-----------------------------------------------------------------------------
\* CandidateBundleGenerator.

\* generate_buy_all_outcomes: one basket per market of which some outcome must win.
\* has_ambiguous_split_resolution reads the texts of the market; here it is a mark.
BuyAllOutcomes(market) ==
  [i \in DOMAIN market.outcomes |->
     [market_id |-> market.market_id, outcome_id |-> market.outcomes[i],
      asset_id |-> market.asset_ids[i]]]
HasAmbiguousSplitResolution(market) == market.split
BuyAllApplies(market) ==
  /\ market.market_id # 0
  /\ Len(market.outcomes) >= 2 /\ Len(market.outcomes) = Len(market.asset_ids)
  /\ Len(market.asset_ids) <= MaxBundleLegs
  /\ ~ HasAmbiguousSplitResolution(market)
GenerateBuyAllOutcomes(markets) ==
  LET applying == SelectSeq(markets, BuyAllApplies)
      bundles  == [i \in DOMAIN applying |-> MakeBundle(i, BuyAllOutcomes(applying[i]), PayoutOneTick)]
  IN  [ok |-> ValidBundles(bundles, KnownMarketIds(markets), KnownAssetIds(markets)),
       bundles |-> bundles]

\* parse_leg and parse_bundle: a fixture's side must be known and its legs fit the bound.
ParseLeg(object) ==
  [market_id |-> object.market_id, asset_id |-> object.asset_id,
   side |-> IF object.side \in Side THEN object.side ELSE "Buy",
   quantity_lots |-> object.quantity_lots, max_price_tick |-> object.max_price_tick]
ParseBundle(object) ==
  [object EXCEPT !.legs = [i \in 1 .. Min({Len(object.legs), MaxBundleLegs}) |-> ParseLeg(object.legs[i])]]
ParsesClean(object) ==
  /\ Len(object.legs) <= MaxBundleLegs
  /\ \A i \in DOMAIN object.legs : object.legs[i].side \in Side

\* load_fixture.
LoadFixture(objects, markets) ==
  LET bundles == [i \in DOMAIN objects |-> ParseBundle(objects[i])]
  IN  [ok |-> /\ \A i \in DOMAIN objects : ParsesClean(objects[i])
              /\ ValidBundles(bundles, KnownMarketIds(markets), KnownAssetIds(markets)),
       bundles |-> bundles]

\* leg_to_json, bundle_to_json and export_fixture_artifact keep every field.
ExportFixtureArtifact(bundles) == bundles

-----------------------------------------------------------------------------
\* What a bundle pays in a settled state of the variables.

LegPays(leg, variables, state) ==
  IF \E i \in DOMAIN variables : variables[i].asset_id = leg.asset_id /\ i - 1 \in state
  THEN leg.quantity_lots * PayoutOneTick ELSE 0
BundlePays(bundle, variables, state) ==
  MapThenSumSet(LAMBDA i : LegPays(bundle.legs[i], variables, state), DOMAIN bundle.legs)
=============================================================================
