------------------------------- MODULE MCOracle -------------------------------
(* Up to three markets in two lists, one of whose entries has no order book,     *)
(* read in pages of two; four variables are few enough to enumerate.             *)
EXTENDS OracleWorkflow

Entry(id, outcomes, assets) ==
  [condition_id |-> id, id |-> 100 + id, outcomes |-> outcomes, clob_token_ids |-> assets,
   asset_ids |-> << >>, enable_order_book |-> TRUE, split |-> FALSE]

M1 == Entry(1, << "Yes", "No" >>, << 11, 12 >>)
M2 == Entry(2, << "YES", "no" >>, << 21, 22 >>)
M3 == [Entry(0, << "No", "Yes" >>, << >>) EXCEPT !.id = 3, !.asset_ids = << 31, 32 >>]
Closed == [Entry(4, << "Yes", "No" >>, << 41, 42 >>) EXCEPT !.enable_order_book = FALSE]
Split == [Entry(5, << "Yes", "Draw" >>, << 51, 52 >>) EXCEPT !.split = TRUE]

MCGammaLists == {<< M1, Closed, M2, M3 >>, << M2, M1, Split >>}

Rule(id, type, keys) ==
  [rule_id |-> id, type |-> type, coverage |-> "", exhaustive |-> FALSE, variable_ids |-> keys,
   requires_manual_review |-> FALSE, approved |-> TRUE, approved_by |-> "operator",
   source_rule_draft_id |-> 0]

Y1 == << 1, "Yes" >>
Y2 == << 2, "YES" >>
N2 == << 2, "no" >>
Y3 == << 3, "Yes" >>

Reply(objects) == [delivered |-> TRUE, content |-> << objects >>]
MCResponses ==
  {Reply(<< Rule(1, "ExactlyOne", << Y1, Y2, Y3 >>) >>),
   Reply(<< Rule(1, "Unknown", << Y1, Y2 >>), Rule(2, "AtMostOne", << Y1, Y2 >>) >>),
   [delivered |-> TRUE, content |-> << >>], [delivered |-> FALSE, content |-> << >>]}
MCHandWritten ==
  {<< [Rule(1, "MutuallyExclusive", << Y1, Y2 >>) EXCEPT !.exhaustive = TRUE],
      Rule(2, "Implies", << Y1, N2 >>) >>,
   << [Rule(1, "ExactlyOne", << Y1, Y2 >>) EXCEPT !.approved = FALSE] >>,
   << Rule(1, "AtMostOne", << << 5, "Yes" >>, << 5, "Draw" >> >>),
      Rule(2, "AtLeastOne", << Y1, Y2 >>) >>}
MCEarlier ==
  {[records |-> RecordsOf(<< M2, M3 >>), rulebook |-> << Rule(9, "AtMostOne", << Y2, Y3 >>) >>,
    fixture |-> << >>, combinatorial |-> TRUE]}
MCOptions ==
  {[combinatorial |-> TRUE, check_determinism |-> TRUE], [combinatorial |-> FALSE, check_determinism |-> FALSE]}
\* All are removed, or the first file that is written anew and no other.
MCLeftovers == {{}, Files \ {"manifest.json"}}
MCMaxRuns == [fetch |-> 1, extract |-> 2, verify |-> 1, load |-> 1]
=============================================================================
