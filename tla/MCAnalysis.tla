------------------------------ MODULE MCAnalysis ------------------------------
(* TLC instances of Analysis.                                              *)
EXTENDS Analysis

CONSTANTS m1, m2

MCKeys == {<<"g1", "i1">>, <<"g2", "i1">>, <<"g1", "i2">>}

RowsOf(k, v, gate) ==
  [l \in MCKeys |-> IF l \in k THEN [value |-> v, companion |-> gate,
                                      class |-> IF v = 0 THEN None ELSE "c1"]
                   ELSE None]

\* Two runs of one extractor that disagree on value and gate, and one of the
\* next extractor version.
MCContents ==
  { [version |-> "1.1", llm |-> m1, cost |-> 1, rows |-> RowsOf(MCKeys, 1, 0)],
    [version |-> "1.1", llm |-> m2, cost |-> 2,
     rows |-> RowsOf({<<"g1", "i1">>, <<"g2", "i1">>}, 0, 2)],
    [version |-> "1.2", llm |-> m1, cost |-> 1, rows |-> RowsOf(MCKeys, 1, 2)] }

MCPlans == {<<"friedman_nemenyi", "layer2_redundancy">>,
            <<"mean_ci", "coverage_risk">>,
            <<"layer2_per_class", "cost_summary">>,
            <<"capability_scaling", "mean_ci">>}
MCChoices == {<<1>>, <<2, 1>>, <<1, 2>>}
MCParams == [m \in {m1, m2} |-> IF m = m1 THEN 7 ELSE None]
===============================================================================
