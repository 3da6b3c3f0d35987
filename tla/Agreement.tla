------------------------------- MODULE Agreement -------------------------------
(***************************************************************************)
(* What two annotation passes say of one batch, and how an extractor's     *)
(* claims score against them: the cells and statistics of                  *)
(* tools/compare_annotations.py and the verdict rule of                    *)
(* tools/score_audit_gate.py, as pure operators.                           *)
(*                                                                         *)
(* A cell is <<item, feature>>.  A pass is a function from the cells it    *)
(* mentions to a label; a cell it does not mention counts as "absent".     *)
(* Ratios are kept as pairs <<numerator, denominator>>.                    *)
(***************************************************************************)
EXTENDS Integers, FiniteSets

CONSTANT F1Percent   \* the registered extractor_f1 threshold, in percent

ASSUME AgreementAssumption == F1Percent \in 1..100

Directional == {"+", "-"}
Labels == Directional \cup {"unclear", "absent"}

ValueOf(pass, cell) == IF cell \in DOMAIN pass THEN pass[cell] ELSE "absent"

\* Bug: a cell one annotator adds and the other never saw is not compared.
ListedCells(items, candidates, passes) ==
  UNION {{<<i, f>> : f \in candidates[i]} : i \in items}

\* units: every candidate, and whatever a pass mentions of these items.
Cells(items, candidates, passes) ==
  (UNION {{<<i, f>> : f \in candidates[i]} : i \in items})
    \cup {c \in UNION {DOMAIN p : p \in passes} : c[1] \in items}

Disputed(cells, A, B) == {c \in cells : ValueOf(A, c) # ValueOf(B, c)}

Count(cells, pass, label) == Cardinality({c \in cells : ValueOf(pass, c) = label})

\* Over the four labels.
SumOfLabels(f(_)) == f("+") + f("-") + f("unclear") + f("absent")

\* cohens_kappa, times the square of the number of cells on both sides; passes
\* whose labels agree by chance alone count as agreeing, and no cells as 0.
Kappa(cells, A, B) ==
  LET n == Cardinality(cells)
      agree == n - Cardinality(Disputed(cells, A, B))
      chance == SumOfLabels(LAMBDA l : Count(cells, A, l) * Count(cells, B, l))
  IN IF n = 0 THEN <<0, 1>>
     ELSE IF chance < n * n THEN <<n * agree - chance, n * n - chance>> ELSE <<1, 1>>

\* krippendorff_nominal for two passes: every cell is a pair of values, once
\* each way.  Undefined where one label is all there is.
Alpha(cells, A, B) ==
  LET n == 2 * Cardinality(cells)
      total(l) == Count(cells, A, l) + Count(cells, B, l)
      observed == 2 * Cardinality(Disputed(cells, A, B))
      expected == SumOfLabels(LAMBDA l : total(l) * (n - total(l)))
  IN IF n <= 1 \/ expected = 0 THEN "undefined"
     ELSE <<expected - observed * (n - 1), expected>>

(***************************************************************************)
(* The verdict.                                                            *)
(***************************************************************************)
\* prf's F1 against the threshold; no hit is an F1 of zero.
Reaches(predicted, gold) ==
  LET hits == Cardinality(predicted \cap gold)
  IN hits > 0
     /\ 200 * hits >= F1Percent * (Cardinality(predicted) + Cardinality(gold))

\* Bug: a disputed cell goes to the fallback although it was adjudicated.
GoldIgnoringAdjudication(cells, A, B, adjudicated, fallback) ==
  LET label(c) == IF ValueOf(A, c) = ValueOf(B, c) THEN ValueOf(A, c)
                  ELSE IF c \in DOMAIN fallback THEN fallback[c]
                  ELSE ValueOf(adjudicated, c)
  IN {g \in cells \X Directional : g[2] = label(g[1])}

\* gold_for: what both say, else the adjudication, else the fallback's label.
Gold(cells, A, B, adjudicated, fallback) ==
  LET label(c) == IF ValueOf(A, c) = ValueOf(B, c) THEN ValueOf(A, c)
                  ELSE IF c \in DOMAIN adjudicated THEN adjudicated[c]
                  ELSE ValueOf(fallback, c)
  IN {g \in cells \X Directional : g[2] = label(g[1])}

NoFallback == [c \in {} |-> "absent"]

\* Bug: the extremes are both the first annotator's.
OneExtreme(cells, A, B, adjudicated, predicted) ==
  LET extreme(p) == Reaches(predicted, Gold(cells, A, B, adjudicated, p))
  IN extreme(A) = Reaches(predicted, Gold(cells, A, B, adjudicated, NoFallback))

\* Both extremes, every open dispute to one annotator, fall on the same side.
Decided(cells, A, B, adjudicated, predicted) ==
  LET extreme(p) == Reaches(predicted, Gold(cells, A, B, adjudicated, p))
  IN extreme(A) = extreme(B)

\* The verdict: the agreed and adjudicated gold, if the disputes are decided.
Verdict(cells, A, B, adjudicated, predicted) ==
  /\ Reaches(predicted, Gold(cells, A, B, adjudicated, NoFallback))
  /\ Decided(cells, A, B, adjudicated, predicted)
=============================================================================
