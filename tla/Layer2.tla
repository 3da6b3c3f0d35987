--------------------------------- MODULE Layer2 ---------------------------------
(***************************************************************************)
(* Layer 2 (metrics/layer2) and what it measures: the frozen detector's    *)
(* scores (detectors/base.py), the class that an attribution explains      *)
(* (attribution) and the erasure deltas of the attributed and of the cited *)
(* features.                                                               *)
(*                                                                         *)
(* A detector, as one instance meets it, is [classes, head]: its class     *)
(* names in the order of its columns, and what its head reports once a set *)
(* of features is erased, in multiples of 1/Whole.  Of an erasure operator *)
(* only the features it removes are kept.  Deltas are probability deltas.  *)
(***************************************************************************)
EXTENDS Layer1

CONSTANT Whole  \* the scores' denominator

ASSUME Layer2Assumption == Whole \in Nat \ {0}

Benign == "BENIGN"

(***************************************************************************)
(* FrozenDetector.                                                         *)
(***************************************************************************)
Binary(d) == Len(d.classes) = 2

Column(d, class) == CHOOSE i \in DOMAIN d.classes : d.classes[i] = class

\* predict_proba, _matrix, _as_rows: only the detector's own features are read,
\* and a binary head may report one attack probability.
PredictProba(d, erased) ==
  LET out == d.head[erased \cap Vocabulary]
  IN IF Len(out) = 1 THEN <<Whole - out[1], out[1]>> ELSE out

\* What predict_proba does not raise on.
HeadAccepted(d) ==
  \A erased \in DOMAIN d.head : Len(PredictProba(d, erased)) = Len(d.classes)

\* predicted_class: the first of the largest.
PredictedClass(d, erased) ==
  LET row == PredictProba(d, erased)
  IN d.classes[Min({i \in DOMAIN row : \A j \in DOMAIN row : row[j] <= row[i]})]

AttackProbability(d, erased) == Whole - PredictProba(d, erased)[Column(d, Benign)]

\* _prediction_view: what an explanation is told of the prediction.
PredictionView(d) ==
  IF Binary(d)
  THEN [score |-> AttackProbability(d, {}),
        class |-> IF 2 * AttackProbability(d, {}) >= Whole THEN "attack" ELSE "benign"]
  ELSE [score |-> PredictProba(d, {})[Column(d, PredictedClass(d, {}))],
        class |-> PredictedClass(d, {})]

(***************************************************************************)
(* TreeShapAttributor.                                                     *)
(***************************************************************************)
\* A binary head is explained on its positive side, whatever it predicts.
Explained(d) == IF Binary(d) THEN Last(d.classes) ELSE PredictedClass(d, {})

\* select_predicted_class_shap: of one vector for each class, that one's.
Attribute(d, shap) == shap[Column(d, Explained(d))]

\* generation_context: the score that direction words are about.
ScoreLabel(d, explained) ==
  IF Binary(d) THEN "attack" ELSE IF explained # None THEN explained ELSE PredictedClass(d, {})

(***************************************************************************)
(* The erasure metrics.                                                    *)
(***************************************************************************)
\* Bug: a binary detector is measured on the class it predicts.
TargetPredicted(d, explained) ==
  IF explained # None THEN explained ELSE PredictedClass(d, {})

\* _target_class: it is pinned on the instance as it is, nothing erased.
TargetClass(d, explained) ==
  IF Binary(d) THEN Last(d.classes)
  ELSE IF explained # None THEN explained ELSE PredictedClass(d, {})

\* _detector_score, and the drop.
Drop(d, erased, target) ==
  PredictProba(d, {})[Column(d, target)] - PredictProba(d, erased)[Column(d, target)]

\* Comprehensiveness removes S, sufficiency everything else.
Removed(measure, S, all) == IF measure = "comprehensiveness" THEN S ELSE all \ S

\* comprehensiveness, sufficiency: of the attribution's first k features.
EpsAtt(measure, attribution, explained, d, k) ==
  LET ranked == Ranked(attribution)
      S == FeaturesOf(SubSeq(ranked, 1, IF k < Len(ranked) THEN k ELSE Len(ranked)))
  IN Drop(d, Removed(measure, S, FeaturesOf(attribution)), TargetClass(d, explained))

\* ..._cited: of the first k that the claims cite; no attribution is passed.
EpsModel(measure, claims, d, k) ==
  Drop(d, Removed(measure, Cited(claims, Vocabulary, k), Vocabulary), TargetClass(d, None))

\* ..._cited_per_feature: 0 if nothing that is cited can be erased.
EpsModelPerFeature(measure, claims, d, k) ==
  LET S == Cited(claims, Vocabulary, k)
  IN IF S = {} THEN Fraction(0, 1)
     ELSE Fraction(EpsModel(measure, claims, d, k), Cardinality(S))
===============================================================================
