--------------------------------- MODULE Battery ---------------------------------
(***************************************************************************)
(* The RQ0 calibration gate (orchestration/rq0_gate.py): B1's claims and   *)
(* their corruptions (corruption/operators.py) are scored instance by      *)
(* instance, then every metric gets the operating point of largest Youden  *)
(* index (metrics/meta/validation.py) and the gate its verdict.            *)
(*                                                                         *)
(* A score is an integer multiple of 1/Scale and a threshold of 1/(2       *)
(* Scale), so that the midpoints of two scores are integers as well.       *)
(***************************************************************************)
EXTENDS Layer2

CONSTANTS
  ClassLists,       \* the class names a detector may have
  HeadsOf(_),       \* what its head may report of an instance
  ShapsOf(_),       \* what attributions an instance may have, one for each class
  NInstances,       \* n_instances
  Operators,        \* the operators of the corruption config, in its order
  Designated,       \* detector_metrics of each operator
  Scale,            \* scores are multiples of 1/Scale
  SensPercent, SpecPercent,  \* rq0_sensitivity, rq0_specificity
  RegisteredPoint,  \* rq0_op_*: the registered operating points
  ErasureK          \* k of the claim-driven erasure

\* OPERATORS; magnitude_inflation is no longer in the config.
OperatorNames ==
  {"fabricated_feature", "sign_flip", "rank_inversion", "omission", "vague_substitution"}

ASSUME BatteryAssumption ==
  /\ Operators \in Seq(OperatorNames) /\ DOMAIN Designated = Range(Operators)
  /\ NInstances \in Nat \ {0} /\ Scale \in Nat \ {0}

(***************************************************************************)
(* The corruption operators.                                               *)
(***************************************************************************)
Magnitude(c) == IF c.magnitude = None THEN 0 ELSE c.magnitude

\* _highest_magnitude_index: the first of the largest.
HighestMagnitude(claims) ==
  Min({i \in DOMAIN claims :
         \A j \in DOMAIN claims : Magnitude(claims[i]) >= Magnitude(claims[j])})

\* _rank_one_index: the first claim, if none is ranked first.
RankOne(claims) ==
  LET ones == {i \in DOMAIN claims : claims[i].rank = 1}
  IN IF ones = {} THEN 1 ELSE Min(ones)

FabricatedFeature(claims) ==
  Append(claims, MakeClaim("FABRICATED_FEATURE", Plus,
    1 + Max({0} \cup ({claims[i].rank : i \in DOMAIN claims} \ {None})), None, None))

\* Nothing to flip if the claim asserts no direction.
SignFlip(claims) ==
  LET i == HighestMagnitude(claims)
      c == claims[i]
  IN IF c.direction = None THEN claims
     ELSE [claims EXCEPT ![i] =
             MakeClaim(c.feature, IF c.direction = Plus THEN Minus ELSE Plus,
                       c.rank, c.magnitude, None)]

\* Bug: the claims change places and keep their ranks.
SwapPlaces(claims) ==
  IF Len(claims) < 2 THEN claims
  ELSE [claims EXCEPT ![1] = claims[2], ![2] = claims[1]]

RankInversion(claims) ==
  IF Len(claims) < 2 THEN claims
  ELSE [claims EXCEPT ![1].rank = claims[2].rank, ![2].rank = claims[1].rank]

Omission(claims) == RemoveAt(claims, RankOne(claims))

VagueSubstitution(claims) ==
  LET i == RankOne(claims)
      c == claims[i]
  IN [claims EXCEPT ![i] = MakeClaim("an unspecified traffic feature", c.direction,
                                     c.rank, c.magnitude, None)]

\* apply_operator
Corrupt(operator, claims) ==
  CASE operator = "fabricated_feature" -> FabricatedFeature(claims)
    [] operator = "sign_flip" -> SignFlip(claims)
    [] operator = "rank_inversion" -> RankInversion(claims)
    [] operator = "omission" -> Omission(claims)
    [] operator = "vague_substitution" -> VagueSubstitution(claims)

(***************************************************************************)
(* Scores.                                                                 *)
(***************************************************************************)
Scaled(m) == IF m.den = 0 THEN 0 ELSE (Scale * m.num) \div m.den

\* layer1_all and compute_eps_model in probability space (mention_f1 and
\* arc_n_pairs are left out: nothing designates them).
Metrics ==
  {"mention_precision", "mention_recall", "dsa", "dsa_asserted",
   "direction_assertion_rate", "arc", "hfr",
   "comprehensiveness_cited[prob]", "sufficiency_cited[prob]",
   "comprehensiveness_cited_per_feature[prob]", "sufficiency_cited_per_feature[prob]"}

Score(metric, claims, i) ==
  CASE metric = "mention_precision" -> Scaled(MentionPrecision(claims, i.attribution))
    [] metric = "mention_recall" -> Scaled(MentionRecall(claims, i.attribution))
    [] metric = "dsa" -> Scaled(Dsa(claims, i.attribution))
    [] metric = "dsa_asserted" -> Scaled(DsaAsserted(claims, i.attribution))
    [] metric = "direction_assertion_rate" ->
         Scaled(DirectionAssertionRate(claims, i.attribution))
    [] metric = "arc" -> Scaled(Arc(claims, i.attribution))
    [] metric = "hfr" -> Scaled(Hfr(claims, i.attribution))
    [] metric = "comprehensiveness_cited[prob]" ->
         Scale * EpsModel("comprehensiveness", claims, i.detector, ErasureK)
    [] metric = "sufficiency_cited[prob]" ->
         Scale * EpsModel("sufficiency", claims, i.detector, ErasureK)
    [] metric = "comprehensiveness_cited_per_feature[prob]" ->
         Scaled(EpsModelPerFeature("comprehensiveness", claims, i.detector, ErasureK))
    [] metric = "sufficiency_cited_per_feature[prob]" ->
         Scaled(EpsModelPerFeature("sufficiency", claims, i.detector, ErasureK))

\* POLARITY
LowerIsCorrupt(metric) ==
  metric \notin {"hfr", "sufficiency_cited[prob]", "sufficiency_cited_per_feature[prob]"}

(***************************************************************************)
(* find_operating_point.                                                   *)
(***************************************************************************)
\* The scores that threshold t calls corrupted.
Called(scores, t, low) ==
  Cardinality({i \in DOMAIN scores : IF low THEN 2 * scores[i] < t ELSE 2 * scores[i] > t})

\* Youden's J of a threshold, times the product of the two sample sizes.
Youden(faithful, corrupted, t, low) ==
  Called(corrupted, t, low) * Cardinality(DOMAIN faithful)
    - Called(faithful, t, low) * Cardinality(DOMAIN corrupted)

\* Bug: only the midpoints.
MidpointsOnly(values) ==
  IF Cardinality(values) = 1 THEN {2 * Min(values)}
  ELSE {a + Min({b \in values : b > a}) : a \in values \ {Max(values)}}

\* The midpoints of neighbouring scores and one beyond each end.
Candidates(values) ==
  IF Cardinality(values) = 1 THEN {2 * Min(values)}
  ELSE {2 * (Min(values) - Scale), 2 * (Max(values) + Scale)}
         \cup {a + Min({b \in values : b > a}) : a \in values \ {Max(values)}}

\* Ties on J resolve to the lowest threshold.
OperatingPoint(faithful, corrupted, low) ==
  LET candidates == Candidates(Range(faithful) \cup Range(corrupted))
      J(t) == Youden(faithful, corrupted, t, low)
  IN Min({t \in candidates : \A u \in candidates : J(u) <= J(t)})

(***************************************************************************)
(* The gate.                                                               *)
(***************************************************************************)
\* The attribution of the class explained, and what B1 claims of it.
InstanceOf(d, shap) ==
  LET a == Attribute(d, shap)
  IN [attribution |-> a, explained |-> Explained(d), detector |-> d,
      faithful |-> FaithfulClaims(a)]

\* A binary detector's classes are BENIGN and the attack, whose probabilities add
\* up (_as_rows); every class has its attribution.
ASSUME DetectorAssumption ==
  \A names \in ClassLists :
    /\ names \in Seq(STRING) /\ Len(names) > 1
    /\ \A i, j \in DOMAIN names : names[i] = names[j] => i = j
    /\ Len(names) = 2 => names[1] = Benign
    /\ \A shap \in ShapsOf(names) :
         /\ DOMAIN shap = DOMAIN names
         /\ \A c \in DOMAIN shap : IsAttribution(shap[c])
    /\ \A head \in HeadsOf(names) :
         /\ head \in [SUBSET Vocabulary -> Seq(Int)]
         /\ Len(names) = 2 =>
              \A erased \in SUBSET Vocabulary :
                Len(head[erased]) = 2 => head[erased][1] + head[erased][2] = Whole
         /\ \A shap \in ShapsOf(names) :
              None # InstanceOf([classes |-> names, head |-> head], shap)

VARIABLES
  classes,   \* the detector's classes, as it was trained
  instance,  \* the instance at hand, [attribution, explained, detector,
             \* faithful], or None
  pending,   \* its operators still to apply
  scores,    \* per_variant: the scores of each metric and variant
  verdict    \* None until the battery is over

vars == <<classes, instance, pending, scores, verdict>>

VariantNames == {"faithful"} \cup Range(Operators)

Init ==
  /\ classes \in ClassLists
  /\ instance = None /\ pending = <<>> /\ verdict = None
  /\ scores = [m \in Metrics |-> [v \in VariantNames |-> <<>>]]

\* _record
Recorded(variant, claims, i) ==
  [m \in Metrics |->
     [scores[m] EXCEPT ![variant] = Append(@, Score(m, claims, i))]]

Scored == Len(scores["hfr"]["faithful"])

\* The next instance, its faithful claims recorded.
Explain ==
  /\ instance = None /\ verdict = None /\ Scored < NInstances
  /\ \E head \in HeadsOf(classes) : \E shap \in ShapsOf(classes) :
       LET d == [classes |-> classes, head |-> head]
       IN /\ HeadAccepted(d)
          /\ instance' = InstanceOf(d, shap)
          /\ scores' = Recorded("faithful", instance'.faithful, instance')
  /\ pending' = Operators
  /\ UNCHANGED <<classes, verdict>>

\* Its next corruption.
Inject ==
  /\ pending # <<>>
  /\ scores' = Recorded(pending[1], Corrupt(pending[1], instance.faithful), instance)
  /\ pending' = Tail(pending)
  /\ instance' = IF Len(pending) = 1 THEN None ELSE instance
  /\ UNCHANGED <<classes, verdict>>

\* The scores of all the corrupted variants, by operator and instance.
Corrupted(metric) ==
  [p \in UNION {{op} \X (DOMAIN scores[metric][op]) : op \in Range(Operators)} |->
     scores[metric][p[1]][p[2]]]

\* battery_summary of one metric: [threshold, spec, sens], the last two as
\* counts out of NInstances.
Summary(metric) ==
  LET low == LowerIsCorrupt(metric)
      faithful == scores[metric]["faithful"]
      t == OperatingPoint(faithful, Corrupted(metric), low)
  IN [threshold |-> t,
      spec |-> Len(faithful) - Called(faithful, t, low),
      sens |-> [op \in Range(Operators) |-> Called(scores[metric][op], t, low)]]

\* Only the scored metrics are gone over.
Admissible(metric, summary) ==
  /\ 100 * summary.spec >= SpecPercent * NInstances
  /\ \A op \in Range(Operators) :
       metric \in Designated[op] => 100 * summary.sens[op] >= SensPercent * NInstances

Judge ==
  /\ instance = None /\ verdict = None /\ Scored = NInstances
  /\ LET summaries == [m \in Metrics |-> Summary(m)]
         mine == {m \in Metrics : \E op \in Range(Operators) : m \in Designated[op]}
         fit == {m \in mine : Admissible(m, summaries[m])}
     IN verdict' = [passed |-> fit = mine, admissible |-> fit, summaries |-> summaries]
  /\ UNCHANGED <<classes, instance, pending, scores>>

Next == Explain \/ Inject \/ Judge

Spec == Init /\ [][Next]_vars

(***************************************************************************)
(* The battery as it is registered (configs/corruption/rq0_operators.yaml, *)
(* configs/statistics/decision_thresholds.yaml).                           *)
(***************************************************************************)
RegisteredOperators ==
  <<"fabricated_feature", "sign_flip", "rank_inversion", "omission", "vague_substitution">>

RegisteredDesignations ==
  [op \in Range(RegisteredOperators) |->
     CASE op = "fabricated_feature" -> {"hfr", "mention_precision"}
       [] op = "sign_flip" -> {"dsa_asserted"}
       [] op = "rank_inversion" -> {"arc"}
       [] op = "omission" -> {"mention_recall"}
       [] op = "vague_substitution" -> {"mention_recall", "hfr"}]

\* 0.95, 0.9, 1/12, 11/12 and 0.9, in multiples of 1/240.
RegisteredPoints ==
  [arc |-> 228, dsa_asserted |-> 216, hfr |-> 20,
   mention_precision |-> 220, mention_recall |-> 216]

\* At least top_k features, none named like what the operators make up.
Registered ==
  /\ TopK = 5 /\ Scale = 120 /\ SensPercent = 90 /\ SpecPercent = 90
  /\ Operators = RegisteredOperators /\ Designated = RegisteredDesignations
  /\ RegisteredPoint = RegisteredPoints
  /\ {"FABRICATED_FEATURE", "an unspecified traffic feature"} \cap Vocabulary = {}
  /\ \A names \in ClassLists : \A shap \in ShapsOf(names) : \A c \in DOMAIN shap :
       Len(shap[c]) >= TopK

(***************************************************************************)
(* Properties.                                                             *)
(***************************************************************************)
\* Whatever the attributions, the designated pairs separate: the gate passes,
\* every designated metric was scored and is admissible, and the operating
\* points are the ones registered for Tier-A (rq0_gate.py:87-88,
\* test_rq0_gate.py:5-7, decision_thresholds.yaml:74-100).
EveryPairSeparates ==
  verdict # None =>
    /\ verdict.passed
    /\ \A op \in Range(Operators) : \A m \in Designated[op] :
         m \in verdict.admissible /\ verdict.summaries[m].sens[op] = NInstances
    /\ \A m \in DOMAIN RegisteredPoint :
         verdict.summaries[m].threshold = RegisteredPoint[m]

\* No threshold at all, candidate or not, has a larger Youden index than the
\* recorded one, whatever the ties between faithful and corrupted scores
\* (validation.py:48-56).
OperatingPointsAreBest ==
  verdict # None =>
    \A m \in Metrics :
      LET low == LowerIsCorrupt(m)
          faithful == scores[m]["faithful"]
          all == Range(faithful) \cup Range(Corrupted(m))
          best == Youden(faithful, Corrupted(m), verdict.summaries[m].threshold, low)
      IN \A v \in all, e \in {-1, 0, 1} :
           Youden(faithful, Corrupted(m), 2 * v + e, low) <= best

\* One class all along: the score an explanation's directions are about is the
\* attributed one and the one whose drop is measured, also where an erasure
\* changes the prediction; and of claims that are faithful to the attribution the
\* claim-driven deltas, which are passed neither the attribution nor the class
\* it explains, are the attribution's own, at every k
\* (layer2/metrics.py:76-92, decomposition.py).
OneClassThroughout ==
  instance # None =>
    LET d == instance.detector
        label == ScoreLabel(d, instance.explained)
        LabelScore(erased) == IF Binary(d) THEN AttackProbability(d, erased)
                              ELSE PredictProba(d, erased)[Column(d, label)]
    IN /\ IF Binary(d) THEN label = "attack" /\ instance.explained # Benign
          ELSE label = instance.explained /\ label = PredictionView(d).class
       /\ \A measure \in {"comprehensiveness", "sufficiency"}, k \in 1..TopK :
            EpsModel(measure, instance.faithful, d, k)
              = EpsAtt(measure, instance.attribution, instance.explained, d, k)
       /\ \A k \in DOMAIN Top(instance.attribution) :
            EpsAtt("comprehensiveness", instance.attribution, instance.explained, d, k)
              = LabelScore({}) - LabelScore(FeaturesOf(SubSeq(Top(instance.attribution), 1, k)))
===============================================================================
