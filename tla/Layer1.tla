--------------------------------- MODULE Layer1 ---------------------------------
(***************************************************************************)
(* The attribution, the template generator B1 and the claim-level metrics  *)
(* (framework/schemas.py, generation/b1_template, metrics/layer1) with the *)
(* cited set of layer 2 (metrics/layer2/metrics.py).                       *)
(*                                                                         *)
(* An attribution is a sequence of [feature, value].  A measure is a       *)
(* fraction [num, den]; den = 0 is where the code returns a structural     *)
(* 0.0 because the metric is undefined.                                    *)
(***************************************************************************)
EXTENDS Extraction

CONSTANT TopK  \* top_k of the generators and the metrics

ASSUME TopKAssumption == TopK \in Nat \ {0}

\* One value for each feature.
IsAttribution(attribution) ==
  /\ attribution \in Seq([feature : Vocabulary, value : Int])
  /\ \A f \in Vocabulary : \E i \in DOMAIN attribution : attribution[i].feature = f
  /\ \A i, j \in DOMAIN attribution : attribution[i].feature = attribution[j].feature => i = j

Abs(v) == IF v < 0 THEN -v ELSE v

SignOf(v) == IF v >= 0 THEN Plus ELSE Minus

\* ranked_features, ranked_topk: by descending magnitude, equal ones in the
\* order of the features.
Ranked(attribution) ==
  LET order == LargestFirst([i \in DOMAIN attribution |-> Abs(attribution[i].value)])
  IN [r \in DOMAIN attribution |-> attribution[order[r]]]

Top(attribution) ==
  SubSeq(Ranked(attribution), 1, IF TopK < Len(attribution) THEN TopK ELSE Len(attribution))

FeaturesOf(rows) == {rows[i].feature : i \in DOMAIN rows}

\* Where a feature stands in a sequence of rows.
RankIn(rows, f) == CHOOSE i \in DOMAIN rows : rows[i].feature = f

(***************************************************************************)
(* B1Template.                                                             *)
(***************************************************************************)
\* faithful_claims
FaithfulClaims(attribution) ==
  LET rows == Top(attribution)
  IN [i \in DOMAIN rows |->
        MakeClaim(rows[i].feature, SignOf(rows[i].value), i, Abs(rows[i].value), None)]

\* generate: a sentence for every row.
Rendered(attribution, nameOf) ==
  LET rows == Top(attribution)
      Sentence(r) ==
        nameOf[r.feature] \o <<IF SignOf(r.value) = Plus THEN "increases" ELSE "decreases", Stop>>
      told[k \in 0..Len(rows)] == IF k = 0 THEN <<>> ELSE told[k - 1] \o Sentence(rows[k])
  IN told[Len(rows)]

(***************************************************************************)
(* Metrics.                                                                *)
(***************************************************************************)
Fraction(num, den) == [num |-> num, den |-> den]

Claimed(claims) == {claims[i].feature : i \in DOMAIN claims}

\* _present_topk: which claims the directional metrics are about.
Present(claims, attribution) ==
  LET top == FeaturesOf(Top(attribution))
  IN {i \in DOMAIN claims : claims[i].feature \in top}

\* _asserted: all but the extractor's "default".
Asserted(claims, attribution) ==
  {i \in Present(claims, attribution) : claims[i].evidence # "default"}

MentionPrecision(claims, attribution) ==
  Fraction(Cardinality(Present(claims, attribution)), Len(claims))

MentionRecall(claims, attribution) ==
  LET top == FeaturesOf(Top(attribution))
  IN Fraction(Cardinality(top \cap Claimed(claims)), Cardinality(top))

Agrees(c, attribution) ==
  c.direction = SignOf(attribution[RankIn(attribution, c.feature)].value)

\* Of the claims of these places, those that agree.
AgreeingOf(places, claims, attribution) ==
  Fraction(Cardinality({i \in places : Agrees(claims[i], attribution)}), Cardinality(places))

Dsa(claims, attribution) == AgreeingOf(Present(claims, attribution), claims, attribution)

DsaAsserted(claims, attribution) ==
  AgreeingOf(Asserted(claims, attribution), claims, attribution)

DirectionAssertionRate(claims, attribution) ==
  Fraction(Cardinality(Asserted(claims, attribution)), Cardinality(Present(claims, attribution)))

\* hfr: claimed features that are not among the attribution's.
Hfr(claims, attribution) ==
  Fraction(Cardinality({i \in DOMAIN claims : claims[i].feature \notin FeaturesOf(attribution)}),
           Len(claims))

\* _arc_pairs: the ranked claims about the top features.
ArcPairs(claims, attribution) == {i \in Present(claims, attribution) : claims[i].rank # None}

ArcNPairs(claims, attribution) == Cardinality(ArcPairs(claims, attribution))

\* _spearman's ranks: positions in sorted order, ties by input order.
Position(xs, i) ==
  Cardinality({j \in DOMAIN xs : xs[j] < xs[i] \/ (xs[j] = xs[i] /\ j < i)})

\* f[1] + ... + f[n]
SumTo(f, n) ==
  LET sum[k \in 0..n] == IF k = 0 THEN 0 ELSE sum[k - 1] + f[k]
  IN sum[n]

\* arc: the positions are permutations, so the correlation is
\* 1 - 6 * (sum of squared differences) / (n (n^2 - 1)).
Arc(claims, attribution) ==
  LET pairs == ArcPairs(claims, attribution)
      top == Top(attribution)
      said == [i \in pairs |-> claims[i].rank]
      real == [i \in pairs |-> RankIn(top, claims[i].feature)]
      n == Cardinality(pairs)
      Off(i) == Position(said, i) - Position(real, i)
      squares == [i \in DOMAIN claims |-> IF i \in pairs THEN Off(i) * Off(i) ELSE 0]
  IN IF n < 2 THEN Fraction(0, 0)
     ELSE Fraction(n * (n * n - 1) - 6 * SumTo(squares, Len(claims)), n * (n * n - 1))

(***************************************************************************)
(* Layer 2.                                                                *)
(***************************************************************************)
\* _cited_topk: the features that the claim-driven erasure removes.
Cited(claims, known, k) ==
  LET Before(i, j) ==
        IF claims[i].rank = None THEN claims[j].rank = None /\ i < j
        ELSE IF claims[j].rank = None THEN TRUE
        ELSE \/ claims[i].rank < claims[j].rank
             \/ claims[i].rank = claims[j].rank /\ i < j
      firsts == {i \in DOMAIN claims : /\ claims[i].feature \in known
                                       /\ \A j \in DOMAIN claims :
                                            claims[j].feature = claims[i].feature
                                              => i = j \/ Before(i, j)}
      order == InOrder(firsts, {p \in firsts \X firsts : Before(p[1], p[2])})
  IN {claims[order[r]].feature : r \in {q \in DOMAIN order : q <= k}}
===============================================================================
