----------------------------- MODULE AuditProofs -----------------------------
(***************************************************************************)
(* Theorems about the extractor audit, for any explanations, quota,        *)
(* vocabulary, replies, readings and numbers of batches, versions and      *)
(* tokens; and, in the second part, about the annotation page, for any     *)
(* number of annotators who share a browser and any sequence of clicks,    *)
(* names and reloads.                                                      *)
(***************************************************************************)
EXTENDS Audit, Annotator, FiniteSetTheorems, TLAPS

(***************************************************************************)
(* The gold standard and the verdict.                                      *)
(***************************************************************************)
\* gold_for treats the two passes alike.
LEMMA GoldIsSymmetric ==
  ASSUME NEW cells, NEW A, NEW B, NEW adjudications, NEW fallback
  PROVE  Gold(cells, A, B, adjudications, fallback)
           = Gold(cells, B, A, adjudications, fallback)
  BY DEF Gold

\* An adjudicated dispute never goes to the fallback.
LEMMA SettledGoldHasNoFallback ==
  ASSUME NEW cells, NEW A, NEW B, NEW adjudications, NEW p, NEW q,
         Disputed(cells, A, B) \subseteq DOMAIN adjudications
  PROVE  Gold(cells, A, B, adjudications, p) = Gold(cells, A, B, adjudications, q)
  BY DEF Gold, Disputed

\* Swapping the passes swaps the extremes, and both must agree anyway.
LEMMA VerdictSwaps ==
  ASSUME NEW cells, NEW A, NEW B, NEW adjudications, NEW predicted
  PROVE  Verdict(cells, A, B, adjudications, predicted)
           = Verdict(cells, B, A, adjudications, predicted)
<1>1. \A p : Gold(cells, A, B, adjudications, p) = Gold(cells, B, A, adjudications, p)
  BY GoldIsSymmetric
<1>2. Decided(cells, A, B, adjudications, predicted)
        = Decided(cells, B, A, adjudications, predicted)
  BY <1>1 DEF Decided
<1> QED
  BY <1>1, <1>2 DEF Verdict

(***************************************************************************)
(* The inductive invariant.                                                *)
(***************************************************************************)
TypeOK ==
  /\ batch \in SUBSET Drawable
  /\ candidates \in [batch -> SUBSET Vocabulary]
  /\ drawn \in Seq(SUBSET Drawable)
  /\ version \in 1..MaxVersion
  /\ key \in [1..MaxVersion -> [Drawable -> Readings \cup {None}]]
  /\ DOMAIN replies = Annotators
  /\ \A a \in Annotators : replies[a] \in [Drawable -> Replies[a] \cup {None}]

\* A token is of a batch that was drawn, the current one or an earlier one, and of
\* claims that were read.
Tokens ==
  \A t \in tokens :
    /\ t.version \in 1..MaxVersion
    /\ t.batch \in 0..Len(drawn)
    /\ t.batch = Len(drawn) => \A i \in batch : t.claims[i] # None

Inductive == TypeOK /\ Tokens /\ TokensKeepTheirClaims

LEMMA InitHolds == Init => Inductive
<1> SUFFICES ASSUME Init PROVE Inductive
  OBVIOUS
<1> USE AuditAssumption DEF Init, NoKey, Annotators
<1>1. TypeOK
  BY DEF TypeOK
<1>2. Tokens /\ TokensKeepTheirClaims
  BY DEF Tokens, TokensKeepTheirClaims
<1> QED
  BY <1>1, <1>2 DEF Inductive

\* A draw is a new batch, also where its items were drawn before: every token is
\* of an earlier one.
LEMMA BuildHolds ==
  ASSUME Inductive, Build
  PROVE  Inductive'
<1> USE DEF Build
<1> PICK keys \in SUBSET Range(drawn) : Draw(UNION keys)
  OBVIOUS
<1> PICK S \in Sampled(Drawable \ UNION keys) :
      /\ S # {} /\ batch' = S
      /\ candidates' \in {f \in [S -> SUBSET Vocabulary] :
                            \A e \in S : f[e] \in CandidateSets(e)}
  BY DEF Draw
<1>1. S \subseteq Drawable
  BY DEF Sampled
<1>2. drawn' \in Seq(SUBSET Drawable) /\ Len(drawn) \in Nat /\ Len(drawn') = Len(drawn) + 1
  BY <1>1 DEF TypeOK, Inductive
<1>3. TypeOK'
  BY <1>1, <1>2 DEF TypeOK, Inductive, NoKey, Annotators
<1>4. \A t \in tokens' : t \in tokens /\ t.batch \in 0..Len(drawn)
  BY DEF Tokens, Inductive
<1>5. \A t \in tokens' : t.batch \in 0..Len(drawn') /\ t.batch # Len(drawn')
  BY <1>2, <1>4
<1>6. Tokens' /\ TokensKeepTheirClaims'
  BY <1>4, <1>5 DEF Tokens, TokensKeepTheirClaims, Inductive
<1> QED
  BY <1>3, <1>6 DEF Inductive

\* Reading again can add claims to the key, never change a version's answer.
LEMMA ReExtractHolds ==
  ASSUME Inductive, NEW n, ReExtract(n)
  PROVE  Inductive'
<1> USE DEF ReExtract, annotation
<1> PICK read \in [First(n) -> Readings] :
      /\ \A e \in DOMAIN read : key[version][e] \in {None, read[e]}
      /\ key' = [key EXCEPT ![version] =
                   [e \in Drawable |-> IF e \in DOMAIN read THEN read[e] ELSE @[e]]]
  OBVIOUS
<1>1. TypeOK'
  <2>1. key' \in [1..MaxVersion -> [Drawable -> Readings \cup {None}]]
    BY DEF TypeOK, Inductive
  <2> QED
    BY <2>1 DEF TypeOK, Inductive
<1>2. \A v \in 1..MaxVersion, i \in batch : key[v][i] # None => key'[v][i] = key[v][i]
  BY DEF TypeOK, Inductive
<1>3. TokensKeepTheirClaims'
  BY <1>2 DEF TokensKeepTheirClaims, Tokens, Inductive
<1> QED
  BY <1>1, <1>3 DEF Inductive, Tokens

\* A token is minted from the current key of the current batch.
LEMMA ScoreHolds ==
  ASSUME Inductive, Score
  PROVE  Inductive'
<1> USE DEF Score, annotation
<1>1. Len(drawn) \in 0..Len(drawn)
  BY DEF TypeOK, Inductive
<1>2. \A t \in tokens' \ tokens :
        /\ t.version = version /\ t.batch = Len(drawn)
        /\ \A i \in batch : t.claims[i] = key[version][i]
  OBVIOUS
<1>3. Tokens'
  BY <1>1, <1>2 DEF Tokens, TypeOK, Inductive
<1>4. TokensKeepTheirClaims'
  BY <1>2 DEF TokensKeepTheirClaims, Inductive
<1> QED
  BY <1>3, <1>4 DEF Inductive, TypeOK

LEMMA StepHolds == Inductive /\ [Next]_vars => Inductive'
<1> SUFFICES ASSUME Inductive, [Next]_vars PROVE Inductive'
  OBVIOUS
<1> USE DEF Inductive, TypeOK, Tokens, TokensKeepTheirClaims, annotation
<1>1. CASE Build
  BY <1>1, BuildHolds
<1>2. ASSUME NEW a \in Annotators, NEW i \in Drawable, Answer(a, i) PROVE Inductive'
  BY <1>2 DEF Answer
<1>3. CASE Adjudicate
  BY <1>3 DEF Adjudicate
<1>4. CASE Iterate
  BY <1>4, AuditAssumption DEF Iterate
<1>5. ASSUME NEW n \in 1..Len(Explanations), ReExtract(n) PROVE Inductive'
  BY <1>5, ReExtractHolds
<1>6. CASE Score
  BY <1>6, ScoreHolds
<1>7. CASE UNCHANGED vars
  BY <1>7 DEF vars
<1> QED
  BY <1>1, <1>2, <1>3, <1>4, <1>5, <1>6, <1>7 DEF Next

LEMMA InductiveHolds == Spec => []Inductive
  BY InitHolds, StepHolds, PTL DEF Spec

(***************************************************************************)
(* The safety theorems.                                                    *)
(***************************************************************************)
\* Whatever is read again, by whatever version, a token's claims stay in the key.
THEOREM TokensStayExplained == Spec => []TokensKeepTheirClaims
<1>1. Inductive => TokensKeepTheirClaims
  BY DEF Inductive
<1> QED
  BY <1>1, InductiveHolds, PTL

\* A batch whose disputes are all adjudicated is decided, whatever is claimed.
THEOREM AdjudicationAlwaysDecides == Spec => []AdjudicationDecides
<1>1. AdjudicationDecides
  BY SettledGoldHasNoFallback DEF AdjudicationDecides, Decided
<1> QED
  BY <1>1, PTL

(***************************************************************************)
(* Cells and passes.                                                       *)
(***************************************************************************)
\* What a pass mentions, and what it says of it.
LEMMA PassCells ==
  ASSUME Inductive, NEW a \in Annotators
  PROVE  /\ DOMAIN PassOf(a)
              = UNION {{<<i, f>> : f \in DOMAIN replies[a][i]} :
                         i \in {j \in batch : replies[a][j] # None}}
         /\ \A i \in batch : \A f : replies[a][i] # None =>
              (<<i, f>> \in DOMAIN PassOf(a) <=> f \in DOMAIN replies[a][i])
         /\ \A i \in batch : \A f : replies[a][i] # None /\ f \in DOMAIN replies[a][i] =>
              PassOf(a)[<<i, f>>] = replies[a][i][f]
         /\ \A c \in DOMAIN PassOf(a) : PassOf(a)[c] \in Labels
<1> DEFINE answered == {j \in batch : replies[a][j] # None}
           cells == UNION {{<<i, f>> : f \in DOMAIN replies[a][i]} : i \in answered}
<1>1. PassOf(a) = [c \in cells |-> replies[a][c[1]][c[2]]]
  BY DEF PassOf
<1>2. \A c : c \in cells <=>
        \E i \in answered : \E f \in DOMAIN replies[a][i] : c = <<i, f>>
  OBVIOUS
<1>3. \A i \in answered : \A f : <<i, f>> \in cells <=> f \in DOMAIN replies[a][i]
  BY <1>2
<1>4. \A i \in answered : replies[a][i] \in Replies[a]
  BY DEF Inductive, TypeOK
<1>5. \A i \in answered : \A f \in DOMAIN replies[a][i] : replies[a][i][f] \in Labels
  BY <1>4, AuditAssumption
<1> HIDE DEF cells
<1>6. \A c \in cells : PassOf(a)[c] \in Labels
  BY <1>1, <1>2, <1>5
<1> QED
  BY <1>1, <1>3, <1>6 DEF cells

LEMMA BatchIsFinite == Inductive => IsFiniteSet(batch)
<1>1. Explanations \in [1..Len(Explanations) -> Drawable] /\ Len(Explanations) \in Nat
  BY AuditAssumption
<1>2. Explanations \in Surjection(1..Len(Explanations), Drawable)
  BY <1>1 DEF Surjection, Drawable, Range
<1>3. IsFiniteSet(1..Len(Explanations))
  BY <1>1, FS_Interval
<1>4. IsFiniteSet(Drawable)
  BY <1>2, <1>3, FS_Surjection
<1> QED
  BY <1>4, FS_Subset DEF Inductive, TypeOK

LEMMA PassIsFinite ==
  ASSUME Inductive, NEW a \in Annotators
  PROVE  IsFiniteSet(DOMAIN PassOf(a))
<1> DEFINE answered == {j \in batch : replies[a][j] # None}
           mentioned == [i \in answered |-> DOMAIN replies[a][i]]
           features == {mentioned[i] : i \in answered}
<1>1. IsFiniteSet(answered)
  BY BatchIsFinite, FS_Subset
<1>2. mentioned \in Surjection(answered, features)
  BY DEF Surjection
<1>3. IsFiniteSet(features)
  <2> HIDE DEF answered, mentioned, features
  <2> QED
    BY <1>1, <1>2, FS_Surjection
<1>4. \A F \in features : IsFiniteSet(F)
  BY AuditAssumption DEF Inductive, TypeOK
<1>5. IsFiniteSet(answered \X UNION features)
  <2> HIDE DEF answered, features
  <2> QED
    BY <1>1, <1>3, <1>4, FS_UNION, FS_Product
<1>6. DOMAIN PassOf(a) \subseteq answered \X UNION features
  BY DEF PassOf
<1> QED
  BY <1>5, <1>6, FS_Subset

LEMMA CellsAreFinite == Inductive => IsFiniteSet(AllCells)
<1> SUFFICES ASSUME Inductive PROVE IsFiniteSet(AllCells)
  OBVIOUS
<1> DEFINE said == DOMAIN PassOf(1) \cup DOMAIN PassOf(2)
<1>1. IsFiniteSet(said)
  <2>1. IsFiniteSet(DOMAIN PassOf(1)) /\ IsFiniteSet(DOMAIN PassOf(2))
    BY PassIsFinite DEF Annotators
  <2> QED
    BY <2>1, FS_Union
<1>2. IsFiniteSet(batch \X Vocabulary)
  BY BatchIsFinite, AuditAssumption, FS_Product
<1>3. IsFiniteSet((batch \X Vocabulary) \cup said)
  BY <1>1, <1>2, FS_Union
<1>4. AllCells \subseteq (batch \X Vocabulary) \cup said
  <2>1. \A i \in batch : candidates[i] \subseteq Vocabulary
    BY DEF Inductive, TypeOK
  <2>2. UNION {{<<i, f>> : f \in candidates[i]} : i \in batch} \subseteq batch \X Vocabulary
    BY <2>1
  <2>3. UNION {DOMAIN q : q \in {PassOf(1), PassOf(2)}} = said
    OBVIOUS
  <2> QED
    BY <2>2, <2>3 DEF AllCells, Cells
<1> QED
  BY <1>3, <1>4, FS_Subset

(***************************************************************************)
(* The statistics, of any two passes over any finite set of cells.         *)
(***************************************************************************)
LEMMA CountType ==
  ASSUME NEW cells, IsFiniteSet(cells), NEW pass, NEW label
  PROVE  /\ Count(cells, pass, label) \in Nat
         /\ Count(cells, pass, label) <= Cardinality(cells)
<1>1. {c \in cells : ValueOf(pass, c) = label} \in SUBSET cells
  OBVIOUS
<1> QED
  BY <1>1, FS_Subset, FS_CardinalityType DEF Count

LEMMA DisputedSwaps ==
  ASSUME NEW cells, NEW A, NEW B
  PROVE  Disputed(cells, A, B) = Disputed(cells, B, A)
  BY DEF Disputed

\* Products and sums of counts do not depend on the order of the passes.
LEMMA StatisticsSwap ==
  ASSUME NEW cells, IsFiniteSet(cells), NEW A, NEW B
  PROVE  Kappa(cells, A, B) = Kappa(cells, B, A) /\ Alpha(cells, A, B) = Alpha(cells, B, A)
<1>1. \A l : Count(cells, A, l) \in Nat /\ Count(cells, B, l) \in Nat
  BY CountType
<1>2. \A l : Count(cells, A, l) * Count(cells, B, l) = Count(cells, B, l) * Count(cells, A, l)
  <2>1. \A m, n \in Nat : m * n = n * m
    OBVIOUS
  <2> QED
    BY <1>1, <2>1
<1>3. Kappa(cells, A, B) = Kappa(cells, B, A)
  BY <1>2, DisputedSwaps DEF Kappa, SumOfLabels
<1>4. \A l : Count(cells, A, l) + Count(cells, B, l) = Count(cells, B, l) + Count(cells, A, l)
  BY <1>1
<1>5. Alpha(cells, A, B) = Alpha(cells, B, A)
  BY <1>4, DisputedSwaps DEF Alpha, SumOfLabels
<1> QED
  BY <1>3, <1>5

LEMMA DisjointUnion ==
  ASSUME NEW S, NEW T, IsFiniteSet(S), IsFiniteSet(T), S \cap T = {}
  PROVE  /\ IsFiniteSet(S \cup T)
         /\ Cardinality(S \cup T) = Cardinality(S) + Cardinality(T)
<1>1. Cardinality(S) \in Nat /\ Cardinality(T) \in Nat
  BY FS_CardinalityType
<1>2. Cardinality(S \cap T) = 0
  BY FS_EmptySet
<1>3. /\ IsFiniteSet(S \cup T)
      /\ Cardinality(S \cup T) = Cardinality(S) + Cardinality(T) - Cardinality(S \cap T)
  BY FS_Union
<1> QED
  BY <1>1, <1>2, <1>3

\* Every cell has one of the four labels.
LEMMA CountsAddUp ==
  ASSUME NEW cells, IsFiniteSet(cells), NEW pass,
         \A c \in DOMAIN pass : pass[c] \in Labels
  PROVE  SumOfLabels(LAMBDA l : Count(cells, pass, l)) = Cardinality(cells)
<1> DEFINE Of(l) == {c \in cells : ValueOf(pass, c) = l}
<1>1. \A l : Of(l) \in SUBSET cells
  OBVIOUS
<1>2. \A l : IsFiniteSet(Of(l)) /\ Cardinality(Of(l)) \in Nat
  BY <1>1, FS_Subset, FS_CardinalityType
<1> DEFINE Signed == Of("+") \cup Of("-")
           Named == Signed \cup Of("unclear")
<1>3. cells = Named \cup Of("absent")
  BY DEF ValueOf, Labels, Directional
<1>4. Of("+") \cap Of("-") = {} /\ Signed \cap Of("unclear") = {} /\ Named \cap Of("absent") = {}
  OBVIOUS
<1> HIDE DEF Of
<1>6. IsFiniteSet(Signed) /\ Cardinality(Signed) = Cardinality(Of("+")) + Cardinality(Of("-"))
  BY <1>2, <1>4, DisjointUnion
<1> HIDE DEF Signed
<1>7. IsFiniteSet(Named) /\ Cardinality(Named) = Cardinality(Signed) + Cardinality(Of("unclear"))
  BY <1>2, <1>4, <1>6, DisjointUnion
<1> HIDE DEF Named
<1>8. Cardinality(cells) = Cardinality(Named) + Cardinality(Of("absent"))
  BY <1>2, <1>3, <1>4, <1>7, DisjointUnion
<1>9. \A l : Count(cells, pass, l) = Cardinality(Of(l))
  BY DEF Count, Of
<1> QED
  BY <1>2, <1>6, <1>7, <1>8, <1>9 DEF SumOfLabels

LEMMA ProductBound ==
  ASSUME NEW a \in Nat, NEW b \in Nat, NEW n \in Nat, b <= n
  PROVE  a * b \in Nat /\ a * b <= a * n /\ (a * b = a * n => a = 0 \/ b = n)
<1>1. PICK d \in Nat : n = b + d
  <2>1. n - b \in Nat /\ n = b + (n - b)
    OBVIOUS
  <2> QED
    BY <2>1
<1>2. a * n = a * b + a * d
  BY <1>1
<1>3. a * b \in Nat /\ a * d \in Nat
  OBVIOUS
<1>4. a * d = 0 => a = 0 \/ d = 0
  OBVIOUS
<1> QED
  BY <1>1, <1>2, <1>3, <1>4

LEMMA TightSum ==
  ASSUME NEW x1 \in Nat, NEW x2 \in Nat, NEW x3 \in Nat, NEW x4 \in Nat,
         NEW y1 \in Nat, NEW y2 \in Nat, NEW y3 \in Nat, NEW y4 \in Nat,
         x1 <= y1, x2 <= y2, x3 <= y3, x4 <= y4,
         x1 + x2 + x3 + x4 >= y1 + y2 + y3 + y4
  PROVE  x1 = y1 /\ x2 = y2 /\ x3 = y3 /\ x4 = y4
  OBVIOUS

\* A label every cell has leaves no cell with another one.
LEMMA ConstantPass ==
  ASSUME NEW cells, IsFiniteSet(cells), NEW pass, NEW label,
         Count(cells, pass, label) = Cardinality(cells)
  PROVE  \A c \in cells : ValueOf(pass, c) = label
<1>1. {c \in cells : ValueOf(pass, c) = label} \in SUBSET cells
  OBVIOUS
<1>2. {c \in cells : ValueOf(pass, c) = label} = cells
  BY <1>1, FS_Subset DEF Count
<1> QED
  BY <1>2

\* Over some cells cohens_kappa is 1 exactly when none is disputed, also where its
\* ratio is undefined and the code answers 1.
LEMMA KappaIsOne ==
  ASSUME NEW cells, IsFiniteSet(cells), cells # {}, NEW A, NEW B,
         \A c \in DOMAIN A : A[c] \in Labels, \A c \in DOMAIN B : B[c] \in Labels
  PROVE  Disputed(cells, A, B) = {} <=> Kappa(cells, A, B)[1] = Kappa(cells, A, B)[2]
<1> DEFINE n == Cardinality(cells)
           d == Cardinality(Disputed(cells, A, B))
           a(l) == Count(cells, A, l)
           b(l) == Count(cells, B, l)
           chance == a("+") * b("+") + a("-") * b("-") + a("unclear") * b("unclear")
                       + a("absent") * b("absent")
<1>1. n \in Nat /\ n # 0
  BY FS_CardinalityType, FS_EmptySet
<1>2. d \in Nat /\ d <= n /\ (d = 0 <=> Disputed(cells, A, B) = {})
  <2>1. Disputed(cells, A, B) \in SUBSET cells
    BY DEF Disputed
  <2> QED
    BY <2>1, FS_Subset, FS_CardinalityType, FS_EmptySet
<1>3. \A l : a(l) \in Nat /\ b(l) \in Nat
  BY CountType
<1>4. /\ a("+") + a("-") + a("unclear") + a("absent") = n
      /\ b("+") + b("-") + b("unclear") + b("absent") = n
  BY CountsAddUp DEF SumOfLabels
<1>5. Kappa(cells, A, B)
        = IF chance < n * n THEN <<n * (n - d) - chance, n * n - chance>> ELSE <<1, 1>>
  BY <1>1 DEF Kappa, SumOfLabels
<1>6. chance \in Nat
  <2>1. \A x, y \in Nat : x * y \in Nat
    OBVIOUS
  <2>2. \A l : a(l) * b(l) \in Nat
    BY <1>3, <2>1
  <2> HIDE DEF a, b
  <2> QED
    BY <2>2
<1>7. CASE chance < n * n
  <2>1. n * (n - d) = n * n - n * d /\ n * n \in Nat /\ n * d \in Nat
    BY <1>1, <1>2
  <2>2. n * d = 0 <=> d = 0
    BY <1>1, <1>2
  <2>3. n * (n - d) - chance = n * n - chance <=> d = 0
    <3> HIDE DEF n, d, chance
    <3> QED
      BY <2>1, <2>2, <1>6, <1>1, <1>2
  <2> QED
    BY <2>3, <1>2, <1>5, <1>7
<1>8. CASE ~(chance < n * n)
  <2>1. chance >= n * n
    <3>1. n * n \in Nat
      BY <1>1
    <3> HIDE DEF n, chance
    <3> QED
      BY <3>1, <1>6, <1>8
  <2>2. \E l \in Labels : a(l) = n /\ b(l) = n
    <3>1. /\ a("+") \in Nat /\ a("-") \in Nat /\ a("unclear") \in Nat /\ a("absent") \in Nat
          /\ b("+") \in Nat /\ b("-") \in Nat /\ b("unclear") \in Nat /\ b("absent") \in Nat
      BY <1>3
    <3>2. n \in Nat \ {0}
      BY <1>1, <1>8
    <3>3. \/ a("+") = n /\ b("+") = n
          \/ a("-") = n /\ b("-") = n
          \/ a("unclear") = n /\ b("unclear") = n
          \/ a("absent") = n /\ b("absent") = n
      <4>1. PICK a1, a2, a3, a4, b1, b2, b3, b4 \in Nat :
              /\ a1 = a("+") /\ a2 = a("-") /\ a3 = a("unclear") /\ a4 = a("absent")
              /\ b1 = b("+") /\ b2 = b("-") /\ b3 = b("unclear") /\ b4 = b("absent")
        BY <3>1
      <4>2. PICK m \in Nat \ {0} : m = n
        BY <3>2
      <4> HIDE DEF a, b, n
      <4>3. a1 * b1 + a2 * b2 + a3 * b3 + a4 * b4 >= m * m
        BY <2>1, <4>1, <4>2
      <4>4. a1 + a2 + a3 + a4 = m /\ b1 + b2 + b3 + b4 = m
        BY <1>4, <4>1, <4>2
      <4>5. \/ a1 = m /\ b1 = m
            \/ a2 = m /\ b2 = m
            \/ a3 = m /\ b3 = m
            \/ a4 = m /\ b4 = m
        <5>1. m * m = a1 * m + a2 * m + a3 * m + a4 * m
          <6>1. (a1 + a2 + a3 + a4) * m = a1 * m + a2 * m + a3 * m + a4 * m
            OBVIOUS
          <6> QED
            BY <4>4, <6>1
        <5>2. /\ a1 * b1 <= a1 * m /\ a1 * b1 \in Nat /\ (a1 * b1 = a1 * m => a1 = 0 \/ b1 = m)
              /\ a2 * b2 <= a2 * m /\ a2 * b2 \in Nat /\ (a2 * b2 = a2 * m => a2 = 0 \/ b2 = m)
              /\ a3 * b3 <= a3 * m /\ a3 * b3 \in Nat /\ (a3 * b3 = a3 * m => a3 = 0 \/ b3 = m)
              /\ a4 * b4 <= a4 * m /\ a4 * b4 \in Nat /\ (a4 * b4 = a4 * m => a4 = 0 \/ b4 = m)
          <6>1. b1 <= m /\ b2 <= m /\ b3 <= m /\ b4 <= m
            BY <4>4
          <6> QED
            BY <6>1, ProductBound
        <5>3. a1 * m \in Nat /\ a2 * m \in Nat /\ a3 * m \in Nat /\ a4 * m \in Nat
          OBVIOUS
        <5>4. a1 * b1 + a2 * b2 + a3 * b3 + a4 * b4 >= a1 * m + a2 * m + a3 * m + a4 * m
          BY <4>3, <5>1
        <5>5. a1 * b1 = a1 * m /\ a2 * b2 = a2 * m /\ a3 * b3 = a3 * m /\ a4 * b4 = a4 * m
          BY <5>2, <5>3, <5>4, TightSum
        <5> QED
          BY <4>4, <5>2, <5>5
      <4> QED
        BY <4>1, <4>2, <4>5
    <3> QED
      BY <3>3 DEF Labels, Directional
  <2>3. \E l \in Labels : \A c \in cells : ValueOf(A, c) = l /\ ValueOf(B, c) = l
    BY <2>2, ConstantPass
  <2>4. Disputed(cells, A, B) = {}
    BY <2>3 DEF Disputed
  <2> QED
    BY <2>4, <1>5, <1>8
<1> QED
  BY <1>7, <1>8

(***************************************************************************)
(* The theorems about the two tools.                                       *)
(***************************************************************************)
\* Calling the second annotator the first changes no verdict and no statistic.
THEOREM AnnotatorsAreInterchangeable == Spec => []VerdictIsSymmetric
<1>1. ASSUME Inductive PROVE VerdictIsSymmetric
  <2>1. IsFiniteSet(AllCells)
    BY <1>1, CellsAreFinite
  <2> QED
    BY <2>1, VerdictSwaps, StatisticsSwap DEF VerdictIsSymmetric
<1> QED
  BY <1>1, InductiveHolds, PTL

\* On validated passes a cell of the batch is disputed exactly when the two
\* replies say different things of its feature, whether it was listed or not.
LEMMA DisputesAreDifferences ==
  ASSUME Inductive, \A a \in Annotators : Validates(a)
  PROVE  Disputed(AllCells, PassOf(1), PassOf(2))
           = {c \in batch \X Vocabulary :
                LET said(a) == IF c[2] \in DOMAIN replies[a][c[1]]
                               THEN replies[a][c[1]][c[2]] ELSE "absent"
                IN said(1) # said(2)}
<1> DEFINE said(a, i, f) == IF f \in DOMAIN replies[a][i]
                            THEN replies[a][i][f] ELSE "absent"
<1>1. \A a \in Annotators, i \in batch :
        replies[a][i] # None /\ DOMAIN replies[a][i] \subseteq Vocabulary
  BY DEF Validates
<1>2. \A a \in Annotators, i \in batch : \A f :
        <<i, f>> \in DOMAIN PassOf(a) <=> f \in DOMAIN replies[a][i]
  BY <1>1, PassCells
<1>3. \A a \in Annotators, i \in batch : \A f : ValueOf(PassOf(a), <<i, f>>) = said(a, i, f)
  <2> TAKE a \in Annotators, i \in batch
  <2> TAKE f
  <2>1. f \in DOMAIN replies[a][i] => PassOf(a)[<<i, f>>] = replies[a][i][f]
    BY <1>1, PassCells
  <2> QED
    BY <2>1, <1>2 DEF ValueOf
<1>4. AllCells \subseteq batch \X Vocabulary
  <2>1. \A a \in Annotators : DOMAIN PassOf(a) \subseteq batch \X Vocabulary
    <3> TAKE a \in Annotators
    <3>1. DOMAIN PassOf(a) = UNION {{<<i, f>> : f \in DOMAIN replies[a][i]} :
                                      i \in {j \in batch : replies[a][j] # None}}
      BY PassCells
    <3> QED
      BY <1>1, <3>1
  <2>2. \A i \in batch : candidates[i] \subseteq Vocabulary
    BY DEF Inductive, TypeOK
  <2>3. UNION {{<<i, f>> : f \in candidates[i]} : i \in batch} \subseteq batch \X Vocabulary
    BY <2>2
  <2> QED
    BY <2>1, <2>3 DEF AllCells, Cells, Annotators
<1>5. \A i \in batch : \A f : said(1, i, f) # said(2, i, f) => <<i, f>> \in AllCells
  <2> TAKE i \in batch
  <2> TAKE f
  <2> HAVE said(1, i, f) # said(2, i, f)
  <2>1. f \in DOMAIN replies[1][i] \/ f \in DOMAIN replies[2][i]
    OBVIOUS
  <2>2. <<i, f>> \in DOMAIN PassOf(1) \/ <<i, f>> \in DOMAIN PassOf(2)
    BY <2>1, <1>2 DEF Annotators
  <2> QED
    BY <2>2 DEF AllCells, Cells
<1>6. \A c \in batch \X Vocabulary :
        c \in Disputed(AllCells, PassOf(1), PassOf(2))
          <=> said(1, c[1], c[2]) # said(2, c[1], c[2])
  <2> TAKE c \in batch \X Vocabulary
  <2>1. PICK i \in batch, f \in Vocabulary : c = <<i, f>>
    OBVIOUS
  <2> HIDE DEF said
  <2> QED
    BY <2>1, <1>3, <1>5 DEF Disputed, Annotators
<1> QED
  BY <1>4, <1>6 DEF Disputed

\* The gate and compare_annotations report the same on validated passes.
THEOREM TheToolsAgree == Spec => []ToolsAgree
<1>1. ASSUME Inductive PROVE ToolsAgree
  <2> SUFFICES ASSUME Compared, \A a \in Annotators : Validates(a)
               PROVE  LET report == Comparison  cells == AllCells
                      IN /\ report.n_items = Cardinality(batch)
                         /\ report.n_units = Cardinality(cells)
                         /\ report.disagreements = Disputed(cells, PassOf(1), PassOf(2))
                         /\ report.disagreements
                              = {c \in batch \X Vocabulary :
                                   LET said(a) == IF c[2] \in DOMAIN replies[a][c[1]]
                                                  THEN replies[a][c[1]][c[2]] ELSE "absent"
                                   IN said(1) # said(2)}
                         /\ report.disagreements = {}
                              <=> report.pairwise[1] = report.pairwise[2]
    BY DEF ToolsAgree
  <2>1. Shared = batch
    BY DEF Shared, Validates
  <2>2. Comparison.n_items = Cardinality(batch)
    BY <2>1 DEF Comparison
  <2>3. Cells(Shared, candidates, {PassOf(1), PassOf(2)}) = AllCells
    BY <2>1 DEF AllCells
  <2>4. /\ Comparison.n_units = Cardinality(AllCells)
        /\ Comparison.disagreements = Disputed(AllCells, PassOf(1), PassOf(2))
        /\ Comparison.pairwise = Kappa(AllCells, PassOf(1), PassOf(2))
    BY <2>3 DEF Comparison
  <2>5. \A a \in Annotators : \A c \in DOMAIN PassOf(a) : PassOf(a)[c] \in Labels
    BY <1>1, PassCells
  <2>6. AllCells # {}
    <3>1. PICK c : c \in DOMAIN PassOf(1)
      BY DEF Compared, Annotators
    <3>2. PICK i \in batch : \E f : c = <<i, f>>
      BY <1>1, <3>1, PassCells DEF Annotators
    <3> QED
      BY <3>1, <3>2 DEF AllCells, Cells
  <2>7. Disputed(AllCells, PassOf(1), PassOf(2)) = {}
          <=> Kappa(AllCells, PassOf(1), PassOf(2))[1] = Kappa(AllCells, PassOf(1), PassOf(2))[2]
    BY <1>1, <2>5, <2>6, CellsAreFinite, KappaIsOne DEF Annotators
  <2> QED
    BY <1>1, <2>2, <2>4, <2>7, DisputesAreDifferences
<1> QED
  BY <1>1, InductiveHolds, PTL

USE AnnotatorAssumption

(***************************************************************************)
(* The annotation page: its inductive invariant.                           *)
(***************************************************************************)
\* A pass of one name: its judgments are of listed features, and were made
\* under the name or under none.
NamedPass(name, state) ==
  /\ state \in States /\ state.name = name
  /\ \A c \in DOMAIN state.judged :
       c[2] \in Listed(state, c[1]) /\ state.judged[c].under \in {name, Unnamed}

Shelf(shelf) ==
  /\ shelf \in [Boxes -> States \cup {NoBucket}]
  /\ \A b \in Boxes : shelf[b] # NoBucket => NamedPass(b, shelf[b])

ExportsAreSigned ==
  \A e \in exports : \A c \in DOMAIN e.rows : e.rows[c].under \in {e.annotator, Unnamed}

PageInductive ==
  /\ active \in Boxes
  /\ Shelf(storage) /\ NamedPass(active, page) /\ page = Loaded(active)
  /\ ExportsAreSigned

(***************************************************************************)
(* Pages.                                                                  *)
(***************************************************************************)
LEMMA APass ==
  ASSUME NEW pass \in Passes
  PROVE  /\ DOMAIN pass \in SUBSET PageCells
         /\ \A c \in DOMAIN pass : pass[c] \in [label: LabelChoices, under: Boxes]
         /\ pass \in [DOMAIN pass -> [label: LabelChoices, under: Boxes]]
<1>1. PICK D \in SUBSET PageCells : pass \in [D -> [label: LabelChoices, under: Boxes]]
  BY DEF Passes
<1> QED  BY <1>1

LEMMA APassIs ==
  ASSUME NEW D \in SUBSET PageCells, NEW pass \in [D -> [label: LabelChoices, under: Boxes]]
  PROVE  pass \in Passes
  BY DEF Passes

LEMMA BlankPass ==
  ASSUME NEW name \in Boxes
  PROVE  NamedPass(name, Blank(name))
<1>1. NoJudgments \in [{} -> [label: LabelChoices, under: Boxes]] /\ DOMAIN NoJudgments = {}
  BY DEF NoJudgments
<1>2. NoJudgments \in Passes
  BY <1>1, APassIs
<1> QED  BY <1>1, <1>2 DEF NamedPass, Blank, States

\* Signing a pass again with its own name changes nothing.
LEMMA SignedAgain ==
  ASSUME NEW state \in States
  PROVE  [state EXCEPT !.name = state.name] = state
  BY DEF States

LEMMA LoadedPass ==
  ASSUME Shelf(storage), NEW name \in Boxes
  PROVE  /\ NamedPass(name, Loaded(name))
         /\ storage[name] # NoBucket => Loaded(name) = storage[name]
<1>1. CASE storage[name] = NoBucket
  BY <1>1, BlankPass DEF Loaded
<1>2. CASE storage[name] # NoBucket
  BY <1>2, SignedAgain DEF Loaded, Shelf, NamedPass
<1> QED  BY <1>1, <1>2

\* What is saved is what a reload shows.
LEMMA Saved ==
  ASSUME NEW name \in Boxes, NEW state, NEW shelf, Shelf(shelf), NamedPass(name, state),
         Save(state, shelf)
  PROVE  /\ active' \in Boxes /\ Shelf(storage)' /\ NamedPass(active, page)'
         /\ page' = Loaded(active)'
         /\ active' = name /\ page' = state
         /\ \A b \in Boxes : storage'[b] = IF b = name THEN state ELSE shelf[b]
<1>1. /\ page' = state /\ active' = name /\ state \in States /\ state.name = name
      /\ state # NoBucket
      /\ storage' = [shelf EXCEPT ![name] = state]
  BY DEF Save, NamedPass
<1>2. \A b \in Boxes : storage'[b] = IF b = name THEN state ELSE shelf[b]
  BY <1>1 DEF Shelf
<1>3. storage' \in [Boxes -> States \cup {NoBucket}]
  BY <1>1 DEF Shelf
<1>4. Shelf(storage)'
  BY <1>2, <1>3 DEF Shelf
<1>5. page' = Loaded(active)'
  BY <1>1, <1>2, SignedAgain DEF Loaded
<1> QED  BY <1>1, <1>2, <1>4, <1>5

LEMMA AJudgment ==
  ASSUME NEW name \in Boxes, NEW state, NamedPass(name, state),
         NEW i \in Items, NEW f \in Features, f \in Listed(state, i), NEW l \in LabelChoices
  PROVE  /\ NamedPass(name, Judged(state, i, f, l))
         /\ DOMAIN state.judged \subseteq DOMAIN Judged(state, i, f, l).judged
<1> DEFINE cell == <<i, f>>
           made == [label |-> l, under |-> state.name]
           pass == [c \in DOMAIN state.judged \cup {cell} |->
                      IF c = cell THEN made ELSE state.judged[c]]
           next == [state EXCEPT !.judged = pass]
<1>1. state \in States /\ state.name = name
  BY DEF NamedPass
<1>2. /\ state.judged \in Passes /\ state.name \in Boxes /\ state.added \in SUBSET PageCells
  BY <1>1 DEF States
<1>3. cell \in PageCells /\ made \in [label: LabelChoices, under: Boxes]
  BY <1>2 DEF PageCells
<1>4. /\ DOMAIN pass = DOMAIN state.judged \cup {cell}
      /\ \A c \in DOMAIN pass : pass[c] = IF c = cell THEN made ELSE state.judged[c]
  OBVIOUS
<1>5. pass \in Passes
  <2>1. DOMAIN pass \in SUBSET PageCells
    BY <1>2, <1>3, <1>4, APass
  <2>2. \A c \in DOMAIN pass : pass[c] \in [label: LabelChoices, under: Boxes]
    BY <1>2, <1>3, <1>4, APass
  <2>3. pass = [c \in DOMAIN pass |-> pass[c]]
    OBVIOUS
  <2> HIDE DEF pass
  <2>4. pass \in [DOMAIN pass -> [label: LabelChoices, under: Boxes]]
    BY <2>2, <2>3
  <2> QED  BY <2>1, <2>4, APassIs
<1>6. cell[1] = i /\ cell[2] = f /\ made.under = name
  BY <1>1
<1>10. next = Judged(state, i, f, l)
  <2>1. state = [name |-> state.name, judged |-> state.judged, added |-> state.added]
    BY <1>1 DEF States
  <2> QED  BY <2>1 DEF Judged
<1> HIDE DEF pass, cell, made
<1>7. /\ next.judged = pass /\ next.name = name /\ next.added = state.added /\ next \in States
  BY <1>1, <1>2, <1>5 DEF States
<1> HIDE DEF next
<1>8. \A j : Listed(next, j) = Listed(state, j)
  BY <1>7 DEF Listed
<1>9. \A c \in DOMAIN pass : c[2] \in Listed(state, c[1]) /\ pass[c].under \in {name, Unnamed}
  BY <1>4, <1>6 DEF NamedPass
<1>11. NamedPass(name, next) /\ DOMAIN state.judged \subseteq DOMAIN next.judged
  BY <1>4, <1>7, <1>8, <1>9 DEF NamedPass
<1> QED  BY <1>10, <1>11

LEMMA AnAddition ==
  ASSUME NEW name \in Boxes, NEW state, NamedPass(name, state),
         NEW i \in Items, NEW f \in Features,
         NEW next, next = [state EXCEPT !.added = @ \cup {<<i, f>>}]
  PROVE  NamedPass(name, next) /\ next.judged = state.judged
<1>1. state \in States /\ state.name = name /\ <<i, f>> \in PageCells
  BY DEF NamedPass, PageCells
<1>2. /\ next \in States /\ next.name = name /\ next.judged = state.judged
      /\ state.added \subseteq next.added
  BY <1>1 DEF States
<1>3. \A j : Listed(state, j) \subseteq Listed(next, j)
  BY <1>2 DEF Listed
<1> QED  BY <1>2, <1>3 DEF NamedPass

LEMMA ARename ==
  ASSUME NEW name \in Boxes, NEW state, NamedPass(Unnamed, state),
         NEW next, next = [state EXCEPT !.name = name]
  PROVE  NamedPass(name, next) /\ next.judged = state.judged
<1>1. /\ next \in States /\ next.name = name /\ next.judged = state.judged
      /\ next.added = state.added
  BY DEF NamedPass, States
<1>2. \A j : Listed(next, j) = Listed(state, j)
  BY <1>1 DEF Listed
<1> QED  BY <1>1, <1>2 DEF NamedPass

(***************************************************************************)
(* Every step.                                                             *)
(***************************************************************************)
KeepsWork ==
  \A b \in Buckets : \A c \in DOMAIN storage[b].judged :
    \/ /\ Held(storage'[b], c)
       /\ page.name # page'.name => storage'[b].judged[c] = storage[b].judged[c]
    \/ /\ b = Unnamed /\ page'.name # Unnamed
       /\ Held(storage'[page'.name], c)
       /\ storage'[page'.name].judged[c] = storage[b].judged[c]

LEMMA PageInductiveInit == PageInit => PageInductive
<1> SUFFICES ASSUME PageInit
             PROVE  PageInductive
  OBVIOUS
<1>1. active \in Boxes /\ Shelf(storage) /\ ExportsAreSigned /\ page = Loaded(active)
  BY DEF PageInit, Boxes, Shelf, ExportsAreSigned, Loaded
<1>2. NamedPass(active, page)
  BY <1>1, BlankPass DEF PageInit
<1> QED  BY <1>1, <1>2 DEF PageInductive

\* A page saved under its name, with all it had, loses nothing.
LEMMA SavedInPlace ==
  ASSUME PageInductive, NEW state, NamedPass(active, state),
         DOMAIN page.judged \subseteq DOMAIN state.judged,
         Save(state, storage), UNCHANGED exports
  PROVE  PageInductive' /\ KeepsWork
<1>1. /\ PageInductive' /\ page'.name = page.name
      /\ \A b \in Boxes : storage'[b] = IF b = active THEN state ELSE storage[b]
  <2>1. Shelf(storage) /\ active \in Boxes /\ page.name = active
    BY DEF PageInductive, NamedPass
  <2>2. /\ active' \in Boxes /\ Shelf(storage)' /\ NamedPass(active, page)'
        /\ page' = Loaded(active)' /\ page' = state
        /\ \A b \in Boxes : storage'[b] = IF b = active THEN state ELSE storage[b]
    BY <2>1, Saved
  <2>3. ExportsAreSigned'
    BY DEF PageInductive, ExportsAreSigned
  <2> QED  BY <2>1, <2>2, <2>3 DEF PageInductive, NamedPass
<1>2. ASSUME NEW b \in Buckets, NEW c \in DOMAIN storage[b].judged
      PROVE  Held(storage'[b], c)
  <2>1. b \in Boxes /\ storage[b] # NoBucket
    BY DEF Buckets
  <2>2. CASE b # active
    BY <1>1, <2>1, <2>2 DEF Held
  <2>3. CASE b = active
    <3>1. page = storage[b]
      BY <2>1, <2>3, LoadedPass DEF PageInductive
    <3>2. state # NoBucket
      BY DEF NamedPass
    <3> QED  BY <1>1, <2>1, <2>3, <3>1, <3>2 DEF Held
  <2> QED  BY <2>2, <2>3
<1> QED  BY <1>1, <1>2 DEF KeepsWork

LEMMA NothingMoves ==
  ASSUME PageInductive, storage' = storage, active' = active, page' = page, ExportsAreSigned'
  PROVE  PageInductive' /\ KeepsWork
<1>1. PageInductive'
  <2>1. Shelf(storage)' /\ NamedPass(active, page)' /\ page' = Loaded(active)'
    BY DEF PageInductive, Shelf, NamedPass, Loaded, Listed
  <2> QED  BY <2>1 DEF PageInductive
<1>2. KeepsWork
  BY DEF KeepsWork, Held, Buckets
<1> QED  BY <1>1, <1>2

LEMMA ChangesName ==
  ASSUME PageInductive, NEW name \in Boxes, ChangeName(name)
  PROVE  PageInductive' /\ KeepsWork
<1>0. /\ Shelf(storage) /\ active \in Boxes /\ page.name = active /\ name # active
      /\ NamedPass(active, page) /\ ExportsAreSigned'
  <2>1. ExportsAreSigned'
    BY DEF PageInductive, ExportsAreSigned, ChangeName
  <2> QED  BY <2>1 DEF PageInductive, NamedPass, ChangeName
<1>1. CASE storage[name] = NoBucket /\ page.name = Unnamed /\ DOMAIN page.judged # {}
  <2> DEFINE state == [page EXCEPT !.name = name]
             shelf == [storage EXCEPT ![Unnamed] = NoBucket]
  <2>1. Save(state, shelf)
    BY <1>1 DEF ChangeName
  <2>2. NamedPass(name, state) /\ state.judged = page.judged
    BY <1>0, <1>1, ARename
  <2>3. /\ Shelf(shelf)
        /\ \A b \in Boxes : shelf[b] = IF b = Unnamed THEN NoBucket ELSE storage[b]
    BY <1>0 DEF Shelf
  <2> HIDE DEF state, shelf
  <2>4. /\ PageInductive' /\ page' = state /\ page'.name = name
        /\ \A b \in Boxes : storage'[b] = IF b = name THEN state ELSE shelf[b]
    <3>1. /\ active' \in Boxes /\ Shelf(storage)' /\ NamedPass(active, page)'
          /\ page' = Loaded(active)' /\ page' = state
          /\ \A b \in Boxes : storage'[b] = IF b = name THEN state ELSE shelf[b]
      BY <2>1, <2>2, <2>3, Saved
    <3> QED  BY <1>0, <2>2, <3>1 DEF PageInductive, NamedPass
  <2>5. ASSUME NEW b \in Buckets, NEW c \in DOMAIN storage[b].judged, b # Unnamed
        PROVE  storage'[b] = storage[b] /\ storage[b] # NoBucket
    <3>1. b \in Boxes /\ storage[b] # NoBucket /\ b # name
      BY <1>1 DEF Buckets
    <3> QED  BY <2>3, <2>4, <2>5, <3>1
  <2>6. ASSUME NEW c \in DOMAIN storage[Unnamed].judged, storage[Unnamed] # NoBucket
        PROVE  /\ name # Unnamed /\ Held(storage'[name], c)
               /\ storage'[name].judged[c] = storage[Unnamed].judged[c]
    <3>1. page = storage[Unnamed] /\ name # Unnamed
      BY <1>0, <1>1, <2>6, LoadedPass DEF PageInductive
    <3>2. state # NoBucket
      BY <2>2 DEF NamedPass
    <3> QED  BY <2>2, <2>4, <3>1, <3>2 DEF Held
  <2>7. KeepsWork
    BY <2>4, <2>5, <2>6 DEF KeepsWork, Buckets, Held
  <2> QED  BY <2>4, <2>7
<1>2. CASE ~(storage[name] = NoBucket /\ page.name = Unnamed /\ DOMAIN page.judged # {})
  <2>1. Save(Loaded(name), storage)
    BY <1>2 DEF ChangeName
  <2>2. NamedPass(name, Loaded(name)) /\ (storage[name] # NoBucket => Loaded(name) = storage[name])
    BY <1>0, LoadedPass
  <2>3. /\ PageInductive'
        /\ \A b \in Boxes : storage'[b] = IF b = name THEN Loaded(name) ELSE storage[b]
    <3>1. /\ active' \in Boxes /\ Shelf(storage)' /\ NamedPass(active, page)'
          /\ page' = Loaded(active)'
          /\ \A b \in Boxes : storage'[b] = IF b = name THEN Loaded(name) ELSE storage[b]
      BY <1>0, <2>1, <2>2, Saved
    <3> QED  BY <1>0, <3>1 DEF PageInductive
  <2>4. \A b \in Buckets : storage'[b] = storage[b] /\ storage[b] # NoBucket
    BY <2>2, <2>3 DEF Buckets
  <2>5. KeepsWork
    BY <2>4 DEF KeepsWork, Held
  <2> QED  BY <2>3, <2>5
<1> QED  BY <1>1, <1>2

LEMMA EveryPageStep == PageInductive /\ [PageNext]_pageVars => PageInductive' /\ KeepsWork
<1> SUFFICES ASSUME PageInductive, [PageNext]_pageVars
             PROVE  PageInductive' /\ KeepsWork
  OBVIOUS
<1>0. NamedPass(active, page) /\ page.name = active /\ active \in Boxes
  BY DEF PageInductive, NamedPass
<1>1. CASE Open
  BY <1>1, NothingMoves DEF Open, PageInductive, ExportsAreSigned
<1>2. CASE Go
  BY <1>0, <1>2, SavedInPlace DEF Go
<1>3. ASSUME NEW i \in Items, NEW f \in Features, NEW l \in LabelChoices, Judge(i, f, l)
      PROVE  PageInductive' /\ KeepsWork
  <2>1. f \in Listed(page, i) /\ Save(Judged(page, i, f, l), storage) /\ UNCHANGED exports
    BY <1>3 DEF Judge
  <2>2. /\ NamedPass(active, Judged(page, i, f, l))
        /\ DOMAIN page.judged \subseteq DOMAIN Judged(page, i, f, l).judged
    BY <1>0, <2>1, AJudgment
  <2> QED  BY <2>1, <2>2, SavedInPlace
<1>4. ASSUME NEW i \in Items, NEW f \in Features, AddFeature(i, f)
      PROVE  PageInductive' /\ KeepsWork
  <2> DEFINE state == [page EXCEPT !.added = @ \cup {<<i, f>>}]
  <2>1. Save(state, storage) /\ UNCHANGED exports
    BY <1>4 DEF AddFeature
  <2>2. NamedPass(active, state) /\ state.judged = page.judged
    BY <1>0, AnAddition
  <2> QED  BY <2>1, <2>2, SavedInPlace
<1>5. ASSUME NEW name \in Boxes, ChangeName(name)
      PROVE  PageInductive' /\ KeepsWork
  BY <1>5, ChangesName
<1>6. CASE Export
  <2>1. ExportsAreSigned'
    BY <1>0, <1>6 DEF Export, PageInductive, ExportsAreSigned, NamedPass
  <2> QED  BY <1>6, <2>1, NothingMoves DEF Export
<1>7. CASE UNCHANGED pageVars
  BY <1>7, NothingMoves DEF pageVars, PageInductive, ExportsAreSigned
<1> QED  BY <1>1, <1>2, <1>3, <1>4, <1>5, <1>6, <1>7 DEF PageNext

\* Every reachable state of the page and of the storage behind it.
THEOREM PageInvariance == PageSpec => []PageInductive
  BY PageInductiveInit, EveryPageStep, PTL DEF PageSpec

(***************************************************************************)
(* The theorems.                                                           *)
(***************************************************************************)
\* Buckets carry their names and every judgment is of a listed feature.
THEOREM PageTypeCorrect == PageSpec => []PageTypeOK
<1>1. PageInductive => PageTypeOK
  BY DEF PageInductive, PageTypeOK, NamedPass, Shelf, Buckets
<1> QED  BY <1>1, PageInvariance, PTL

\* A reload at any time shows what was on the page.
THEOREM ThePageIsSaved == PageSpec => []PageIsSaved
<1>1. PageInductive => PageIsSaved
  BY DEF PageInductive, PageIsSaved, NamedPass
<1> QED  BY <1>1, PageInvariance, PTL

\* However many annotators share the browser, no named judgment is in another
\* annotator's pass or export.
THEOREM NamedWorkStays == PageSpec => []NamedWorkStaysPut
<1>1. PageInductive => NamedWorkStaysPut
  BY DEF PageInductive, NamedWorkStaysPut, NamedPass, Shelf, Buckets, ExportsAreSigned
<1> QED  BY <1>1, PageInvariance, PTL

\* No change of names, reload or click ever loses a saved judgment.
THEOREM WorkStaysKept == PageSpec => WorkIsKept
<1>1. PageInductive /\ [PageNext]_pageVars => KeepsWork
  BY EveryPageStep
<1>2. WorkIsKept <=> [][KeepsWork]_pageVars
  BY DEF WorkIsKept, KeepsWork
<1> QED  BY <1>1, <1>2, PageInvariance, PTL DEF PageSpec
===============================================================================
