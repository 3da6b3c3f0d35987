--------------------------------- MODULE Audit ---------------------------------
(***************************************************************************)
(* The extractor audit behind gate EXP-G-001: a blind batch is drawn from  *)
(* a run (tools/build_audit_batch.py), two annotators answer it in chunks, *)
(* their disputes may be adjudicated, and each version of the extractor is *)
(* scored against them and gets its token (tools/score_audit_gate.py,      *)
(* tools/reextract_llm_assisted.py, orchestration/extractor_gate.py).      *)
(*                                                                         *)
(* An item stands for the explanation it was drawn from: an <<instance,    *)
(* generator>> pair.  Which label a text deserves, what a version of the   *)
(* extractor reads in it and which features are drawn as decoys are free   *)
(* choices.  An answer, once saved, stays (the protocol's "the annotation  *)
(* is fixed"); a reply file that answers an item twice is left out.        *)
(***************************************************************************)
EXTENDS Agreement, Sequences, Functions, FiniteSetsExt

CONSTANTS
  Explanations,   \* the run's <<instance, generator>> pairs, in order
  Quota,          \* DEFAULT_STRATA: how many of each generator
  Vocabulary,     \* the feature vocabulary
  Mentioned,      \* the features each explanation matches leniently
  ClaimedInRun,   \* ... and those the run's own extractor claimed
  Decoys,         \* unmentioned features added to an item
  Replies,        \* what each annotator may answer: partial maps to labels
  Rulings,        \* the labels an adjudicator may give
  Readings,       \* what an extractor may read: partial maps to claims
  MaxVersion, MaxBatches, MaxTokens,
  None

Annotators == 1..2
Drawable == Range(Explanations)
Generator(e) == e[2]

ASSUME AuditAssumption ==
  /\ Explanations \in Seq(Drawable)
  /\ MaxVersion \in Nat \ {0}
  /\ IsFiniteSet(Vocabulary)
  /\ DOMAIN Quota = {Generator(e) : e \in Drawable}
  /\ \A e \in Drawable : Mentioned[e] \cup ClaimedInRun[e] \subseteq Vocabulary
  /\ \A a \in Annotators : \A r \in Replies[a] :
       r # None /\ IsFiniteSet(DOMAIN r) /\ \A f \in DOMAIN r : r[f] \in Labels

VARIABLES
  batch,         \* the items of the current batch
  candidates,    \* their candidate features
  drawn,         \* the batches drawn so far, each with its audit key, in order
  version,       \* eval_extractor.yaml's version
  key,           \* extractor_claims_<version>_llm of each item, or None
  replies,       \* the answer of each annotator to each item, or None
  adjudicated,   \* the adjudication file
  tokens         \* runs/EXP-G-001

annotation == <<replies, adjudicated>>
vars == <<batch, candidates, drawn, version, key, annotation, tokens>>

(***************************************************************************)
(* build_audit_batch.                                                      *)
(***************************************************************************)
Smaller(a, b) == IF a < b THEN a ELSE b

\* sample: the registered number of each generator, or all there are.
Sampled(pool) ==
  {S \in SUBSET pool :
     \A g \in DOMAIN Quota :
       Cardinality({e \in S : Generator(e) = g})
         = Smaller(Quota[g], Cardinality({e \in pool : Generator(e) = g}))}

\* candidates_for, and build_items' decoys.
CandidateSets(e) ==
  LET listed == Mentioned[e] \cup ClaimedInRun[e]
      rest == Vocabulary \ listed
  IN {listed \cup D : D \in kSubset(Smaller(Decoys, Cardinality(rest)), rest)}

NoKey == [v \in 1..MaxVersion |-> [e \in Drawable |-> None]]

\* One draw from what is not excluded.
Draw(excluded) ==
  \E S \in Sampled(Drawable \ excluded) :
    /\ S # {}
    /\ batch' = S
    /\ candidates' \in {f \in [S -> SUBSET Vocabulary] :
                          \A e \in S : f[e] \in CandidateSets(e)}

\* A new batch starts its own annotation.  The operator names the earlier keys to
\* hold out, none, some or all of them: without them an explanation, or the whole
\* batch, is drawn again.
Build ==
  /\ Len(drawn) < MaxBatches
  /\ \E keys \in SUBSET Range(drawn) : Draw(UNION keys)
  /\ drawn' = Append(drawn, batch')
  /\ key' = NoKey
  /\ replies' = [a \in Annotators |-> [e \in Drawable |-> None]]
  /\ adjudicated' = NoFallback
  /\ UNCHANGED <<version, tokens>>

(***************************************************************************)
(* Annotation.                                                             *)
(***************************************************************************)
\* A chunk's reply is saved: here one item is one chunk.
Answer(a, i) ==
  /\ i \in batch /\ replies[a][i] = None
  /\ \E r \in Replies[a] : replies' = [replies EXCEPT ![a][i] = r]
  /\ UNCHANGED <<batch, candidates, drawn, version, key, adjudicated, tokens>>

\* load_pass: the labels of every reply there is.
PassOf(a) ==
  LET answered == {i \in batch : replies[a][i] # None}
      cells == UNION {{<<i, f>> : f \in DOMAIN replies[a][i]} : i \in answered}
  IN [c \in cells |-> replies[a][c[1]][c[2]]]

\* validate_llm_annotations: every item answered, from the vocabulary.
Validates(a) ==
  \A i \in batch : /\ replies[a][i] # None
                   /\ DOMAIN replies[a][i] \subseteq Vocabulary

HasFiles(a) == \E i \in batch : replies[a][i] # None

AllCells == Cells(batch, candidates, {PassOf(1), PassOf(2)})

\* A person adds a label for a disputed cell to the adjudication file.
Adjudicate ==
  /\ HasFiles(1) /\ HasFiles(2)
  /\ \E c \in Disputed(AllCells, PassOf(1), PassOf(2)) \ DOMAIN adjudicated :
     \E l \in Rulings :
       adjudicated' = [d \in DOMAIN adjudicated \cup {c} |->
                         IF d = c THEN l ELSE adjudicated[d]]
  /\ UNCHANGED <<batch, candidates, drawn, version, key, replies, tokens>>

(***************************************************************************)
(* The instrument.                                                         *)
(***************************************************************************)
\* The extractor is revised: a semver bump.
Iterate ==
  /\ version < MaxVersion
  /\ version' = version + 1
  /\ UNCHANGED <<batch, candidates, drawn, key, annotation, tokens>>

\* items[:n].  The order of the items is a shuffle nothing else depends on; the
\* run's own order stands for it.
Before(d, e) ==
  \E j \in 1..Len(Explanations) :
    Explanations[j] = e /\ \E i \in 1..(j - 1) : Explanations[i] = d

First(n) == {e \in batch : Cardinality({d \in batch : Before(d, e)}) < n}

\* Bug: the claims are stored under one name for every version.
ReExtractInPlace(n) ==
  /\ n \in 1..Cardinality(batch)
  /\ \E read \in [First(n) -> Readings] :
       key' = [v \in 1..MaxVersion |->
                 [e \in Drawable |-> IF e \in DOMAIN read THEN read[e] ELSE key[v][e]]]
  /\ UNCHANGED <<batch, candidates, drawn, version, annotation, tokens>>

\* reextract_llm_assisted, with --limit n: the first n items through the
\* current version.  Its ledger answers what this version was already asked.
ReExtract(n) ==
  /\ n \in 1..Cardinality(batch)
  /\ \E read \in [First(n) -> Readings] :
       /\ \A e \in DOMAIN read : key[version][e] \in {None, read[e]}
       /\ key' = [key EXCEPT ![version] =
                    [e \in Drawable |-> IF e \in DOMAIN read THEN read[e] ELSE @[e]]]
  /\ UNCHANGED <<batch, candidates, drawn, version, annotation, tokens>>

\* pred_parsed: directional claims, defaults left out.
Predicted(claims) ==
  {p \in (batch \X Vocabulary) \X Directional :
     LET c == claims[p[1][1]]  f == p[1][2]
     IN f \in DOMAIN c /\ c[f].direction = p[2] /\ c[f].evidence # "default"}

\* With no directional claim at all default_share divides by zero.
SomeDirectional(claims) ==
  \E i \in batch : \E f \in DOMAIN claims[i] : claims[i][f].direction \in Directional

\* score_audit_gate --write-run, on the current version's claims: a missing
\* pass or a missing item of the key stops it.  The claims are an artifact of
\* the token's run.
Score ==
  /\ Cardinality(tokens) < MaxTokens
  /\ HasFiles(1) /\ HasFiles(2)
  /\ \A i \in batch : key[version][i] # None
  /\ SomeDirectional(key[version])
  /\ LET A == PassOf(1)  B == PassOf(2)  cells == AllCells
     IN tokens' = tokens \cup
          {[version |-> version, batch |-> Len(drawn),
            claims |-> [i \in batch |-> key[version][i]],
            passed |-> Verdict(cells, A, B, adjudicated, Predicted(key[version]))]}
  /\ UNCHANGED <<batch, candidates, drawn, version, key, annotation>>

Init ==
  /\ batch = {} /\ candidates = [e \in {} |-> {}] /\ drawn = <<>>
  /\ version = 1 /\ key = NoKey
  /\ replies = [a \in Annotators |-> [e \in Drawable |-> None]]
  /\ adjudicated = NoFallback
  /\ tokens = {}

Next ==
  \/ Build
  \/ \E a \in Annotators, i \in Drawable : Answer(a, i)
  \/ Adjudicate
  \/ Iterate
  \/ \E n \in 1..Len(Explanations) : ReExtract(n)
  \/ Score

Spec == Init /\ [][Next]_vars

(***************************************************************************)
(* Properties.                                                             *)
(***************************************************************************)
\* Who is called the first annotator changes nothing: verdict and decidedness
\* are the same for the passes swapped, and so are both statistics of passes
\* that answer every item (score_audit_gate.py).
VerdictIsSymmetric ==
  LET A == PassOf(1)  B == PassOf(2)  cells == AllCells
  IN /\ \A v \in 1..MaxVersion :
          (\A i \in batch : key[v][i] # None) =>
            LET P == Predicted(key[v])
            IN Verdict(cells, A, B, adjudicated, P) = Verdict(cells, B, A, adjudicated, P)
     /\ (\A a \in Annotators : Validates(a)) =>
          Kappa(cells, A, B) = Kappa(cells, B, A) /\ Alpha(cells, A, B) = Alpha(cells, B, A)

\* Once every dispute is adjudicated the tool declares a verdict, whatever the
\* extractor claims (score_audit_gate.py:26-28).
AdjudicationDecides ==
  LET A == PassOf(1)  B == PassOf(2)  cells == AllCells
  IN Disputed(cells, A, B) \subseteq DOMAIN adjudicated =>
       \A v \in 1..MaxVersion :
         (\A i \in batch : key[v][i] # None) =>
           Decided(cells, A, B, adjudicated, Predicted(key[v]))

\* The items every pass answered, the only ones compare_annotations looks at.
Shared == {i \in batch : \A a \in Annotators : replies[a][i] # None}

\* compare_annotations' report on the shared items: a pass without a label is
\* none, and with fewer than two passes there is no comparison.
Compared == \A a \in Annotators : DOMAIN PassOf(a) # {}

Comparison ==
  LET A == PassOf(1)  B == PassOf(2)  units == Cells(Shared, candidates, {A, B})
  IN [n_items |-> Cardinality(Shared),
      n_units |-> Cardinality(units),
      pairwise |-> Kappa(units, A, B),
      krippendorff_alpha |-> Alpha(units, A, B),
      disagreements |-> Disputed(units, A, B)]

\* On validated passes the gate and compare_annotations report the same: the
\* comparison leaves no item out, its disagreements are exactly the cells to
\* adjudicate, a feature only one annotator names among them, and its kappa is 1
\* exactly when nothing is left to adjudicate.
ToolsAgree ==
  Compared /\ (\A a \in Annotators : Validates(a)) =>
    LET report == Comparison  cells == AllCells
    IN /\ report.n_items = Cardinality(batch)
       /\ report.n_units = Cardinality(cells)
       /\ report.disagreements = Disputed(cells, PassOf(1), PassOf(2))
       /\ report.disagreements
            = {c \in batch \X Vocabulary :
                 LET said(a) == IF c[2] \in DOMAIN replies[a][c[1]]
                                THEN replies[a][c[1]][c[2]] ELSE "absent"
                 IN said(1) # said(2)}
       /\ report.disagreements = {} <=> report.pairwise[1] = report.pairwise[2]

\* A token's claims are what the audit key still holds for its version, and
\* with the disputes settled its verdict can be computed again from them
\* (reextract: "stored beside the original claims rather than replacing them").
TokensKeepTheirClaims ==
  \A t \in tokens :
    t.batch = Len(drawn) => \A i \in batch : key[t.version][i] = t.claims[i]

\* "When both extremes fall the same side of the threshold, adjudication cannot
\* change the verdict and the tool says so" (score_audit_gate.py:25): a batch
\* decided without an adjudication keeps its verdict when a person then takes
\* one of the two annotators' labels for every dispute.
DecidedIsFinal ==
  LET A == PassOf(1)  B == PassOf(2)  claims == key[version]
  IN /\ \A a \in Annotators : Validates(a)
     /\ \A i \in batch : claims[i] # None
     /\ DOMAIN adjudicated = Disputed(AllCells, A, B)
     /\ \A c \in DOMAIN adjudicated : adjudicated[c] \in {ValueOf(A, c), ValueOf(B, c)}
     /\ Decided(AllCells, A, B, NoFallback, Predicted(claims))
     => Verdict(AllCells, A, B, adjudicated, Predicted(claims))
          = Verdict(AllCells, A, B, NoFallback, Predicted(claims))
===============================================================================
