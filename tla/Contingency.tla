------------------------------ MODULE Contingency ------------------------------
(***************************************************************************)
(* The pre-registered class-handling contingency as pure operators         *)
(* (detectors/contingency.py), the competence gate it stands beside        *)
(* (detectors/competence.py) and the structural rules of the taxonomy      *)
(* (orchestration/validate_configs.py).                                    *)
(*                                                                         *)
(* A taxonomy is a record: "classes" the canonical classes (their order,   *)
(* which only fixes column numbers, is left out), "label" the raw labels'  *)
(* targets, "parent" the lineage map, "version" its major version.         *)
(* A competence table maps the classes it has a row for to                 *)
(* [recall, n]: recall "ok", "low" (below the floor) or "none" (a class    *)
(* that was predicted but has no true instance).                           *)
(***************************************************************************)
EXTENDS Integers, FiniteSets

CONSTANTS
  Benign,          \* BENIGN_CLASS: never merged, never excluded
  Attack,          \* the only other class of the binary rung
  Excluded,        \* the label_map sentinel
  MinSupport,      \* detector_class_min_support
  FailurePercent,  \* contingency_class_failure_fraction, in percent
  MinAttack        \* contingency_min_attack_classes

ASSUME ContingencyAssumption ==
  /\ Benign # Excluded /\ Benign # Attack
  /\ MinSupport \in Nat /\ MinAttack \in Nat /\ FailurePercent \in Nat

Leaf == 1
ParentMerged == 2
Excluding == 3
BinaryRung == 4

EmptyMap == [c \in {} |-> c]

(***************************************************************************)
(* The competence gate.                                                    *)
(***************************************************************************)
\* multiclass_classification_table: "support" are the true instances of each
\* class on the competence split, "hit" the classes whose recall reaches the
\* floor, "guessed" those the detector predicts at least once.  Only classes
\* that occur on either side get a row.
ClassificationTable(support, hit, guessed) ==
  [c \in {d \in DOMAIN support : support[d] > 0} \cup guessed |->
     [n |-> support[c],
      recall |-> IF support[c] = 0 THEN "none"
                 ELSE IF c \in hit THEN "ok" ELSE "low"]]

\* evaluate_competence, with the empty exemption list Tier-A requires: it goes
\* over the rows of the table.
GatePasses(table, macroOk) ==
  /\ macroOk
  /\ \A c \in DOMAIN table \ {Benign} :
       table[c].recall = "ok" /\ table[c].n >= MinSupport

(***************************************************************************)
(* resolve.                                                                *)
(***************************************************************************)
\* failing_classes goes over the vocabulary: an absent class has n = 0.
FailingClasses(table, attacks) ==
  {c \in attacks : \/ c \notin DOMAIN table
                   \/ table[c].recall # "ok"
                   \/ table[c].n < MinSupport}

ParentOf(parent, c) == IF c \in DOMAIN parent THEN parent[c] ELSE c

\* Bug: a failing class is merged without its siblings.
MergeAlone(failing, parent) ==
  [c \in {f \in failing \cap DOMAIN parent : parent[f] # f} |-> parent[c]]

\* _merge_groups: whole lineage groups, siblings outside the fit included.
MergeGroups(failing, parent) ==
  LET grouped == {ParentOf(parent, f) : f \in {g \in failing : ParentOf(parent, g) # g}}
  IN [c \in {d \in DOMAIN parent : parent[d] \in grouped} |-> parent[c]]

\* _vocabulary, and the same fold over the canonical classes.
Folded(classes, merges, exclusions) ==
  {ParentOf(merges, c) : c \in classes \ exclusions}

Decide(rung, changed, vocabulary, merges, exclusions, failing, stats) ==
  [rung |-> rung, changed |-> changed, vocabulary |-> vocabulary,
   merges |-> merges, exclusions |-> exclusions, failing |-> failing,
   defect |-> failing = {} /\ ~stats.macroOk, stats |-> stats]

\* _binary: the terminal rung, a negative finding.
BinaryDecision(failing, stats) ==
  Decide(BinaryRung, TRUE, {Benign, Attack}, EmptyMap,
         stats.vocabulary \ {Benign}, failing, stats)

\* Below the trigger: every failing class in one pass.
ResolveInOnePass(failing, tax, stats) ==
  LET merges == MergeGroups(failing, tax.parent)
      exclusions == {c \in failing : ParentOf(tax.parent, c) = c}
      vocab == Folded(stats.vocabulary, merges, exclusions)
  IN IF exclusions = {}
     THEN Decide(ParentMerged, TRUE, vocab, merges, {}, failing, stats)
     ELSE IF Cardinality(vocab \ {Benign}) < MinAttack
     THEN BinaryDecision(failing, stats)
     ELSE Decide(Excluding, TRUE, vocab, merges, exclusions, failing, stats)

\* At the trigger: every available fold, from the leaf rung only.
DescendARung(failing, tax, stats) ==
  LET merges == MergeGroups(DOMAIN tax.parent, tax.parent)
  IN IF stats.rung = Leaf
     THEN Decide(ParentMerged, merges # EmptyMap,
                 Folded(stats.vocabulary, merges, {}), merges, {}, failing, stats)
     ELSE BinaryDecision(failing, stats)

\* resolve, below the terminal rung, where it raises ContingencyExhausted.
Resolve(table, macroOk, tax, vocabulary, rung) ==
  LET attacks == vocabulary \ {Benign}
      failing == FailingClasses(table, attacks)
      stats == [rung |-> rung, vocabulary |-> vocabulary, macroOk |-> macroOk,
                absent |-> tax.classes \ vocabulary]
  IN IF failing = {}
     THEN Decide(rung, FALSE, vocabulary, EmptyMap, {}, {}, stats)
     ELSE IF 100 * Cardinality(failing) >= FailurePercent * Cardinality(attacks)
     THEN DescendARung(failing, tax, stats)
     ELSE ResolveInOnePass(failing, tax, stats)

(***************************************************************************)
(* apply_to_taxonomy.                                                      *)
(***************************************************************************)
\* Bug: "missing" and "unknown" are not looked at.
ApplicableUnchecked(tax, d) == d.changed /\ d.rung # BinaryRung

\* The decisions it does not raise on.
Applicable(tax, d) ==
  /\ d.changed /\ d.rung # BinaryRung
  /\ d.exclusions \cup DOMAIN d.merges \subseteq tax.classes
  /\ d.vocabulary \subseteq Folded(tax.classes, d.merges, d.exclusions)

\* Bug: the raw labels of an excluded class are dropped from the map.
RelabelSurvivors(tax, d) ==
  [r \in {q \in DOMAIN tax.label : tax.label[q] \notin d.exclusions} |->
     ParentOf(d.merges, tax.label[r])]

\* label_map: no raw label is dropped.
Relabel(tax, d) ==
  [r \in DOMAIN tax.label |->
     IF tax.label[r] \in {Excluded} \cup d.exclusions
     THEN Excluded ELSE ParentOf(d.merges, tax.label[r])]

\* parents: survivors keep theirs while two of the group survive.
Reparent(tax, d, classes) ==
  [c \in classes |->
     LET p == ParentOf(tax.parent, c)
     IN IF Cardinality({s \in classes : ParentOf(tax.parent, s) = p}) >= 2
        THEN p ELSE c]

ApplyToTaxonomy(tax, d) ==
  LET classes == Folded(tax.classes, d.merges, d.exclusions)
  IN [classes |-> classes, label |-> Relabel(tax, d),
      parent |-> Reparent(tax, d, classes), version |-> tax.version + 1]

(***************************************************************************)
(* What validate-configs asks of a taxonomy.                               *)
(***************************************************************************)
\* _parent_map_errors finds nothing: total, merge-only, BENIGN its own parent.
ParentMapValid(tax) ==
  /\ DOMAIN tax.parent = tax.classes
  /\ \A c \in tax.classes :
       IF tax.parent[c] \in tax.classes
       THEN tax.parent[c] = c
       ELSE \E s \in tax.classes \ {c} : tax.parent[s] = tax.parent[c]
  /\ Benign \in tax.classes => tax.parent[Benign] = Benign

\* _check_references of a taxonomy: no dangling target, no orphan class.
LabelMapValid(tax) ==
  LET targets == {tax.label[r] : r \in DOMAIN tax.label}
  IN targets \subseteq tax.classes \cup {Excluded} /\ tax.classes \subseteq targets

TaxonomyValid(tax) == ParentMapValid(tax) /\ LabelMapValid(tax)

\* ... and of the attack-class KB: every entry still has a mapping.
KbCovered(tax, entries) == entries \subseteq DOMAIN tax.label
===============================================================================
