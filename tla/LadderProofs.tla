----------------------------- MODULE LadderProofs -----------------------------
(***************************************************************************)
(* Theorems about the contingency ladder, for any registered taxonomy,     *)
(* dataset, detector families, thresholds and budgets: first the decisions *)
(* and their application, then the explained set.                          *)
(***************************************************************************)
EXTENDS Ladder, FiniteSetTheorems, TLAPS

(***************************************************************************)
(* What a decision resolved on taxonomy t for vocabulary V does to t.      *)
(***************************************************************************)
\* Whole lineage groups are merged under their parent, which is no class;
\* classes without a lineage are excluded, BENIGN never; something is merged
\* or excluded.
Folds(t, V, d) ==
  /\ DOMAIN d.merges \subseteq t.classes
  /\ \A c \in DOMAIN d.merges : d.merges[c] = t.parent[c] /\ t.parent[c] # c
  /\ \A c \in t.classes, m \in DOMAIN d.merges :
       t.parent[c] = t.parent[m] => c \in DOMAIN d.merges
  /\ Benign \notin d.exclusions /\ d.exclusions \subseteq V
  /\ \A c \in d.exclusions : ParentOf(t.parent, c) = c
  /\ d.exclusions # {} \/ DOMAIN d.merges # {}
  /\ d.vocabulary = Folded(V, d.merges, d.exclusions)
  /\ d.stats.vocabulary = V /\ d.stats.absent = t.classes \ V

LEMMA MergesAreGroups ==
  ASSUME NEW t, ParentMapValid(t), NEW failing
  PROVE  LET merges == MergeGroups(failing, t.parent)
         IN /\ DOMAIN merges \subseteq t.classes
            /\ \A c \in DOMAIN merges : merges[c] = t.parent[c] /\ t.parent[c] # c
            /\ \A c \in t.classes, m \in DOMAIN merges :
                 t.parent[c] = t.parent[m] => c \in DOMAIN merges
            /\ \A f \in failing : ParentOf(t.parent, f) # f => f \in DOMAIN merges
<1> DEFINE grouped == {ParentOf(t.parent, f) : f \in {g \in failing : ParentOf(t.parent, g) # g}}
           group == {d \in DOMAIN t.parent : t.parent[d] \in grouped}
<1>1. MergeGroups(failing, t.parent) = [c \in group |-> t.parent[c]]
  BY DEF MergeGroups
<1>2. \A p \in grouped : \E f \in t.classes : t.parent[f] = p /\ p # f
  BY DEF ParentOf, ParentMapValid
<1>3. \A p \in grouped : p \notin t.classes
  <2> SUFFICES ASSUME NEW p \in grouped, p \in t.classes PROVE FALSE
    OBVIOUS
  <2>1. PICK f \in t.classes : t.parent[f] = p /\ p # f
    BY <1>2
  <2> HIDE DEF grouped
  <2> QED
    BY <2>1 DEF ParentMapValid
<1>4. \A f \in failing : ParentOf(t.parent, f) # f => f \in group
  BY DEF ParentOf
<1> HIDE DEF grouped
<1>5. DOMAIN t.parent = t.classes
  BY DEF ParentMapValid
<1> QED
  BY <1>1, <1>3, <1>4, <1>5

\* Every decision that changes the vocabulary and is not terminal is a fold.
LEMMA DecisionsFold ==
  ASSUME NEW t, ParentMapValid(t), NEW table, NEW macroOk, NEW V, NEW rung,
         NEW d, d = Resolve(table, macroOk, t, V, rung),
         d.changed, d.rung # BinaryRung
  PROVE  Folds(t, V, d)
<1> DEFINE failing == FailingClasses(table, V \ {Benign})
           stats == [rung |-> rung, vocabulary |-> V, macroOk |-> macroOk,
                     absent |-> t.classes \ V]
<1>1. failing \subseteq V \ {Benign}
  BY DEF FailingClasses
<1>2. failing # {}
  BY DEF Resolve, Decide
<1>3. \A f : LET m == MergeGroups(f, t.parent)
              IN /\ DOMAIN m \subseteq t.classes
                 /\ \A c \in DOMAIN m : m[c] = t.parent[c] /\ t.parent[c] # c
                 /\ \A c \in t.classes, x \in DOMAIN m :
                      t.parent[c] = t.parent[x] => c \in DOMAIN m
  BY MergesAreGroups
<1>4. BinaryDecision(failing, stats).rung = BinaryRung
  BY DEF BinaryDecision, Decide
<1>5. CASE d = DescendARung(failing, t, stats)
  <2> DEFINE merges == MergeGroups(DOMAIN t.parent, t.parent)
             vocab == Folded(V, merges, {})
  <2>1. d = Decide(ParentMerged, merges # EmptyMap, vocab, merges, {}, failing, stats)
    <3>1. stats.vocabulary = V
      OBVIOUS
    <3> HIDE DEF failing, stats
    <3> QED
      BY <1>4, <1>5, <3>1 DEF DescendARung
  <2>2. merges = [c \in DOMAIN merges |-> merges[c]]
    BY DEF MergeGroups
  <2> HIDE DEF merges, vocab, failing
  <2>3. /\ d.merges = merges /\ d.exclusions = {} /\ merges # EmptyMap
        /\ d.vocabulary = vocab /\ d.stats = stats
    <3> HIDE DEF stats
    <3>1. PICK changed \in BOOLEAN : changed = (merges # EmptyMap)
      OBVIOUS
    <3>2. d = Decide(ParentMerged, changed, vocab, merges, {}, failing, stats)
      BY <2>1, <3>1
    <3>3. /\ d.merges = merges /\ d.exclusions = {} /\ d.changed = changed
          /\ d.vocabulary = vocab /\ d.stats = stats
      BY <3>2 DEF Decide
    <3> QED
      BY <3>1, <3>3
  <2>4. DOMAIN merges # {}
    BY <2>2, <2>3 DEF EmptyMap
  <2>5. /\ DOMAIN merges \subseteq t.classes
        /\ \A c \in DOMAIN merges : merges[c] = t.parent[c] /\ t.parent[c] # c
        /\ \A c \in t.classes, x \in DOMAIN merges :
             t.parent[c] = t.parent[x] => c \in DOMAIN merges
    BY <1>3 DEF merges
  <2>6. stats.vocabulary = V /\ stats.absent = t.classes \ V
    OBVIOUS
  <2> HIDE DEF stats
  <2> QED
    BY <2>3, <2>4, <2>5, <2>6 DEF Folds, vocab
<1>6. CASE d = ResolveInOnePass(failing, t, stats)
  <2> DEFINE merges == MergeGroups(failing, t.parent)
             exclusions == {c \in failing : ParentOf(t.parent, c) = c}
             vocab == Folded(V, merges, exclusions)
  <2>1. stats.vocabulary = V /\ stats.absent = t.classes \ V
    OBVIOUS
  <2>2. exclusions # {} \/ DOMAIN merges # {}
    BY <1>2, MergesAreGroups
  <2>3. /\ DOMAIN merges \subseteq t.classes
        /\ \A c \in DOMAIN merges : merges[c] = t.parent[c] /\ t.parent[c] # c
        /\ \A c \in t.classes, x \in DOMAIN merges :
             t.parent[c] = t.parent[x] => c \in DOMAIN merges
    BY <1>3
  <2>4. exclusions \subseteq failing /\ \A c \in exclusions : ParentOf(t.parent, c) = c
    OBVIOUS
  <2>5. \/ exclusions = {} /\ d = Decide(ParentMerged, TRUE, vocab, merges, {}, failing, stats)
        \/ d = Decide(Excluding, TRUE, vocab, merges, exclusions, failing, stats)
    <3> HIDE DEF failing, stats
    <3> QED
      BY <1>4, <1>6, <2>1 DEF ResolveInOnePass
  <2> HIDE DEF merges, exclusions, vocab, failing, stats
  <2>6. d.merges = merges /\ d.exclusions = exclusions /\ d.vocabulary = vocab /\ d.stats = stats
    BY <2>5 DEF Decide
  <2> QED
    BY <1>1, <2>1, <2>2, <2>3, <2>4, <2>6 DEF Folds, vocab
<1> QED
  BY <1>2, <1>5, <1>6 DEF Resolve

(***************************************************************************)
(* The taxonomy a fold gives.                                              *)
(***************************************************************************)
\* Its classes: those neither merged nor excluded, and the parents of the
\* merged ones, which are new.
LEMMA FoldedClasses ==
  ASSUME NEW t, ParentMapValid(t), NEW V, NEW d, Folds(t, V, d)
  PROVE  /\ \A m \in DOMAIN d.merges : t.parent[m] \notin t.classes
         /\ \A c : c \in Folded(t.classes, d.merges, d.exclusions) <=>
              \/ c \in t.classes /\ c \notin d.exclusions /\ c \notin DOMAIN d.merges
              \/ \E m \in DOMAIN d.merges : c = t.parent[m]
<1>1. \A m \in DOMAIN d.merges : m \in t.classes /\ m \in DOMAIN t.parent
  BY DEF Folds, ParentMapValid
<1>2. \A m \in DOMAIN d.merges : t.parent[m] \notin t.classes
  BY <1>1 DEF Folds, ParentMapValid
<1>3. \A m \in DOMAIN d.merges : m \notin d.exclusions
  BY <1>1 DEF Folds, ParentOf
<1>4. \A c \in t.classes : ParentOf(d.merges, c)
        = IF c \in DOMAIN d.merges THEN t.parent[c] ELSE c
  BY DEF Folds, ParentOf
<1>5. \A c : c \in Folded(t.classes, d.merges, d.exclusions) <=>
        \E x \in t.classes \ d.exclusions : c = ParentOf(d.merges, x)
  BY DEF Folded
<1> QED
  BY <1>1, <1>2, <1>3, <1>4, <1>5

\* The lineage of what is left: a class keeps a parent that is still no class,
\* or is its own.
LEMMA LineageIsKept ==
  ASSUME NEW t, ParentMapValid(t), NEW V, NEW d, Folds(t, V, d)
  PROVE  LET new == ApplyToTaxonomy(t, d)
         IN \A c \in new.classes :
              new.parent[c] # c => /\ c \in t.classes /\ new.parent[c] = t.parent[c]
                                   /\ new.parent[c] \notin t.classes
                                   /\ new.parent[c] \notin new.classes
<1> DEFINE new == ApplyToTaxonomy(t, d)
<1>1. new.classes = Folded(t.classes, d.merges, d.exclusions)
  BY DEF ApplyToTaxonomy
<1>2. \A c \in new.classes : new.parent[c] \in {ParentOf(t.parent, c), c}
  BY DEF ApplyToTaxonomy, Reparent
<1> HIDE DEF new
<1> SUFFICES ASSUME NEW c \in new.classes, new.parent[c] # c
             PROVE  /\ c \in t.classes /\ new.parent[c] = t.parent[c]
                    /\ new.parent[c] \notin t.classes
                    /\ new.parent[c] \notin new.classes
  BY DEF new
<1>3. c \in t.classes /\ new.parent[c] = t.parent[c] /\ t.parent[c] # c
  BY <1>2 DEF ParentOf, ParentMapValid
<1>4. t.parent[c] \notin t.classes
  BY <1>3 DEF ParentMapValid
<1>5. c \notin DOMAIN d.merges
  BY <1>1, <1>3, FoldedClasses
<1>6. \A m \in DOMAIN d.merges : t.parent[m] # t.parent[c]
  BY <1>3, <1>5 DEF Folds
<1>7. t.parent[c] \notin new.classes
  BY <1>1, <1>4, <1>6, FoldedClasses
<1> QED
  BY <1>3, <1>4, <1>7

LEMMA NotAlone ==
  ASSUME NEW S, NEW c \in S, Cardinality(S) >= 2
  PROVE  \E s \in S : s # c
<1>1. CASE S = {c}
  <2>1. Cardinality(S) = 1
    BY <1>1, FS_Singleton
  <2> QED
    BY <2>1
<1>2. CASE S # {c}
  BY <1>2
<1> QED
  BY <1>1, <1>2

\* apply_to_taxonomy keeps every rule validate-configs has.
LEMMA AppliedIsValid ==
  ASSUME NEW t, TaxonomyValid(t), Excluded \notin t.classes, Benign \in t.classes,
         NEW V, V \subseteq t.classes, NEW d, Folds(t, V, d)
  PROVE  TaxonomyValid(ApplyToTaxonomy(t, d))
<1> DEFINE new == ApplyToTaxonomy(t, d)
           kin(c) == {s \in new.classes : ParentOf(t.parent, s) = ParentOf(t.parent, c)}
<1>1. ParentMapValid(t) /\ LabelMapValid(t)
  BY DEF TaxonomyValid
<1>2. /\ new.classes = Folded(t.classes, d.merges, d.exclusions)
      /\ new.label = Relabel(t, d)
  BY DEF ApplyToTaxonomy
<1>3. /\ DOMAIN new.parent = new.classes
      /\ \A c \in new.classes :
           new.parent[c] = IF Cardinality(kin(c)) >= 2 THEN ParentOf(t.parent, c) ELSE c
  BY DEF ApplyToTaxonomy, Reparent
<1>4. \A c \in new.classes :
        new.parent[c] # c => /\ new.parent[c] = ParentOf(t.parent, c)
                             /\ new.parent[c] \notin new.classes
  BY <1>1, LineageIsKept, <1>3
<1> HIDE DEF new
<1>5. ASSUME NEW c \in new.classes, new.parent[c] # c
      PROVE  \E s \in new.classes \ {c} : new.parent[s] = new.parent[c]
  <2>1. Cardinality(kin(c)) >= 2 /\ new.parent[c] = ParentOf(t.parent, c)
    BY <1>3, <1>5
  <2>2. c \in kin(c)
    OBVIOUS
  <2>3. PICK s \in kin(c) : s # c
    <3> HIDE DEF kin
    <3> QED
      BY <2>1, <2>2, NotAlone
  <2>4. kin(s) = kin(c) /\ s \in new.classes /\ ParentOf(t.parent, s) = ParentOf(t.parent, c)
    OBVIOUS
  <2>5. new.parent[s] = ParentOf(t.parent, c)
    <3> HIDE DEF kin
    <3> QED
      BY <1>3, <2>1, <2>4
  <2> QED
    BY <2>1, <2>3, <2>4, <2>5
<1>6. Benign \in new.classes => new.parent[Benign] = Benign
  BY <1>1, <1>3 DEF ParentOf, ParentMapValid
<1>7. ParentMapValid(new)
  BY <1>3, <1>4, <1>5, <1>6 DEF ParentMapValid
<1>8. new.label = [r \in DOMAIN t.label |->
                     IF t.label[r] \in {Excluded} \cup d.exclusions
                     THEN Excluded ELSE ParentOf(d.merges, t.label[r])]
  BY <1>2 DEF Relabel
<1>9. \A r \in DOMAIN t.label : t.label[r] \in t.classes \cup {Excluded}
  BY <1>1 DEF LabelMapValid
<1>10. {new.label[r] : r \in DOMAIN new.label} \subseteq new.classes \cup {Excluded}
  BY <1>2, <1>8, <1>9 DEF Folded
<1>11. ASSUME NEW c \in new.classes PROVE \E r \in DOMAIN new.label : new.label[r] = c
  <2>1. PICK x \in t.classes \ d.exclusions : c = ParentOf(d.merges, x)
    BY <1>2 DEF Folded
  <2>2. PICK r \in DOMAIN t.label : t.label[r] = x
    BY <1>1 DEF LabelMapValid
  <2> QED
    BY <1>8, <2>1, <2>2
<1>12. LabelMapValid(new)
  BY <1>10, <1>11 DEF LabelMapValid
<1> QED
  BY <1>7, <1>12 DEF TaxonomyValid, new

(***************************************************************************)
(* Taxonomies that are behind.  A fold turns classes into parents and      *)
(* drops others, so a class that goes never comes back under its name:     *)
(* that is how a record resolved on an earlier version shows, although it  *)
(* names none.                                                             *)
(***************************************************************************)
\* No lineage of t bears the name of a class of C that t no longer has.
NamesKept(C, t) == \A c \in t.classes : t.parent[c] \in C => t.parent[c] \in t.classes

Behind(C, t) == (\E r \in C : r \notin t.classes) /\ NamesKept(C, t)

Typed(t) ==
  /\ t.version \in Nat
  /\ t.classes \subseteq Range(StratumOrder)
  /\ Benign \in t.classes
  /\ t.label \in [Raw -> t.classes \cup {Excluded}]
  /\ t.parent \in [t.classes -> Range(StratumOrder)]

\* Every class a fold leaves was one, or is the parent of a merged one.
LEMMA FoldIsTyped ==
  ASSUME NEW t, TaxonomyValid(t), Typed(t), NEW V, NEW d, Folds(t, V, d)
  PROVE  Typed(ApplyToTaxonomy(t, d)) /\ ApplyToTaxonomy(t, d).version = t.version + 1
<1> DEFINE new == ApplyToTaxonomy(t, d)
<1>1. ParentMapValid(t)
  BY DEF TaxonomyValid
<1>2. /\ new.classes = Folded(t.classes, d.merges, d.exclusions)
      /\ new.label = Relabel(t, d)
      /\ new.parent = Reparent(t, d, new.classes)
      /\ new.version = t.version + 1
  BY DEF ApplyToTaxonomy
<1>3. \A c \in new.classes :
        new.parent[c] # c => c \in t.classes /\ new.parent[c] = t.parent[c]
  BY <1>1, LineageIsKept
<1> HIDE DEF new
<1>4. new.classes \subseteq Range(StratumOrder)
  <2>1. \A m \in DOMAIN d.merges : t.parent[m] \in Range(StratumOrder)
    BY DEF Folds, Typed
  <2> QED
    BY <1>1, <1>2, <2>1, FoldedClasses DEF Typed
<1>5. Benign \in new.classes
  <2>1. t.parent[Benign] = Benign /\ Benign \in t.classes
    BY <1>1 DEF ParentMapValid, Typed
  <2>2. Benign \notin DOMAIN d.merges /\ Benign \notin d.exclusions
    BY <2>1 DEF Folds
  <2> QED
    BY <1>1, <1>2, <2>1, <2>2, FoldedClasses
<1>6. new.parent \in [new.classes -> Range(StratumOrder)]
  <2>1. /\ DOMAIN new.parent = new.classes
        /\ new.parent = [c \in new.classes |-> new.parent[c]]
    BY <1>2 DEF Reparent
  <2>2. \A c \in new.classes : new.parent[c] \in Range(StratumOrder)
    BY <1>3, <1>4 DEF Typed
  <2> QED
    BY <2>1, <2>2
<1>7. new.label \in [Raw -> new.classes \cup {Excluded}]
  <2>1. DOMAIN t.label = Raw /\ \A r \in Raw : t.label[r] \in t.classes \cup {Excluded}
    BY DEF Typed
  <2>2. new.label = [r \in Raw |-> IF t.label[r] \in {Excluded} \cup d.exclusions
                                    THEN Excluded ELSE ParentOf(d.merges, t.label[r])]
    BY <1>2, <2>1 DEF Relabel
  <2>3. \A c \in t.classes \ d.exclusions : ParentOf(d.merges, c) \in new.classes
    BY <1>2 DEF Folded
  <2> QED
    BY <2>1, <2>2, <2>3
<1> QED
  BY <1>2, <1>4, <1>5, <1>6, <1>7 DEF Typed, new

\* A fold leaves the taxonomy it was applied to, and all before it, behind.
LEMMA FoldLeavesBehind ==
  ASSUME NEW t, ParentMapValid(t), NEW V, NEW d, Folds(t, V, d),
         d.exclusions \subseteq t.classes
  PROVE  /\ Behind(t.classes, ApplyToTaxonomy(t, d))
         /\ \A C : Behind(C, t) => Behind(C, ApplyToTaxonomy(t, d))
<1> DEFINE new == ApplyToTaxonomy(t, d)
<1>1. new.classes = Folded(t.classes, d.merges, d.exclusions)
  BY DEF ApplyToTaxonomy
<1>2. \A c \in new.classes :
        new.parent[c] # c => /\ c \in t.classes /\ new.parent[c] = t.parent[c]
                             /\ new.parent[c] \notin t.classes
  BY LineageIsKept
<1> HIDE DEF new
<1>3. \A c : c \in new.classes <=>
        \/ c \in t.classes /\ c \notin d.exclusions /\ c \notin DOMAIN d.merges
        \/ \E m \in DOMAIN d.merges : c = t.parent[m]
  BY <1>1, FoldedClasses
<1>4. \A m \in DOMAIN d.merges : m \in t.classes /\ t.parent[m] \notin t.classes
  BY FoldedClasses DEF Folds
<1>5. Behind(t.classes, new)
  <2>1. \E r \in t.classes : r \notin new.classes
    BY <1>3, <1>4 DEF Folds
  <2>2. NamesKept(t.classes, new)
    BY <1>2 DEF NamesKept
  <2> QED
    BY <2>1, <2>2 DEF Behind
<1>6. ASSUME NEW C, Behind(C, t) PROVE Behind(C, new)
  <2>1. PICK r \in C : r \notin t.classes
    BY <1>6 DEF Behind
  <2>2. r \notin new.classes
    BY <1>3, <1>4, <1>6, <2>1 DEF Behind, NamesKept
  <2>3. NamesKept(C, new)
    BY <1>2, <1>6 DEF Behind, NamesKept
  <2> QED
    BY <2>1, <2>2, <2>3 DEF Behind
<1> QED
  BY <1>5, <1>6 DEF new

\* No decision of a taxonomy that is behind can be applied.
LEMMA BehindCannotApply ==
  ASSUME NEW t, ParentMapValid(t), NEW V, NEW d, Folds(t, V, d),
         Behind(d.stats.vocabulary \cup d.stats.absent, t), Applicable(t, d)
  PROVE  FALSE
<1>1. d.stats.vocabulary \cup d.stats.absent = V \cup t.classes
  BY DEF Folds
<1>2. PICK r \in V \cup t.classes : r \notin t.classes
  BY <1>1 DEF Behind
<1>3. r \in V /\ r \notin d.exclusions /\ r \notin DOMAIN d.merges
  BY <1>2 DEF Applicable
<1>4. r \in d.vocabulary
  <2>1. ParentOf(d.merges, r) = r
    BY <1>3 DEF ParentOf
  <2> QED
    BY <1>3, <2>1 DEF Folds, Folded
<1>5. r \in Folded(t.classes, d.merges, d.exclusions)
  BY <1>4 DEF Applicable
<1>6. PICK m \in DOMAIN d.merges : r = t.parent[m]
  BY <1>2, <1>5, FoldedClasses
<1>7. m \in t.classes
  BY DEF Folds
<1> QED
  BY <1>1, <1>2, <1>6, <1>7 DEF Behind, NamesKept

(***************************************************************************)
(* The inductive invariant.                                                *)
(***************************************************************************)
\* The run of a family has loaded today's taxonomy, or one that is behind.
RunsBehind ==
  /\ run = [f \in Families |-> run[f]]
  /\ \A f \in Families :
       run[f] # None =>
         LET t == run[f].tax
         IN /\ run[f] = [phase |-> run[f].phase, tax |-> t,
                         explained |-> run[f].explained, support |-> run[f].support]
            /\ t.version \in Nat
            /\ t = tax \/ (t.version < tax.version /\ Behind(t.classes, tax))

\* r was resolved on taxonomy t, for some of its classes.
ResolvedOn(r, t) ==
  \E V \in SUBSET t.classes, macroOk \in BOOLEAN :
    r.decision = Resolve(r.table, macroOk, t, V, Leaf)

Known(d) == d.stats.vocabulary \cup d.stats.absent

\* A record was resolved on today's taxonomy, or on one that is behind.
RecordsBehind ==
  /\ record = [f \in Families |-> record[f]]
  /\ \A f \in Families :
       record[f] # None =>
         LET r == record[f]
         IN /\ r.version \in Nat
            /\ \/ r.version = tax.version /\ ResolvedOn(r, tax)
               \/ r.version < tax.version /\ Behind(Known(r.decision), tax)

Inv == Typed(tax) /\ TaxonomyValid(tax) /\ RunsBehind /\ RecordsBehind

LEMMA InvInit == Init => Inv
<1> SUFFICES ASSUME Init PROVE Inv
  OBVIOUS
<1>1. Typed(tax) /\ TaxonomyValid(tax)
  BY LadderAssumption DEF Init, Typed
<1>2. RunsBehind /\ RecordsBehind
  BY DEF Init, RunsBehind, RecordsBehind
<1> QED
  BY <1>1, <1>2 DEF Inv

\* What resolve was asked is in the statistics of its decision.
LEMMA ResolveKnows ==
  ASSUME NEW t, NEW table, NEW macroOk, NEW V, NEW rung
  PROVE  /\ Resolve(table, macroOk, t, V, rung).stats.vocabulary = V
         /\ Resolve(table, macroOk, t, V, rung).stats.absent = t.classes \ V
<1> DEFINE failing == FailingClasses(table, V \ {Benign})
           stats == [rung |-> rung, vocabulary |-> V, macroOk |-> macroOk,
                     absent |-> t.classes \ V]
           d == Resolve(table, macroOk, t, V, rung)
<1>1. stats.vocabulary = V /\ stats.absent = t.classes \ V
  OBVIOUS
<1>2. \/ d = Decide(rung, FALSE, V, EmptyMap, {}, {}, stats)
      \/ d = DescendARung(failing, t, stats)
      \/ d = ResolveInOnePass(failing, t, stats)
  BY DEF Resolve
<1> HIDE DEF d, stats, failing
<1>3. d.stats = stats
  BY <1>2 DEF Decide, DescendARung, ResolveInOnePass, BinaryDecision
<1> QED
  BY <1>1, <1>3 DEF d

LEMMA FitKeepsInv ==
  ASSUME Inv, NEW f \in Families, Fit(f) PROVE Inv'
<1> DEFINE e == ExplainedSet(tax)
           s == Competence(Pool(tax), e)
<1>1. tax' = tax /\ record' = record
  BY DEF Fit
<1>2. run' = [run EXCEPT ![f] = [phase |-> "fitted", tax |-> tax,
                                 explained |-> e, support |-> s]]
  BY DEF Fit
<1>3. tax.version \in Nat
  BY DEF Inv, Typed
<1> HIDE DEF e, s
<1>4. RunsBehind'
  BY <1>1, <1>2, <1>3 DEF Inv, RunsBehind, Behind, NamesKept
<1>5. (Typed(tax) /\ TaxonomyValid(tax) /\ RecordsBehind)'
  <2>1. Typed(tax)' /\ TaxonomyValid(tax)'
    BY <1>1 DEF Inv
  <2>2. RecordsBehind'
    BY <1>1 DEF Inv, RecordsBehind
  <2> QED
    BY <2>1, <2>2
<1> QED
  BY <1>4, <1>5 DEF Inv

LEMMA FinishKeepsInv ==
  ASSUME Inv, NEW f \in Families, Finish(f) PROVE Inv'
<1>1. tax' = tax /\ record' = record /\ run' = [run EXCEPT ![f] = None]
  BY DEF Finish
<1>2. RunsBehind'
  BY <1>1 DEF Inv, RunsBehind
<1>3. RecordsBehind'
  BY <1>1 DEF Inv, RecordsBehind
<1> QED
  BY <1>1, <1>2, <1>3 DEF Inv

LEMMA GateKeepsInv ==
  ASSUME Inv, NEW f \in Families, Gate(f) PROVE Inv'
<1>1. tax' = tax /\ run[f] # None
  BY DEF Gate
<1> DEFINE t == run[f].tax
           V == FittedOn(t)
<1> DEFINE recorded(table, macroOk) ==
             /\ record' = [record EXCEPT ![f] =
                  [table |-> table, decision |-> Resolve(table, macroOk, t, V, Leaf),
                   version |-> t.version]]
             /\ run' = [run EXCEPT ![f] =
                  IF GatePasses(table, macroOk) THEN [run[f] EXCEPT !.phase = "certified"]
                  ELSE None]
<1>2. \E table : \E macroOk \in BOOLEAN : recorded(table, macroOk)
  BY DEF Gate, DecideOnLoaded
<1>3. PICK table : \E macroOk \in BOOLEAN : recorded(table, macroOk)
  BY <1>2
<1>4. PICK macroOk \in BOOLEAN : recorded(table, macroOk)
  BY <1>3
<1>5. V \subseteq t.classes
  BY DEF FittedOn
<1>6. t.version \in Nat /\ (t = tax \/ (t.version < tax.version /\ Behind(t.classes, tax)))
  BY <1>1 DEF Inv, RunsBehind
<1> HIDE DEF V
<1>7. RunsBehind'
  <2>1. run'[f] # None => run'[f] = [run[f] EXCEPT !.phase = "certified"]
    BY <1>4 DEF Inv, RunsBehind
  <2>2. run[f] = [phase |-> run[f].phase, tax |-> t,
                  explained |-> run[f].explained, support |-> run[f].support]
    BY <1>1 DEF Inv, RunsBehind
  <2>3. run'[f] # None =>
          run'[f] = [phase |-> "certified", tax |-> t,
                     explained |-> run[f].explained, support |-> run[f].support]
    BY <2>1, <2>2
  <2>4. /\ run' = [g \in Families |-> run'[g]]
        /\ \A g \in Families \ {f} : run'[g] = run[g]
    BY <1>4 DEF Inv, RunsBehind
  <2>5. ASSUME NEW g \in Families, run'[g] # None
        PROVE  /\ run'[g] = [phase |-> run'[g].phase, tax |-> run'[g].tax,
                             explained |-> run'[g].explained, support |-> run'[g].support]
               /\ run'[g].tax = run[g].tax /\ run[g] # None
    <3>1. CASE g = f
      BY <1>1, <2>3, <2>5, <3>1
    <3>2. CASE g # f
      BY <2>4, <2>5, <3>2 DEF Inv, RunsBehind
    <3> QED
      BY <3>1, <3>2
  <2> QED
    BY <1>1, <2>4, <2>5 DEF Inv, RunsBehind, Behind, NamesKept
<1>8. RecordsBehind'
  <2> DEFINE d == Resolve(table, macroOk, t, V, Leaf)
  <2>1. Known(d) = t.classes
    BY <1>5, ResolveKnows DEF Known
  <2>2. /\ record' = [g \in Families |-> record'[g]]
        /\ \A g \in Families \ {f} : record'[g] = record[g]
        /\ record'[f] = [table |-> table, decision |-> d, version |-> t.version]
    BY <1>4 DEF Inv, RecordsBehind
  <2>3. ResolvedOn([table |-> table, decision |-> d, version |-> t.version], t)
    BY <1>5 DEF ResolvedOn
  <2> HIDE DEF d
  <2>4. /\ record'[f].version = t.version /\ record'[f].decision = d
        /\ ResolvedOn(record'[f], t)
    BY <2>2, <2>3
  <2>5. ASSUME NEW g \in Families, record'[g] # None
        PROVE  /\ record'[g].version \in Nat
               /\ \/ record'[g].version = tax.version /\ ResolvedOn(record'[g], tax)
                  \/ record'[g].version < tax.version /\ Behind(Known(record'[g].decision), tax)
    <3>1. CASE g = f
      BY <1>6, <2>1, <2>4, <3>1
    <3>2. CASE g # f
      BY <2>2, <2>5, <3>2 DEF Inv, RecordsBehind
    <3> QED
      BY <3>1, <3>2
  <2> QED
    BY <1>1, <2>2, <2>5 DEF RecordsBehind, ResolvedOn, Behind, NamesKept, Known
<1> QED
  BY <1>1, <1>7, <1>8 DEF Inv

\* What Apply writes is a fold of the taxonomy it reads.
LEMMA ApplyFolds ==
  ASSUME Inv, NEW f \in Families, Apply(f)
  PROVE  /\ Folds(tax, record[f].decision.stats.vocabulary, record[f].decision)
         /\ record[f].decision.exclusions \subseteq tax.classes
<1>1. ParentMapValid(tax)
  BY DEF Inv, TaxonomyValid
<1>2. record[f].decision.changed /\ record[f].decision.rung # BinaryRung
  BY DEF Apply, Applicable
<1>3. record[f].decision.exclusions \subseteq tax.classes
  BY DEF Apply, Applicable
<1>4. record[f].decision = Resolve(record[f].table, record[f].decision.stats.macroOk, tax,
                                   record[f].decision.stats.vocabulary,
                                   record[f].decision.stats.rung)
  BY DEF Apply, Reproduces
<1> QED
  BY <1>1, <1>2, <1>3, <1>4, DecisionsFold

LEMMA ApplyKeepsInv ==
  ASSUME Inv, NEW f \in Families, Apply(f) PROVE Inv'
<1>1. PICK d : /\ d = record[f].decision /\ Folds(tax, d.stats.vocabulary, d)
               /\ d.exclusions \subseteq tax.classes
  BY ApplyFolds
<1>2. /\ tax' = ApplyToTaxonomy(tax, d) /\ TaxonomyValid(ApplyToTaxonomy(tax, d))
      /\ run' = run /\ record' = record
  BY <1>1 DEF Apply
<1>3. PICK old, new : old = tax /\ new = tax'
  OBVIOUS
<1>4. Typed(old) /\ TaxonomyValid(old) /\ ParentMapValid(old)
  BY <1>3 DEF Inv, TaxonomyValid
<1>5. Typed(new) /\ TaxonomyValid(new) /\ new.version = old.version + 1
  BY <1>1, <1>2, <1>3, <1>4, FoldIsTyped
<1>6. Behind(old.classes, new) /\ \A C : Behind(C, old) => Behind(C, new)
  BY <1>1, <1>2, <1>3, <1>4, FoldLeavesBehind
<1>7. old.version \in Nat /\ new.version \in Nat
  BY <1>4, <1>5 DEF Typed
<1>8. RunsBehind'
  <2>1. ASSUME NEW g \in Families, run[g] # None
        PROVE  /\ run[g].tax.version < new.version
               /\ Behind(run[g].tax.classes, new)
    <3>1. /\ run[g].tax.version \in Nat
          /\ \/ run[g].tax = old
             \/ run[g].tax.version < old.version /\ Behind(run[g].tax.classes, old)
      BY <1>3, <2>1 DEF Inv, RunsBehind
    <3>2. CASE run[g].tax = old
      BY <1>5, <1>6, <1>7, <3>2
    <3>3. CASE run[g].tax.version < old.version /\ Behind(run[g].tax.classes, old)
      BY <1>5, <1>6, <1>7, <3>1, <3>3
    <3> QED
      BY <3>1, <3>2, <3>3
  <2> QED
    BY <1>2, <1>3, <2>1 DEF Inv, RunsBehind, Behind, NamesKept
<1>9. RecordsBehind'
  <2>1. ASSUME NEW g \in Families, record[g] # None
        PROVE  /\ record[g].version < new.version
               /\ Behind(Known(record[g].decision), new)
    <3>1. /\ record[g].version \in Nat
          /\ \/ record[g].version = old.version /\ ResolvedOn(record[g], old)
             \/ record[g].version < old.version /\ Behind(Known(record[g].decision), old)
      BY <1>3, <2>1 DEF Inv, RecordsBehind
    <3>2. CASE record[g].version = old.version /\ ResolvedOn(record[g], old)
      <4>1. Known(record[g].decision) = old.classes
        BY <3>2, ResolveKnows DEF ResolvedOn, Known
      <4> QED
        BY <1>5, <1>6, <1>7, <3>2, <4>1
    <3>3. CASE record[g].version < old.version /\ Behind(Known(record[g].decision), old)
      BY <1>5, <1>6, <1>7, <3>1, <3>3
    <3> QED
      BY <3>1, <3>2, <3>3
  <2>2. \A g \in Families : record[g] # None => record[g].version \in Nat
    BY DEF Inv, RecordsBehind
  <2> QED
    BY <1>2, <1>3, <2>1, <2>2 DEF Inv, RecordsBehind, Behind, NamesKept, Known
<1>10. Typed(tax)' /\ TaxonomyValid(tax)'
  BY <1>3, <1>5
<1> QED
  BY <1>8, <1>9, <1>10 DEF Inv

LEMMA Inductive == Inv /\ [Next]_vars => Inv'
<1> SUFFICES ASSUME Inv, [Next]_vars PROVE Inv'
  OBVIOUS
<1>1. ASSUME NEW f \in Families, Fit(f) PROVE Inv'
  BY <1>1, FitKeepsInv
<1>2. ASSUME NEW f \in Families, Gate(f) PROVE Inv'
  BY <1>2, GateKeepsInv
<1>3. ASSUME NEW f \in Families, Apply(f) PROVE Inv'
  BY <1>3, ApplyKeepsInv
<1>4. ASSUME NEW f \in Families, Finish(f) PROVE Inv'
  BY <1>4, FinishKeepsInv
<1>5. CASE UNCHANGED vars
  <2>1. tax' = tax /\ run' = run /\ record' = record
    BY <1>5 DEF vars
  <2>2. RunsBehind' /\ RecordsBehind'
    BY <2>1 DEF Inv, RunsBehind, RecordsBehind
  <2> QED
    BY <2>1, <2>2 DEF Inv
<1> QED
  BY <1>1, <1>2, <1>3, <1>4, <1>5 DEF Next

LEMMA InvAlways == Spec => []Inv
  BY InvInit, Inductive, PTL DEF Spec

\* Whatever detectors fail, and in whatever order recorded decisions are
\* applied, the taxonomy on disk stays one that validate-configs accepts: every
\* raw label has a class or is excluded, no class is an orphan, BENIGN is its
\* own class and the KB's entries keep a mapping (contingency.py:384-409).
THEOREM TaxonomyIsAlwaysValid == Spec => []TaxonomyStaysValid
<1>1. Inv => TaxonomyStaysValid
  BY LadderAssumption DEF Inv, Typed, TaxonomyStaysValid, KbCovered
<1> QED
  BY <1>1, InvAlways, PTL

\* A changed, non-terminal decision always fits the taxonomy it was resolved
\* on: apply_contingency's checks of missing classes, of unknown vocabulary and
\* of the result reject only records of another taxonomy
\* (apply_contingency.py:199-240).
THEOREM CurrentDecisionsApply == Spec => []DecisionsApply
<1>1. Inv => DecisionsApply
  <2> SUFFICES ASSUME Inv, NEW f \in Families, record[f] # None,
                      record[f].version = tax.version,
                      record[f].decision.changed, record[f].decision.rung # BinaryRung
               PROVE  /\ Applicable(tax, record[f].decision)
                      /\ TaxonomyValid(ApplyToTaxonomy(tax, record[f].decision))
    BY DEF DecisionsApply
  <2>1. TaxonomyValid(tax) /\ ParentMapValid(tax) /\ Typed(tax)
    BY DEF Inv, TaxonomyValid
  <2>2. ResolvedOn(record[f], tax)
    BY <2>1 DEF Inv, RecordsBehind, Typed
  <2>3. PICK V \in SUBSET tax.classes : Folds(tax, V, record[f].decision)
    BY <2>1, <2>2, DecisionsFold DEF ResolvedOn
  <2>4. Excluded \notin tax.classes
    BY <2>1, LadderAssumption DEF Typed
  <2>5. TaxonomyValid(ApplyToTaxonomy(tax, record[f].decision))
    BY <2>1, <2>3, <2>4, AppliedIsValid DEF Typed
  <2>6. Applicable(tax, record[f].decision)
    BY <2>3 DEF Applicable, Folds, Folded
  <2> QED
    BY <2>5, <2>6
<1> QED
  BY <1>1, InvAlways, PTL

\* Re-resolving a record tells that it belongs to another taxonomy, although
\* no version is stored in it: a class that was folded away is missing, and no
\* lineage that is left has its name (apply_contingency.py:199).
THEOREM StaleDecisionsAreRefused == Spec => NoStaleDecisionApplied
<1>1. Inv /\ [Next]_vars =>
        [\A f \in Families : Apply(f) => record[f].version = tax.version]_vars
  <2> SUFFICES ASSUME Inv, NEW f \in Families, Apply(f)
               PROVE  record[f].version = tax.version
    OBVIOUS
  <2>1. SUFFICES ASSUME record[f].version # tax.version PROVE FALSE
    OBVIOUS
  <2>2. Behind(Known(record[f].decision), tax)
    BY <2>1 DEF Apply, Inv, RecordsBehind
  <2>3. Folds(tax, record[f].decision.stats.vocabulary, record[f].decision)
    BY ApplyFolds
  <2>4. ParentMapValid(tax) /\ Applicable(tax, record[f].decision)
    BY DEF Inv, TaxonomyValid, Apply
  <2> QED
    BY <2>2, <2>3, <2>4, BehindCannotApply DEF Known
<1> QED
  BY <1>1, InvAlways, PTL DEF Spec, NoStaleDecisionApplied
(***************************************************************************)
(* The explained set, for any pool and budget.                             *)
(***************************************************************************)
LEMMA RowOf ==
  ASSUME NEW count, NEW x
  PROVE  x \in RowsIn(count) <=>
           \E c \in DOMAIN count : \E k \in 1..count[c] : x = <<c, k>>
<1>1. x \in RowsIn(count) <=> \E c \in DOMAIN count : x \in {c} \X (1..count[c])
  BY DEF RowsIn
<1>2. \A c : x \in {c} \X (1..count[c]) <=> \E k \in 1..count[c] : x = <<c, k>>
  OBVIOUS
<1> QED
  BY <1>1, <1>2

LEMMA RowsAreFinite ==
  ASSUME NEW D, IsFiniteSet(D), NEW count \in [D -> Nat]
  PROVE  IsFiniteSet(RowsIn(count)) /\ Total(count) \in Nat
<1> DEFINE of == [c \in D |-> {c} \X (1..count[c])]
           family == {{c} \X (1..count[c]) : c \in D}
<1>1. of \in Surjection(D, family)
  BY DEF Surjection
<1>2. \A c \in D : IsFiniteSet({c} \X (1..count[c]))
  <2> TAKE c \in D
  <2>0. count[c] \in Int /\ 1 \in Int
    OBVIOUS
  <2>1. IsFiniteSet({c}) /\ IsFiniteSet(1..count[c])
    BY <2>0, FS_Singleton, FS_Interval
  <2> QED
    BY <2>1, FS_Product
<1>3. RowsIn(count) = UNION family /\ \A T \in family : IsFiniteSet(T)
  BY <1>2 DEF RowsIn
<1> HIDE DEF of, family
<1>4. IsFiniteSet(family)
  BY <1>1, FS_Surjection
<1>5. IsFiniteSet(RowsIn(count))
  BY <1>3, <1>4, FS_UNION
<1> QED
  BY <1>5, FS_CardinalityType DEF Total

\* Rows that are parted in two are counted in two.
LEMMA TotalsAdd ==
  ASSUME NEW D, IsFiniteSet(D), NEW f \in [D -> Nat], NEW g \in [D -> Nat],
         NEW h \in [D -> Nat], \A c \in D : h[c] = f[c] + g[c]
  PROVE  Total(h) = Total(f) + Total(g)
<1> DEFINE above == {x \in RowsIn(h) : x[2] > f[x[1]]}
           lift == [x \in RowsIn(g) |-> <<x[1], x[2] + f[x[1]]>>]
<1>1. lift \in Bijection(RowsIn(g), above)
  <2>1. \A x \in RowsIn(g) : x[1] \in D /\ x[2] \in 1..g[x[1]] /\ x = <<x[1], x[2]>>
    BY RowOf
  <2>2. ASSUME NEW x \in RowsIn(g) PROVE lift[x] \in above
    <3>1. x[1] \in D /\ x[2] + f[x[1]] \in 1..h[x[1]] /\ x[2] + f[x[1]] > f[x[1]]
      BY <2>1
    <3> QED
      BY <3>1, RowOf
  <2>3. ASSUME NEW x \in RowsIn(g), NEW y \in RowsIn(g), lift[x] = lift[y] PROVE x = y
    <3>1. x[1] = y[1] /\ x[2] + f[x[1]] = y[2] + f[x[1]]
      BY <2>3
    <3>2. f[x[1]] \in Nat /\ x[2] \in Nat /\ y[2] \in Nat
      BY <2>1
    <3> QED
      BY <2>1, <3>1, <3>2
  <2>4. ASSUME NEW y \in above PROVE \E x \in RowsIn(g) : lift[x] = y
    <3>0. PICK c \in D : \E k \in 1..h[c] : y = <<c, k>>
      BY RowOf
    <3>1. PICK k \in 1..h[c] : y = <<c, k>>
      BY <3>0
    <3>2. k > f[c] /\ f[c] \in Nat /\ g[c] \in Nat /\ h[c] = f[c] + g[c]
      BY <3>1
    <3>3. k - f[c] \in 1..g[c] /\ (k - f[c]) + f[c] = k
      BY <3>2
    <3>4. <<c, k - f[c]>> \in RowsIn(g)
      BY <3>3, RowOf
    <3> QED
      BY <3>1, <3>3, <3>4
  <2>5. lift \in [RowsIn(g) -> above]
    BY <2>2
  <2> HIDE DEF lift, above
  <2> QED
    BY <2>3, <2>4, <2>5 DEF Bijection, Injection, Surjection, IsInjective
<1>2. RowsIn(h) = RowsIn(f) \cup above /\ RowsIn(f) \cap above = {}
  <2>1. \A c \in D : f[c] \in Nat /\ g[c] \in Nat
    OBVIOUS
  <2>2. ASSUME NEW x PROVE x \in RowsIn(h) <=> x \in RowsIn(f) \/ x \in above
    BY <2>1, RowOf
  <2>3. ASSUME NEW x \in RowsIn(f) PROVE x \notin above
    BY <2>1, RowOf
  <2> QED
    BY <2>2, <2>3
<1>3. IsFiniteSet(RowsIn(f)) /\ IsFiniteSet(RowsIn(g)) /\ Total(f) \in Nat /\ Total(g) \in Nat
  BY RowsAreFinite
<1> HIDE DEF above, lift
<1>4. IsFiniteSet(above) /\ Cardinality(above) = Cardinality(RowsIn(g))
  BY <1>1, <1>3, FS_Bijection DEF ExistsBijection
<1>5. Cardinality(RowsIn(h)) = Cardinality(RowsIn(f)) + Cardinality(above) - 0
  BY <1>2, <1>3, <1>4, FS_Union, FS_EmptySet
<1> QED
  BY <1>3, <1>4, <1>5 DEF Total

\* A set that has everything below its members is counted by its last.
LEMMA PrefixIsCounted ==
  ASSUME NEW m \in Nat, NEW K \in SUBSET (1..m),
         \A k \in K : \A j \in 1..m : j < k => j \in K
  PROVE  K = 1..Cardinality(K) /\ Cardinality(K) \in 0..m
<1>1. IsFiniteSet(1..m) /\ Cardinality(1..m) = m
  BY FS_Interval
<1>2. IsFiniteSet(K) /\ Cardinality(K) \in Nat /\ Cardinality(K) <= m
  BY <1>1, FS_Subset, FS_CardinalityType
<1>3. ASSUME NEW k \in K PROVE k <= Cardinality(K)
  <2>1. k \in Nat /\ k >= 1 /\ 1..k \subseteq K
    OBVIOUS
  <2>2. Cardinality(1..k) = k
    BY <2>1, FS_Interval
  <2>3. Cardinality(1..k) <= Cardinality(K)
    BY <1>2, <2>1, FS_Subset
  <2> QED
    BY <2>2, <2>3
<1>4. K \subseteq 1..Cardinality(K)
  BY <1>2, <1>3
<1>5. IsFiniteSet(1..Cardinality(K)) /\ Cardinality(1..Cardinality(K)) = Cardinality(K)
  BY <1>2, FS_Interval
<1>6. K = 1..Cardinality(K)
  BY <1>4, <1>5, FS_Subset
<1> QED
  BY <1>2, <1>6

\* What the round robin goes over: picks of finitely many classes that all have
\* a place in the order.
RoundRobinOf(D, picks, n, order) ==
  /\ IsFiniteSet(D) /\ picks \in [D -> Nat] /\ n \in Nat
  /\ order \in Seq(Range(order)) /\ D \subseteq Range(order)

LEMMA ClassesHavePlaces ==
  ASSUME NEW D, NEW picks, NEW n, NEW order, RoundRobinOf(D, picks, n, order)
  PROVE  \A c \in D : Index(order, c) \in Nat /\ order[Index(order, c)] = c
<1>1. order \in [1..Len(order) -> Range(order)] /\ Len(order) \in Nat
  BY DEF RoundRobinOf
<1>2. DOMAIN order = 1..Len(order)
  BY <1>1
<1> TAKE c \in D
<1>3. \E i \in DOMAIN order : order[i] = c
  BY DEF RoundRobinOf, Range
<1>4. Index(order, c) \in DOMAIN order /\ order[Index(order, c)] = c
  BY <1>3 DEF Index
<1> QED
  BY <1>2, <1>4

\* Of two picks, the one that comes first has fewer before it.
LEMMA EarlierPicksRankLower ==
  ASSUME NEW D, NEW picks, NEW n, NEW order, RoundRobinOf(D, picks, n, order),
         NEW c \in D, NEW r \in 1..picks[c], NEW d \in D, NEW s \in Nat,
         r < s \/ (r = s /\ Index(order, c) < Index(order, d))
  PROVE  /\ Cardinality(Earlier(picks, order, c, r)) \in Nat
         /\ Cardinality(Earlier(picks, order, d, s)) \in Nat
         /\ Cardinality(Earlier(picks, order, c, r))
              < Cardinality(Earlier(picks, order, d, s))
<1> DEFINE E == Earlier(picks, order, c, r)
           F == Earlier(picks, order, d, s)
<1>1. IsFiniteSet(RowsIn(picks)) /\ DOMAIN picks = D
  BY RowsAreFinite DEF RoundRobinOf
<1>2. E \subseteq RowsIn(picks) /\ F \subseteq RowsIn(picks)
  BY DEF Earlier
<1>3. \A x \in RowsIn(picks) : x[1] \in D /\ x[2] \in Nat /\ Index(order, x[1]) \in Nat
  <2> TAKE x \in RowsIn(picks)
  <2>1. PICK b \in D : \E k \in 1..picks[b] : x = <<b, k>>
    BY <1>1, RowOf
  <2>2. picks[b] \in Nat
    BY DEF RoundRobinOf
  <2> QED
    BY <2>1, <2>2, ClassesHavePlaces
<1>4. Index(order, c) \in Nat /\ Index(order, d) \in Nat /\ picks[c] \in Nat
  BY ClassesHavePlaces DEF RoundRobinOf
<1>5. E \subseteq F
  BY <1>3, <1>4 DEF Earlier
<1>6. <<c, r>> \in F \ E
  <2>1. <<c, r>> \in RowsIn(picks)
    BY <1>1, RowOf
  <2> QED
    BY <1>4, <2>1 DEF Earlier
<1> HIDE DEF E, F
<1>7. IsFiniteSet(E) /\ IsFiniteSet(F)
  BY <1>1, <1>2, FS_Subset
<1>8. Cardinality(E) \in Nat /\ Cardinality(F) \in Nat
  BY <1>7, FS_CardinalityType
<1>9. Cardinality(E) <= Cardinality(F) /\ Cardinality(E) # Cardinality(F)
  BY <1>5, <1>6, <1>7, FS_Subset
<1> QED
  BY <1>8, <1>9 DEF E, F

\* Of each class the first picks are kept, as many as RoundRobin says.
LEMMA FirstPicksAreKept ==
  ASSUME NEW D, NEW picks, NEW n, NEW order, RoundRobinOf(D, picks, n, order),
         NEW c \in D
  PROVE  LET kept == RoundRobin(picks, n, order)
         IN /\ kept[c] \in 0..picks[c]
            /\ Kept(picks, n, order, c) = 1..kept[c]
<1>1. picks[c] \in Nat /\ n \in Nat /\ DOMAIN picks = D
  BY DEF RoundRobinOf
<1>2. Kept(picks, n, order, c) \in SUBSET (1..picks[c])
  BY DEF Kept
<1>3. ASSUME NEW r \in Kept(picks, n, order, c), NEW q \in 1..picks[c], q < r
      PROVE  q \in Kept(picks, n, order, c)
  <2>1. r \in Nat /\ Cardinality(Earlier(picks, order, c, r)) < n
    BY <1>1, <1>2 DEF Kept
  <2>2. /\ Cardinality(Earlier(picks, order, c, q)) \in Nat
        /\ Cardinality(Earlier(picks, order, c, r)) \in Nat
        /\ Cardinality(Earlier(picks, order, c, q))
             < Cardinality(Earlier(picks, order, c, r))
    BY <1>3, <2>1, EarlierPicksRankLower
  <2>3. Cardinality(Earlier(picks, order, c, q)) < n
    BY <1>1, <2>1, <2>2
  <2> QED
    BY <2>3 DEF Kept
<1>4. RoundRobin(picks, n, order)[c] = Cardinality(Kept(picks, n, order, c))
  BY <1>1 DEF RoundRobin
<1> QED
  BY <1>1, <1>2, <1>3, <1>4, PrefixIsCounted

\* No two picks have as many before them, so no more than n are kept.
LEMMA BudgetIsKept ==
  ASSUME NEW D, NEW picks, NEW n, NEW order, RoundRobinOf(D, picks, n, order)
  PROVE  Total(RoundRobin(picks, n, order)) <= n
<1> DEFINE kept == RoundRobin(picks, n, order)
           rank(x) == Cardinality(Earlier(picks, order, x[1], x[2]))
           place == [x \in RowsIn(kept) |-> rank(x)]
<1>1. DOMAIN kept = D /\ n \in Nat
  BY DEF RoundRobinOf, RoundRobin
<1>2. ASSUME NEW x \in RowsIn(kept)
      PROVE  /\ x[1] \in D /\ x[2] \in 1..picks[x[1]] /\ x = <<x[1], x[2]>>
             /\ rank(x) < n
  <2>1. PICK c \in D : \E k \in 1..kept[c] : x = <<c, k>>
    BY <1>1, RowOf
  <2>2. PICK k \in 1..kept[c] : x = <<c, k>>
    BY <2>1
  <2>3. k \in Kept(picks, n, order, c)
    BY <2>2, FirstPicksAreKept
  <2> QED
    BY <2>2, <2>3 DEF Kept
<1>3. \A c \in D : picks[c] \in Nat /\ Index(order, c) \in Nat /\ order[Index(order, c)] = c
  BY ClassesHavePlaces DEF RoundRobinOf
<1>4. ASSUME NEW x \in RowsIn(kept), NEW y \in RowsIn(kept), x # y
      PROVE  rank(x) \in Nat /\ rank(x) # rank(y)
  <2>1. \/ x[2] < y[2] \/ y[2] < x[2]
        \/ x[2] = y[2] /\ Index(order, x[1]) < Index(order, y[1])
        \/ x[2] = y[2] /\ Index(order, y[1]) < Index(order, x[1])
    BY <1>2, <1>3, <1>4
  <2>2. x[2] \in Nat /\ y[2] \in Nat
    BY <1>2, <1>3
  <2>3. CASE x[2] < y[2] \/ (x[2] = y[2] /\ Index(order, x[1]) < Index(order, y[1]))
    <3>1. rank(x) \in Nat /\ rank(y) \in Nat /\ rank(x) < rank(y)
      BY <1>2, <2>2, <2>3, EarlierPicksRankLower
    <3> QED
      BY <3>1
  <2>4. CASE y[2] < x[2] \/ (x[2] = y[2] /\ Index(order, y[1]) < Index(order, x[1]))
    <3>1. rank(x) \in Nat /\ rank(y) \in Nat /\ rank(y) < rank(x)
      BY <1>2, <2>2, <2>4, EarlierPicksRankLower
    <3> QED
      BY <3>1
  <2> QED
    BY <2>1, <2>3, <2>4
<1>5. ASSUME NEW x \in RowsIn(kept) PROVE rank(x) \in 0..(n - 1)
  <2>1. Earlier(picks, order, x[1], x[2]) \in SUBSET RowsIn(picks)
    BY DEF Earlier
  <2>2. IsFiniteSet(RowsIn(picks))
    BY RowsAreFinite DEF RoundRobinOf
  <2>3. rank(x) \in Nat
    BY <2>1, <2>2, FS_Subset, FS_CardinalityType
  <2> QED
    BY <1>1, <1>2, <2>3
<1>6. place \in [RowsIn(kept) -> 0..(n - 1)]
  BY <1>5
<1>7. \A x, y \in RowsIn(kept) : place[x] = place[y] => x = y
  BY <1>4
<1>8. place \in Injection(RowsIn(kept), 0..(n - 1))
  <2> HIDE DEF place, kept
  <2> QED
    BY <1>6, <1>7 DEF Injection, IsInjective
<1>9. IsFiniteSet(0..(n - 1)) /\ Cardinality(0..(n - 1)) = n
  BY <1>1, FS_Interval
<1> HIDE DEF place
<1>10. Cardinality(RowsIn(kept)) <= n
  BY <1>8, <1>9, FS_Injection
<1> QED
  BY <1>10 DEF Total

\* A pool of finitely many classes, each with a place in the order.
PoolOf(D, pool, n, floor, order) ==
  /\ RoundRobinOf(D, pool, n, order)
  /\ floor \in Nat

\* A class is picked in full, or as often as any other class is picked.
LEMMA PicksAreShares ==
  ASSUME NEW D, NEW pool, NEW n, NEW floor, NEW order, PoolOf(D, pool, n, floor, order)
  PROVE  LET picks == Picks(pool, n, floor)
         IN /\ picks \in [D -> Nat]
            /\ \A c \in D : picks[c] \in 0..pool[c]
            /\ \A c \in Strata(pool) : picks[c] > 0
            /\ \A c, d \in D : picks[c] > picks[d] => picks[d] = pool[d]
<1> DEFINE size == Cardinality(Strata(pool))
           share == Larger(1, n \div Larger(1, size))
           picks == Picks(pool, n, floor)
<1>1. /\ DOMAIN pool = D /\ n \in Nat /\ floor \in Nat /\ IsFiniteSet(D)
      /\ \A c \in D : pool[c] \in Nat
  BY DEF PoolOf, RoundRobinOf
<1>2. Strata(pool) \in SUBSET D
  BY <1>1 DEF Strata
<1>3. size \in Nat
  BY <1>1, <1>2, FS_Subset, FS_CardinalityType
<1> HIDE DEF size
<1>4. Larger(1, size) \in Nat /\ Larger(1, size) > 0
  BY <1>3 DEF Larger
<1>5. n \div Larger(1, size) \in Nat
  BY <1>1, <1>4
<1>6. share \in Nat /\ share > 0
  BY <1>5 DEF Larger
<1>7. picks = [c \in D |-> Smaller(pool[c], Larger(share, Smaller(floor, pool[c])))]
  BY <1>1 DEF Picks, size
<1> HIDE DEF share, picks
<1>8. \A c \in D : picks[c] = Smaller(pool[c], Larger(share, Smaller(floor, pool[c])))
  BY <1>7
<1>9. \A c \in D : picks[c] \in 0..pool[c] /\ (pool[c] > 0 => picks[c] > 0)
  BY <1>1, <1>6, <1>8 DEF Smaller, Larger
<1>10. \A c, d \in D : picks[c] > picks[d] => picks[d] = pool[d]
  BY <1>1, <1>6, <1>8 DEF Smaller, Larger
<1>11. picks \in [D -> Nat]
  <2>1. DOMAIN picks = D /\ \A c \in D : picks[c] \in Nat
    BY <1>1, <1>7, <1>9
  <2> QED
    BY <1>7, <2>1
<1> QED
  BY <1>2, <1>9, <1>10, <1>11 DEF picks, Strata

\* What is explained is no more than what was picked, and of two classes one
\* is two ahead only of one that was picked in full; every stratum is explained
\* if there is room for one of each.
LEMMA TruncationIsFair ==
  ASSUME NEW D, NEW picks, NEW n, NEW order, RoundRobinOf(D, picks, n, order)
  PROVE  LET kept == RoundRobin(picks, n, order)
         IN /\ \A c, d \in D : kept[c] > kept[d] + 1 => kept[d] = picks[d]
            /\ \A S \in SUBSET D :
                 (\A d \in D : picks[d] > 0 => d \in S) /\ Cardinality(S) <= n
                   => \A c \in S : picks[c] > 0 => kept[c] > 0
<1> DEFINE kept == RoundRobin(picks, n, order)
           rank(c, r) == Cardinality(Earlier(picks, order, c, r))
<1>1. n \in Nat /\ IsFiniteSet(D) /\ DOMAIN picks = D /\ \A c \in D : picks[c] \in Nat
  BY DEF RoundRobinOf
<1>2. \A c \in D : kept[c] \in 0..picks[c] /\ Kept(picks, n, order, c) = 1..kept[c]
  BY FirstPicksAreKept
<1> HIDE DEF kept
<1>3. \A c \in D : \A r \in 1..picks[c] : r <= kept[c] <=> rank(c, r) < n
  <2> TAKE c \in D
  <2> TAKE r \in 1..picks[c]
  <2>1. r \in Kept(picks, n, order, c) <=> rank(c, r) < n
    BY DEF Kept
  <2>2. r \in 1..kept[c] <=> r <= kept[c]
    BY <1>1, <1>2
  <2> QED
    BY <1>2, <2>1, <2>2
<1>4. ASSUME NEW c \in D, NEW d \in D, kept[c] > kept[d] + 1, kept[d] # picks[d]
      PROVE  FALSE
  <2>1. /\ kept[c] \in Nat /\ kept[d] \in Nat
        /\ kept[c] \in 1..picks[c] /\ kept[d] + 1 \in 1..picks[d]
    BY <1>1, <1>2, <1>4
  <2>2. rank(c, kept[c]) < n /\ ~(rank(d, kept[d] + 1) < n)
    BY <1>3, <2>1
  <2>3. /\ rank(d, kept[d] + 1) \in Nat /\ rank(c, kept[c]) \in Nat
        /\ rank(d, kept[d] + 1) < rank(c, kept[c])
    BY <1>4, <2>1, EarlierPicksRankLower
  <2> QED
    BY <1>1, <2>2, <2>3
<1>5. ASSUME NEW S \in SUBSET D, \A d \in D : picks[d] > 0 => d \in S,
             Cardinality(S) <= n, NEW c \in S, picks[c] > 0
      PROVE  kept[c] > 0
  <2> DEFINE E == Earlier(picks, order, c, 1)
             of == [x \in E |-> x[1]]
  <2>1. ASSUME NEW x \in E PROVE x[1] \in S \ {c} /\ x = <<x[1], 1>>
    <3>1. x \in RowsIn(picks)
          /\ (x[2] < 1 \/ (x[2] = 1 /\ Index(order, x[1]) < Index(order, c)))
      BY DEF Earlier
    <3>2. PICK d \in D : \E k \in 1..picks[d] : x = <<d, k>>
      BY <1>1, <3>1, RowOf
    <3>3. picks[d] > 0 /\ x[1] = d /\ x[2] \in Nat /\ x[2] >= 1 /\ x = <<d, x[2]>>
      BY <1>1, <3>2
    <3>4. x[2] = 1 /\ Index(order, d) < Index(order, c)
      BY <3>1, <3>3
    <3>5. d # c
      BY <3>4, ClassesHavePlaces
    <3> QED
      BY <1>5, <3>3, <3>4, <3>5
  <2>2. of \in [E -> S \ {c}] /\ \A x, y \in E : of[x] = of[y] => x = y
    BY <2>1
  <2>3. of \in Injection(E, S \ {c})
    <3> HIDE DEF of, E
    <3> QED
      BY <2>2 DEF Injection, IsInjective
  <2>4. IsFiniteSet(S) /\ Cardinality(S) \in Nat
    BY <1>1, FS_Subset, FS_CardinalityType
  <2>5. IsFiniteSet(S \ {c}) /\ Cardinality(S \ {c}) = Cardinality(S) - 1
    BY <2>4, FS_RemoveElement
  <2> HIDE DEF of, E
  <2>6. IsFiniteSet(E) /\ Cardinality(E) <= Cardinality(S \ {c})
    BY <2>3, <2>5, FS_Injection
  <2>7. Cardinality(E) \in Nat
    BY <2>6, FS_CardinalityType
  <2>8. rank(c, 1) < n
    BY <1>1, <1>5, <2>4, <2>5, <2>6, <2>7 DEF E
  <2>9. 1 \in 1..picks[c]
    BY <1>1, <1>5
  <2>10. 1 <= kept[c]
    BY <1>3, <2>8, <2>9
  <2> QED
    BY <1>1, <1>2, <2>10
<1> QED
  BY <1>4, <1>5 DEF kept

LEMMA ExplainedIsSound ==
  ASSUME NEW D, NEW pool, NEW n, NEW floor, NEW order, PoolOf(D, pool, n, floor, order)
  PROVE  LET explained == Explained(pool, n, floor, order)
         IN explained \in [D -> Nat] /\ SplitSound(pool, n, explained)
<1> DEFINE picks == Picks(pool, n, floor)
           kept == RoundRobin(picks, n, order)
           explained == Explained(pool, n, floor, order)
<1>1. /\ IsFiniteSet(D) /\ n \in Nat /\ DOMAIN pool = D
      /\ \A c \in D : pool[c] \in Nat
  BY DEF PoolOf, RoundRobinOf
<1>2. /\ picks \in [D -> Nat]
      /\ \A c \in D : picks[c] \in 0..pool[c]
      /\ \A c \in Strata(pool) : picks[c] > 0
      /\ \A c, d \in D : picks[c] > picks[d] => picks[d] = pool[d]
  BY PicksAreShares
<1>3. Strata(pool) \in SUBSET D
  BY <1>1 DEF Strata
<1> HIDE DEF picks
<1>4. Total(picks) \in Nat
  BY <1>1, <1>2, RowsAreFinite
<1>5. CASE ~(Total(picks) > n)
  <2>1. explained = picks
    BY <1>5 DEF Explained, picks
  <2>2. Total(picks) <= n
    BY <1>1, <1>4, <1>5
  <2> HIDE DEF explained
  <2>3. \A c, d \in D : picks[c] > picks[d] + 1 => picks[c] > picks[d]
    BY <1>2
  <2> QED
    BY <1>1, <1>2, <1>3, <2>1, <2>2, <2>3 DEF SplitSound, explained
<1>6. CASE Total(picks) > n
  <2>1. explained = kept
    BY <1>6 DEF Explained, picks
  <2>2. RoundRobinOf(D, picks, n, order)
    BY <1>2 DEF PoolOf, RoundRobinOf
  <2>3. DOMAIN kept = D /\ kept = [c \in D |-> kept[c]]
    BY <1>2 DEF RoundRobin
  <2>4. \A c \in D : kept[c] \in 0..picks[c]
    BY <2>2, FirstPicksAreKept
  <2>5. Total(kept) <= n
    BY <2>2, BudgetIsKept
  <2>6. /\ \A c, d \in D : kept[c] > kept[d] + 1 => kept[d] = picks[d]
        /\ \A S \in SUBSET D :
             (\A d \in D : picks[d] > 0 => d \in S) /\ Cardinality(S) <= n
               => \A c \in S : picks[c] > 0 => kept[c] > 0
    BY <2>2, TruncationIsFair
  <2> HIDE DEF kept, explained
  <2>7. \A c \in D : /\ picks[c] \in Nat /\ pool[c] \in Nat /\ picks[c] <= pool[c]
                     /\ kept[c] \in Nat /\ kept[c] <= picks[c]
    BY <1>1, <1>2, <2>4
  <2>8. kept \in [D -> Nat] /\ \A c \in D : kept[c] \in 0..pool[c]
    BY <2>3, <2>7
  <2>9. \A d \in D : picks[d] > 0 => d \in Strata(pool)
    BY <1>1, <2>7 DEF Strata
  <2>10. Cardinality(Strata(pool)) <= n => \A c \in Strata(pool) : kept[c] > 0
    BY <1>2, <1>3, <2>6, <2>9
  <2>11. ASSUME NEW c \in D, NEW d \in D, kept[c] > kept[d] + 1
         PROVE  kept[d] = pool[d]
    <3>1. kept[d] = picks[d]
      BY <2>6, <2>11
    <3>2. picks[c] > picks[d]
      BY <2>7, <2>11, <3>1
    <3> QED
      BY <1>2, <3>1, <3>2
  <2>12. \A c, d \in Strata(pool) : kept[c] > kept[d] + 1 => kept[d] = pool[d]
    BY <1>3, <2>11
  <2> QED
    BY <1>1, <2>1, <2>5, <2>8, <2>10, <2>12 DEF SplitSound, explained
<1> QED
  BY <1>5, <1>6

(***************************************************************************)
(* A run keeps the split it made when it loaded its taxonomy.              *)
(***************************************************************************)
SplitsMade ==
  /\ train \in [Raw -> Nat]
  /\ \A r \in Raw : train[r] <= RowsOf[r]
  /\ \A f \in Families :
       run[f] # None =>
         /\ Typed(run[f].tax)
         /\ run[f].explained = ExplainedSet(run[f].tax)
         /\ run[f].support = Competence(Pool(run[f].tax), run[f].explained)

LEMMA SplitsInit == Init => SplitsMade
<1> SUFFICES ASSUME Init PROVE SplitsMade
  OBVIOUS
<1>1. /\ train \in [Raw -> 0..TrainRows] /\ \A r \in Raw : train[r] <= RowsOf[r]
      /\ \A f \in Families : run[f] = None
  BY DEF Init
<1>2. 0..TrainRows \subseteq Nat
  BY LadderAssumption
<1> QED
  BY <1>1, <1>2 DEF SplitsMade

LEMMA SplitsStay == Inv /\ SplitsMade /\ [Next]_vars => SplitsMade'
<1> SUFFICES ASSUME Inv, SplitsMade, [Next]_vars PROVE SplitsMade'
  OBVIOUS
<1>1. /\ train' = train
      /\ \A g \in Families :
           \/ run'[g] = None
           \/ run[g] # None /\ run'[g].tax = run[g].tax
              /\ run'[g].explained = run[g].explained /\ run'[g].support = run[g].support
           \/ /\ run'[g].tax = tax /\ run'[g].explained = ExplainedSet(tax)
              /\ run'[g].support = Competence(Pool(tax), ExplainedSet(tax))
  <2>0. run = [g \in Families |-> run[g]]
    BY DEF Inv, RunsBehind
  <2>1. ASSUME NEW f \in Families, Fit(f)
        PROVE  /\ train' = train
               /\ \A g \in Families \ {f} : run'[g] = run[g]
               /\ run'[f].tax = tax /\ run'[f].explained = ExplainedSet(tax)
               /\ run'[f].support = Competence(Pool(tax), ExplainedSet(tax))
    <3> DEFINE e == ExplainedSet(tax)
               s == Competence(Pool(tax), e)
    <3>1. /\ train' = train
          /\ run' = [run EXCEPT ![f] = [phase |-> "fitted", tax |-> tax,
                                        explained |-> e, support |-> s]]
      BY <2>1 DEF Fit
    <3> HIDE DEF s, e
    <3>2. /\ \A g \in Families \ {f} : run'[g] = run[g]
          /\ run'[f].tax = tax /\ run'[f].explained = e /\ run'[f].support = s
      BY <2>0, <3>1
    <3> QED
      BY <3>1, <3>2 DEF e, s
  <2>2. ASSUME NEW f \in Families, Gate(f)
        PROVE  /\ train' = train
               /\ \A g \in Families \ {f} : run'[g] = run[g]
               /\ run[f] # None
               /\ \/ run'[f] = None
                  \/ /\ run'[f].tax = run[f].tax /\ run'[f].explained = run[f].explained
                     /\ run'[f].support = run[f].support
    <3>1. train' = train /\ run[f] # None
      BY <2>2 DEF Gate
    <3>2. \/ run' = [run EXCEPT ![f] = [run[f] EXCEPT !.phase = "certified"]]
          \/ run' = [run EXCEPT ![f] = None]
      BY <2>2 DEF Gate
    <3>3. run[f] = [phase |-> run[f].phase, tax |-> run[f].tax,
                    explained |-> run[f].explained, support |-> run[f].support]
      BY <3>1 DEF Inv, RunsBehind
    <3>4. LET q == [run[f] EXCEPT !.phase = "certified"]
          IN q.tax = run[f].tax /\ q.explained = run[f].explained /\ q.support = run[f].support
      BY <3>3
    <3> QED
      BY <2>0, <3>1, <3>2, <3>4
  <2>3. ASSUME NEW f \in Families, Apply(f) \/ Finish(f)
        PROVE  train' = train /\ \A g \in Families : run'[g] \in {run[g], None}
    BY <2>0, <2>3 DEF Apply, Finish
  <2>4. CASE UNCHANGED vars
    BY <2>4 DEF vars
  <2>5. CASE Next
    <3>1. PICK f \in Families : Fit(f) \/ Gate(f) \/ Apply(f) \/ Finish(f)
      BY <2>5 DEF Next
    <3>2. CASE Fit(f)
      BY <2>1, <3>2
    <3>3. CASE Gate(f)
      BY <2>2, <3>3
    <3>4. CASE Apply(f) \/ Finish(f)
      BY <2>3, <3>4
    <3> QED
      BY <3>1, <3>2, <3>3, <3>4
  <2> QED
    BY <2>4, <2>5
<1>2. Typed(tax)
  BY DEF Inv
<1>3. ASSUME NEW g \in Families, run'[g] # None
      PROVE  \E t : /\ run'[g].tax = t /\ Typed(t)
                    /\ run'[g].explained = ExplainedSet(t)
                    /\ run'[g].support = Competence(Pool(t), run'[g].explained)
  <2>1. CASE run[g] # None /\ run'[g].tax = run[g].tax
             /\ run'[g].explained = run[g].explained /\ run'[g].support = run[g].support
    BY <2>1 DEF SplitsMade
  <2>2. CASE /\ run'[g].tax = tax /\ run'[g].explained = ExplainedSet(tax)
             /\ run'[g].support = Competence(Pool(tax), ExplainedSet(tax))
    BY <1>2, <2>2
  <2> QED
    BY <1>1, <1>3, <2>1, <2>2
<1>4. ASSUME NEW g \in Families, run'[g] # None
      PROVE  (/\ Typed(run[g].tax)
              /\ run[g].explained = ExplainedSet(run[g].tax)
              /\ run[g].support = Competence(Pool(run[g].tax), run[g].explained))'
  <2>1. PICK t : /\ run'[g].tax = t /\ Typed(t)
                 /\ run'[g].explained = ExplainedSet(t)
                 /\ run'[g].support = Competence(Pool(t), run'[g].explained)
    BY <1>3, <1>4
  <2>2. Typed(run[g].tax)'
    BY <2>1 DEF Typed
  <2>3. (Pool(run[g].tax))' = Pool(t)
    BY <1>1, <2>1 DEF Pool, PerClass
  <2>4. (ExplainedSet(run[g].tax))' = Explained((Pool(run[g].tax))', NExplain, MinorityFloor,
                                               StratumOrder)
    BY DEF ExplainedSet
  <2>5. (run[g].explained = ExplainedSet(run[g].tax))'
    BY <2>1, <2>3, <2>4 DEF ExplainedSet
  <2> QED
    BY <2>1, <2>2, <2>3, <2>5
<1> QED
  BY <1>1, <1>4 DEF SplitsMade

LEMMA ClassTotals ==
  ASSUME NEW t, Typed(t), SplitsMade
  PROVE  /\ PoolOf(t.classes, Pool(t), NExplain, MinorityFloor, StratumOrder)
         /\ PerClass(t, train) \in [t.classes -> Nat]
         /\ \A c \in t.classes :
              PerClass(t, train)[c] + Pool(t)[c] = PerClass(t, RowsOf)[c]
<1> DEFINE left == [r \in Raw |-> RowsOf[r] - train[r]]
           labelled(c) == {q \in Raw : t.label[q] = c}
           of(c, rows) == [r \in labelled(c) |-> rows[r]]
<1>1. /\ RowsOf \in [Raw -> Nat] /\ train \in [Raw -> Nat]
      /\ \A r \in Raw : train[r] <= RowsOf[r]
  BY LadderAssumption DEF SplitsMade
<1>2. left \in [Raw -> Nat] /\ \A r \in Raw : train[r] + left[r] = RowsOf[r]
  <2>1. ASSUME NEW r \in Raw PROVE left[r] \in Nat /\ train[r] + left[r] = RowsOf[r]
    <3>1. RowsOf[r] \in Nat /\ train[r] \in Nat /\ train[r] <= RowsOf[r]
      BY <1>1
    <3> QED
      BY <3>1
  <2> QED
    BY <2>1
<1>3. Pool(t) = PerClass(t, left)
  BY DEF Pool
<1> HIDE DEF left
<1>4. ASSUME NEW c \in t.classes
      PROVE  /\ Total(of(c, train)) \in Nat /\ Total(of(c, left)) \in Nat
             /\ Total(of(c, RowsOf)) = Total(of(c, train)) + Total(of(c, left))
  <2>1. IsFiniteSet(labelled(c))
    BY LadderAssumption, FS_Subset
  <2>2. /\ of(c, train) \in [labelled(c) -> Nat] /\ of(c, left) \in [labelled(c) -> Nat]
        /\ of(c, RowsOf) \in [labelled(c) -> Nat]
        /\ \A r \in labelled(c) : of(c, RowsOf)[r] = of(c, train)[r] + of(c, left)[r]
    BY <1>1, <1>2
  <2> HIDE DEF of, labelled
  <2> QED
    BY <2>1, <2>2, RowsAreFinite, TotalsAdd
<1>5. \A rows : PerClass(t, rows) = [c \in t.classes |-> Total(of(c, rows))]
  BY DEF PerClass
<1> HIDE DEF of
<1>6. /\ PerClass(t, train) \in [t.classes -> Nat] /\ Pool(t) \in [t.classes -> Nat]
      /\ \A c \in t.classes :
           PerClass(t, train)[c] + Pool(t)[c] = PerClass(t, RowsOf)[c]
  BY <1>3, <1>4, <1>5
<1>7. IsFiniteSet(t.classes)
  <2>1. /\ StratumOrder \in [1..Len(StratumOrder) -> Range(StratumOrder)]
        /\ Len(StratumOrder) \in Nat
    BY LadderAssumption
  <2>2. StratumOrder \in Surjection(1..Len(StratumOrder), Range(StratumOrder))
    BY <2>1 DEF Surjection, Range
  <2>3. IsFiniteSet(1..Len(StratumOrder))
    BY <2>1, FS_Interval
  <2>4. IsFiniteSet(Range(StratumOrder))
    BY <2>2, <2>3, FS_Surjection
  <2> QED
    BY <2>4, FS_Subset DEF Typed
<1> QED
  BY <1>6, <1>7, LadderAssumption DEF PoolOf, RoundRobinOf, Typed

\* Under any taxonomy a run may have loaded, the explained set keeps its budget,
\* has every stratum it has room for, favours none, and shares no row with what
\* trains the detector or what the gate reads; nothing is lost
\* (cicids2017.py:204-277).
THEOREM EverySplitIsSound == Spec => []SplitsStaySound
<1>1. Init => Inv /\ SplitsMade
  BY InvInit, SplitsInit
<1>2. Inv /\ SplitsMade /\ [Next]_vars => (Inv /\ SplitsMade)'
  BY Inductive, SplitsStay
<1>3. Inv /\ SplitsMade => SplitsStaySound
  <2> SUFFICES ASSUME SplitsMade, NEW f \in Families, run[f] # None
               PROVE  /\ SplitSound(Pool(run[f].tax), NExplain, run[f].explained)
                      /\ \A c \in run[f].tax.classes :
                           PerClass(run[f].tax, train)[c] + run[f].explained[c]
                             + run[f].support[c] = PerClass(run[f].tax, RowsOf)[c]
    BY DEF SplitsStaySound
  <2>1. PICK t : t = run[f].tax
    OBVIOUS
  <2>2. /\ Typed(t) /\ run[f].explained = ExplainedSet(t)
        /\ run[f].support = Competence(Pool(t), run[f].explained)
    BY <2>1 DEF SplitsMade
  <2>3. /\ PoolOf(t.classes, Pool(t), NExplain, MinorityFloor, StratumOrder)
        /\ PerClass(t, train) \in [t.classes -> Nat]
        /\ \A c \in t.classes :
             PerClass(t, train)[c] + Pool(t)[c] = PerClass(t, RowsOf)[c]
    BY <2>2, ClassTotals
  <2>4. /\ ExplainedSet(t) \in [t.classes -> Nat]
        /\ SplitSound(Pool(t), NExplain, ExplainedSet(t))
    BY <2>3, ExplainedIsSound DEF ExplainedSet
  <2>5. Pool(t) \in [t.classes -> Nat]
    BY <2>3 DEF PoolOf, RoundRobinOf
  <2>6. ASSUME NEW c \in t.classes
        PROVE  PerClass(t, train)[c] + ExplainedSet(t)[c] + run[f].support[c]
                 = PerClass(t, RowsOf)[c]
    <3>1. run[f].support[c] = Pool(t)[c] - ExplainedSet(t)[c]
      BY <2>2, <2>5 DEF Competence
    <3>2. /\ PerClass(t, train)[c] \in Nat /\ ExplainedSet(t)[c] \in Nat
          /\ Pool(t)[c] \in Nat
          /\ PerClass(t, train)[c] + Pool(t)[c] = PerClass(t, RowsOf)[c]
      BY <2>3, <2>4, <2>5
    <3> QED
      BY <3>1, <3>2
  <2> QED
    BY <2>1, <2>2, <2>4, <2>6
<1> QED
  BY <1>1, <1>2, <1>3, PTL DEF Spec

===============================================================================
