-------------------------------- MODULE Ladder --------------------------------
(***************************************************************************)
(* The class taxonomy between the smoke gate and primary generation: runs  *)
(* that fit and gate a detector (execute.py run_pilot up to the gate), the *)
(* competence.json each leaves behind, and the tool that materialises a    *)
(* recorded decision (tools/apply_contingency.py).                         *)
(*                                                                         *)
(* A run reads the taxonomy once (load_taxonomy is cached) and may still   *)
(* be fitting when the tool rewrites it; each detector family has a        *)
(* competence.json of its own, the taxonomy is shared.                     *)
(***************************************************************************)
EXTENDS Contingency, Splits

CONSTANTS
  Families,       \* detector families, each with its model directory
  Registered,     \* the registered taxonomy (rung 1)
  KbEntries,      \* the raw labels the attack-class KB describes
  RowsOf,         \* the dataset: how many rows each raw label has
  TrainRows,      \* how many of them the seeded split trains on
  NExplain,       \* n_explain
  MinorityFloor,  \* minority_floor
  StratumOrder,   \* every class name, leaf or parent, in sorted order
  None            \* no value

Raw == DOMAIN Registered.label

ASSUME LadderAssumption ==
  /\ TaxonomyValid(Registered) /\ Benign \in Registered.classes
  /\ Registered.label \in [Raw -> Registered.classes \cup {Excluded}]
  /\ Registered.parent \in [Registered.classes -> Range(StratumOrder)]
  /\ Registered.classes \subseteq Range(StratumOrder) /\ Excluded \notin Range(StratumOrder)
  /\ KbEntries \subseteq Raw
  /\ Registered.version \in Nat
  /\ IsFiniteSet(Raw) /\ StratumOrder \in Seq(Range(StratumOrder))
  /\ RowsOf \in [Raw -> Nat]
  /\ TrainRows \in Nat /\ NExplain \in Nat \ {0} /\ MinorityFloor \in Nat

VARIABLES
  tax,    \* configs/taxonomy/<dataset>.yaml
  train,  \* rows of each raw label in the training frame; the seed fixes it
  run,    \* the run of each family: None, fitting, or how its gate ended
  record  \* competence.json of each family: None or table and decision

vars == <<tax, train, run, record>>

\* Rows of each class under taxonomy t, given rows of each raw label: rows of
\* excluded labels have no target_class.
PerClass(t, rows) ==
  [c \in t.classes |-> Total([r \in {q \in Raw : t.label[q] = c} |-> rows[r]])]

Pool(t) == PerClass(t, [r \in Raw |-> RowsOf[r] - train[r]])

ExplainedSet(t) == Explained(Pool(t), NExplain, MinorityFloor, StratumOrder)

\* multiclass_frame: only the classes the training frame has are fitted.
FittedOn(t) == {c \in t.classes : PerClass(t, train)[c] > 0}

Init ==
  /\ tax = Registered
  /\ train \in {f \in [Raw -> 0..TrainRows] :
                  /\ \A r \in Raw : f[r] <= RowsOf[r]
                  /\ \E r \in Raw : Registered.label[r] = Benign /\ f[r] > 0
                  /\ Total(f) = TrainRows}
  /\ run = [f \in Families |-> None]
  /\ record = [f \in Families |-> None]

\* A run is launched: it loads and splits the data under today's taxonomy and
\* fits.  A vocabulary of less than three classes is refused.
Fit(f) ==
  /\ run[f] = None
  /\ Cardinality(FittedOn(tax)) >= 3
  /\ LET explained == ExplainedSet(tax)
     IN run' = [run EXCEPT ![f] =
          [phase |-> "fitted", tax |-> tax, explained |-> explained,
           support |-> Competence(Pool(tax), explained)]]
  /\ UNCHANGED <<tax, train, record>>

\* The decision of a run: on the taxonomy it loaded, for the classes it fitted;
\* run_pilot passes no current_rung, so it is always the leaf rung's.
DecideOnLoaded(f, table, macroOk) ==
  Resolve(table, macroOk, run[f].tax, FittedOn(run[f].tax), Leaf)

\* The gate: competence.json is written, with the contingency's decision, and
\* only then is a failing detector refused.  A detector predicts only classes
\* it was fitted on; every class it hits it predicts.
Gate(f) ==
  /\ run[f] # None /\ run[f].phase = "fitted"
  /\ \E hit \in SUBSET (FittedOn(run[f].tax) \ {Benign}), macroOk \in BOOLEAN :
     \E guessed \in {hit \cup {Benign}, FittedOn(run[f].tax)} :
       LET table == ClassificationTable(run[f].support, hit \cup {Benign}, guessed)
       IN /\ \A c \in hit : run[f].support[c] > 0
          /\ record' = [record EXCEPT ![f] =
               [table |-> table, decision |-> DecideOnLoaded(f, table, macroOk),
                version |-> run[f].tax.version]]
          /\ run' = [run EXCEPT ![f] =
               IF GatePasses(table, macroOk) THEN [@ EXCEPT !.phase = "certified"]
               ELSE None]
  /\ UNCHANGED <<tax, train>>

\* apply_contingency main: a record is evidence, not authority.
Reproduces(r) ==
  r.decision = Resolve(r.table, r.decision.stats.macroOk, tax,
                       r.decision.stats.vocabulary, r.decision.stats.rung)

\* It re-resolves the recorded decision on the current taxonomy and refuses one
\* that differs, does not change the vocabulary, is terminal or cannot be
\* applied, or whose result is invalid; otherwise it writes the taxonomy.
Apply(f) ==
  /\ record[f] # None
  /\ Reproduces(record[f])
  /\ Applicable(tax, record[f].decision)
  /\ TaxonomyValid(ApplyToTaxonomy(tax, record[f].decision))
  /\ tax' = ApplyToTaxonomy(tax, record[f].decision)
  /\ UNCHANGED <<train, run, record>>

\* A certified run goes on to generation and is over.
Finish(f) ==
  /\ run[f] # None /\ run[f].phase = "certified"
  /\ run' = [run EXCEPT ![f] = None]
  /\ UNCHANGED <<tax, train, record>>

Next == \E f \in Families : Fit(f) \/ Gate(f) \/ Apply(f) \/ Finish(f)

Spec == Init /\ [][Next]_vars

(***************************************************************************)
(* Properties.                                                             *)
(***************************************************************************)
\* A rewritten taxonomy still labels every raw label with a class or excludes
\* it, has BENIGN as its own class, is one that
\* validate-configs accepts, and the KB's entries still have a mapping
\* (contingency.py:384-409, validate_configs.py:52).
TaxonomyStaysValid ==
  /\ tax.label \in [Raw -> tax.classes \cup {Excluded}]
  /\ tax.parent \in [tax.classes -> Range(StratumOrder)]
  /\ Benign \in tax.classes
  /\ TaxonomyValid(tax)
  /\ KbCovered(tax, KbEntries)

\* Every decision that changes the vocabulary and is not terminal can be
\* materialised on the taxonomy it was resolved on: apply_contingency never
\* needs its last check.
DecisionsApply ==
  \A f \in Families :
    record[f] # None =>
      LET d == record[f].decision
      IN record[f].version = tax.version /\ d.changed /\ d.rung # BinaryRung =>
           Applicable(tax, d) /\ TaxonomyValid(ApplyToTaxonomy(tax, d))

\* The tool never writes a decision that was resolved on another version of the
\* taxonomy, although the record names no version (apply_contingency.py:199).
NoStaleDecisionApplied ==
  [][\A f \in Families : Apply(f) => record[f].version = tax.version]_vars

\* Each stratum is explained, the explained set is balanced, and what is left
\* is what the gate reads (cicids2017.py:204).
SplitsStaySound ==
  \A f \in Families :
    run[f] # None =>
      /\ SplitSound(Pool(run[f].tax), NExplain, run[f].explained)
      /\ \A c \in run[f].tax.classes :
           PerClass(run[f].tax, train)[c] + run[f].explained[c] + run[f].support[c]
             = PerClass(run[f].tax, RowsOf)[c]
===============================================================================
