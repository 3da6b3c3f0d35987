----------------------------- MODULE TierALedgers -----------------------------
(***************************************************************************)
(* The data a Tier-A study is made of: the (generator, instance) cells of  *)
(* its design, the four call ledgers its sessions fill, and the results of *)
(* a cell as functions of those ledgers.                                   *)
(***************************************************************************)
EXTENDS Integers, FiniteSets

CONSTANTS
  N,          \* number of (generator, instance) cells
  Drafted,    \* cells whose generator drafts with the LLM (B2..B5)
  Verified,   \* cells whose draft the verifier checks (B4, B5)
  Cases,      \* explained instances
  Case,       \* the instance of each cell
  Template,   \* B1's text for each instance: B1 itself and the fallback
  Rosters,    \* the generator lists a step may be run with, as sets of cells
  Texts,      \* explanation texts
  Claims,     \* extracted claim sets
  Scores,     \* plausibility ratings, "did not parse" among them
  None        \* no answer recorded

Cells == 1..N

\* A verifier reply, read off its verdict line; a "silent" one has none.
Verdicts == {"supported", "unsupported", "silent"}

ASSUME StudyAssumption ==
  /\ N \in Nat
  /\ Verified \subseteq Drafted /\ Drafted \subseteq Cells
  /\ Case \in [Cells -> Cases]
  /\ Template \in [Cases -> Texts]
  /\ Rosters \subseteq SUBSET Cells
  /\ None \notin Texts \cup Claims \cup Scores \cup Verdicts

VARIABLES
  gen,        \* generation ledger: the draft of each cell
  ver,        \* verifier ledger: the verdict on a text for an instance
  ext,        \* extraction ledger: the claims of a text
  jud         \* judge ledger: the rating of a text

ledgers == <<gen, ver, ext, jud>>

NoAnswers ==
  /\ gen = [c \in Cells |-> None]
  /\ ver = [k \in Cases |-> [t \in Texts |-> None]]
  /\ ext = [t \in Texts |-> None]
  /\ jud = [t \in Texts |-> None]

HasDraft(c) == c \in Drafted => gen[c] # None

Verdict(c) == ver[Case[c]][gen[c]]

HasVerdict(c) == c \in Verified => Verdict(c) # None

\* Abstention: whatever is not clearly supported is not shown.
Abstains(c) == c \in Verified /\ Verdict(c) # "supported"

\* What the cell shows; an abstention degrades to B1's text, never silence.
Shown(c) ==
  IF c \notin Drafted \/ Abstains(c) THEN Template[Case[c]] ELSE gen[c]

\* A cell's lines in explanations.jsonl, claims.jsonl and metrics.jsonl.
Row(c) == [text |-> Shown(c), abstained |-> Abstains(c),
           claims |-> ext[Shown(c)], score |-> jud[Shown(c)]]

\* The generation calls on record, which the cost rows are computed from.
CallsOnRecord == {c \in Cells : gen[c] # None}
==============================================================================
