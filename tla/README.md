# Verification of FaithfulIDS

FaithfulIDS measures how faithful the explanations of intrusion detectors are.
Its numbers come from thousands of language-model calls made over many sessions
of limited length, on machines that are shut down under the program; from an
instrument that reads claims out of text and is certified by human annotators;
and from run directories that gates, audits, analyses and the paper read
afterwards. What can go wrong there is seldom a formula and often an order of
events: a session killed between two writes, a decision applied to a taxonomy it
was not made for, a token earned by another version of the instrument. The
modules here model those parts of the repository, TLC checks them on small
instances, and TLAPS proves the main results for every instance.

Paths below are relative to the repository; `faithfulids/` stands for
`src/faithfulids/`.

## The system

| Part | State it keeps | Operations | Modelled in |
|---|---|---|---|
| LLM call ledger and client (`faithfulids/llm/ledger.py`, `client.py`) | `ledger.jsonl`; an index in memory per process | `lookup`, `append`, `complete` in live and replay mode | `CallLedger` |
| Model providers (`llm/providers.py`) | the models an Ollama server holds | `complete`, `unload`, the pinned build | partly: `TierA`, `Launch` |
| Tier-A orchestration (`orchestration/cli.py`, `execute.py`, `runner.py`) | four ledgers, the session's pass and budget | the steps generate, verify, score | partly: `TierA`, `Ladder` |
| Generators B0..B5, verifier (`generation/`) | none | `generate`, `verify`, abstention, B1's template | partly: `TierALedgers`, `Layer1` |
| Claim extraction (`extraction/extractor.py`) | whether the last reply parsed | `extract`, by rule or through a model | `Extraction`, `Claims`, `TierA` |
| Plausibility judge (`metrics/plausibility/`) | none | `rate`, `parse_judge_scores` | partly: `TierA` |
| Runs and provenance (`provenance/`, `runner.write_run`) | `runs/<experiment>/<run id>/` | mint an id, write a run, read STATUS and manifest | `RunStore` |
| Gates (`orchestration/gates.py`, `extractor_gate.py`, `rq0_gate.py`) | tokens: COMPLETE runs stamped PASSED | `enforce_gates`, the verdicts of EXP-G-001 and EXP-G-002 | `RunStore`, `Audit`, `Battery`, `Launch` |
| Contingency ladder, competence gate (`detectors/contingency.py`, `competence.py`, `tools/apply_contingency.py`) | `competence.json` per detector family, the taxonomy | `resolve`, `apply_to_taxonomy`, the gate | `Contingency`, `Ladder` |
| Datasets, detectors, attribution | frames, fitted models | splits, scores, explained class | partly: `Splits`, `Ladder`, `Layer2` |
| Metrics (`metrics/layer1`, `layer2`) | none | pure functions | partly: `Layer1`, `Layer2` |
| Corruption operators, RQ0 battery (`corruption/`, `rq0_gate.py`) | none | five operators, operating points, the verdict | `Battery` |
| Extractor audit (`tools/build_audit_batch.py`, `compare_annotations.py`, `score_audit_gate.py`, `reextract_llm_assisted.py`) | batches, reply files, the audit key, tokens | draw, answer, adjudicate, re-extract, score | `Agreement`, `Audit` |
| Annotation page (`annotator.html` in `build_audit_batch.py`) | one bucket of browser storage per name | judge, add, rename, reopen, export | `Annotator` |
| Analyses (`src/analysis/`) | `results.json`, `MANIFEST.json` per config | resolve runs, aggregate, write, `--check`, `--all` | `Analysis` |
| Results API, mapping check (`results/`) | none | `load_run`, `check` | partly: readers in `RunStore`, `Analysis` |
| Kaggle launchers (`kaggle/`) | the ledgers carried between sessions | restore, pin, gate, step, export | partly: `Launch` |
| Registry, cell expansion, config checks (`orchestration/`) | configuration files | pure functions over YAML | partly: `Contingency` |
| Repository tools (`tools/`, the rest) | none | static checks and reports | no |

How they interact. A launcher session restores the ledgers of earlier sessions,
earns its gate tokens and runs one step. `cmd_run` enforces the gates for a score
step and calls `run_pilot`, which loads the data under the class taxonomy, fits
and gates the detector, records what the contingency ladder decides, builds the
cells (instance, generator) and passes over them with `generate_only`,
`_score_passes` and `run_cells`. Each generator, verifier, extractor and judge
call is `LLMClient.complete` on the ledger of its kind. The extractor's claims
are measured by layer 1 against the attribution and by layer 2 against the
detector. The score step ends in `write_run`. Then other programs read `runs/`:
gates when a later experiment is launched, the audit tools that draw a batch for
annotators and turn their answers into the extractor's token, the analyses, the
mapping check for the paper.

What makes each part correct: a request has one answer for ever (ledger); a run
says what its ledgers say, however many sessions it took (orchestration); no
exported call is lost between sessions (launcher); a directory that says COMPLETE
is whole and never changes (runs); no study has results its gates did not allow
(gates); a decision is applied only to the taxonomy it was made for (ladder); what
B1 asserts is what the extractor reads (instrument); every registered corruption
is told from the faithful text (battery); an audit's verdict can be computed again
from the claims it was given on and does not depend on who is called the first
annotator (audit); a manifest names the runs its results came from (analyses). `PROJECT.json` lists
each hazard at its line with the properties about it.

## The modules

Names follow the code where TLA+ allows it. The `MC*` modules give the constants
of the instances. Operators under a comment that starts with "Bug:" are plausible
mistakes; no specification uses them, they are what `PROJECT.json` names as
mutants to show that a property can fail.

### Calls and sessions

**`CallLedger`**, which implements **`ReplayStore`**. `file` is `ledger.jsonl` as
the pieces that reached it: a whole line, or a line whose buffered text was
flushed in two. A first part is `"cut"` (inside the JSON) or `"bare"` (only the
newline is missing), the second is `"rest"`. `RecordAt`, `Readable` and `First`
are what `_load_index` makes of such a file; a piece that follows a cut or bare
one it does not complete damages both. Each process has its mode, its index, read
at most once, and the call it is in: `CompleteHit`, `CompleteLiveMiss`,
`ProviderReplies`, `AppendLine` or `AppendPart` and `AppendRest`,
`CompleteReplayMiss`, `CompleteUnpinned`, `CompleteUnreadable`, and `Stop` (a kill
or an error) anywhere. `served` is a history variable: every reply handed to a
caller. `exclusive`, chosen at the start, says whether one process at a time holds
the file, as the launchers arrange, or several do, which nothing in the code
forbids. `ReplayStore` says what callers of an exclusive ledger rely on: one
answer per request, never rewritten, every reply is that answer.

**`TierALedgers`** holds the four ledgers as functions (the draft of each cell, the
verdict on a text for an instance, the claims and the rating of a text) and what
the generators show: a B4/B5 draft that is not clearly supported is replaced by
B1's text. **`TierA`** is the session. `phase` is its pass: `generate`, `verify`,
or, in a score step, `pass1` (verify what is left), `extract` and `judge` (the
budgeted passes), `cells` (`run_cells`), `rate` (the judge's pass 3). `todo` are
the cells the pass has not reached, in generator-major order, or in the judge's
shuffled order. `over` says that the budget has run out. `loaded` are the models
the Ollama server holds. One action per item of each pass, one per change of
pass, and `Crash`, `StopAtBudget`, `ReplayMiss`, `JudgeRaises` for the ways a
session ends early; `Expire` is the server dropping a model. **`Study`** is what
it all implements: answers are recorded once, and a published run is computed
from them (`execute.py:375`, "the run is the one an unbudgeted score step writes").

**`Launch`** is the chain of Kaggle sessions around it
(`kaggle/tier_a/tier_a_launcher.ipynb`), one action per group of cells:
`Start` (the phase and study, and `Restored`: of the attached copies of each
ledger the longest wins), `Serve` (a pull may fetch another build than the
pinned one; weights and template are compared, a license is not), `GateRun` for
EXP-G-001 and then EXP-G-002, `EnforceGates`, `Call`, the ways a step ends
(`StepEnds`, `StopsAtBudget`, `StepMisses`, `StepFails`), `Export` and `Killed`.
A gate run passes, fails its verdict with exit code 0 (the session goes on, without
a token, until `EnforceGates` refuses), or ends with an error (the session goes
straight to the export). A step that will miss a draft still makes, and exports,
the calls of the cells before it: `Call` does not ask whether the step can finish.
The operator attaches the newest export and perhaps an older one (`kept`). What a
step does between two calls is `TierA`'s.

### Runs and their readers

**`RunStore`** models `runs/`. A process launches an experiment, works, mints its
id, creates the directory and makes the ten writes of `WriteOrder`: each file is
first truncated, then filled. It can be killed between any two, and `Checkout` may
come at any time. A study reads its extraction configuration twice: `LaunchStudy`
is the gate check, on the commit of the moment (`checked`, a history), and
`LoadExtractor`, after data and training, reads it again for the extractor that is
used and recorded (`code`). `EnforceGates` is the set of what `enforce_gates` may do, since
`iterdir` promises no order; `MappingAccepts` is the mapping check. The extractor
audit stamps the commit it read when it started, the other experiments the one
checked out when they end (`score_audit_gate.py`, `execute.py:911`).

**`Analysis`** is the only program that pools runs. Runs appear by the stages of
`write_run` (`WriteRun`); `ResolveRunIds` enumerates them or takes the last
directory by name; `Outcome` says what pooling raises on (an unreadable manifest,
two extractor versions); the statistics' inputs (`InstanceValues`, `CoverageRisk`,
`PerClass`, `CostSummary`, `Redundancy`, `CapabilityPoints`) are computed from the
pooled rows. A job goes through its configs, writes `results.json`, then
`MANIFEST.json`, in two writes each, or compares (`Check`), and can end anywhere.

### Taxonomy and detector

**`Contingency`** has `Resolve` (below the failure trigger one pass of lineage
merges and exclusions, at the trigger one rung down: every fold, then the binary
detector), `ApplyToTaxonomy`, the structural checks of
`validate_configs` (`TaxonomyValid`, `KbCovered`) and the competence gate.
**`Splits`** has the counts of the stratified explanation sample: quotas, the
minority floor and the round-robin truncation. **`Ladder`** composes them:
families `Fit` on the taxonomy of the moment, `Gate` writes `competence.json`
with the decision, `Apply` is `tools/apply_contingency.py`, which re-resolves a
recorded decision on the present taxonomy, and may come at any time between.

### The instrument

**`Extraction`** is the rule engine (mentions longest name first with masking, the
window of a claim, direction cues) and the parsing of a model's reply with its
fallback. **`Layer1`** is B1's template and the claim-level metrics as fractions;
**`Layer2`** the class that is explained and the erasure deltas. **`Claims`**
composes the first two: an instance is attributed, told, extracted, measured.
**`Battery`** is the gate EXP-G-002: `Explain` an instance, `Inject` the five
operators, score every variant, then `Judge`: operating points by Youden's index
and the verdict on the designated pairs.

### The audit

**`Agreement`** has cells, kappa, alpha, gold, F1 and the verdict rule.
**`Audit`** draws batches (`Build`, with any of the earlier keys held out, as
`--exclude` names them; `drawn` is the sequence of batches, equal ones
included), lets annotators `Answer`, `Adjudicate`, `Iterate` on the extractor, `ReExtract` under a new version key and
`Score` a token. **`Annotator`** is the page: `storage` is the browser's, `page`
what is shown, `active` the bucket in use; each judgment carries the name in the
box when it was made, as a history.

## The runs

| Run (configuration) | Properties | What it shows |
|---|---|---|
| `ledger` (`MCCallLedger_replay`) | `OneAnswer`, `ServedIsRecorded`, `ReplaysAgree`, `ImplementsStore` | two processes on one ledger, killed and restarted anywhere; with one at a time it is the write-once store, and replays agree always |
| `tiera_one` (`MCTierA_one`) | `OneModelAtATime`, `ScoringReplays`, `RunsReplay`, `EveryStudyPublishes` | one instance under B1, B2 and B4: passes, budgets and kills; a study launched again and again is published |
| `tiera_two` (`MCTierA_two`) | `CompleteMeansComplete`, `ImplementsStudy` | two instances, sessions with two generator lists on the same ledgers |
| `launch` (`MCLaunch_chain`) | `TypeOK`, `ChainNests`, `InstrumentsReadTheseDrafts`, `InstrumentsArePinned`, `RunsAreGatedAndWhole`, `EveryStudyIsPublished` | a registered study and a smoke test of one model, an older dataset attached beside the newest, four builds, one fault |
| `runstore_race` (`MCRunStore_race`) | `CompleteIsWhole`, `StudiesAreGated`, `PublishedIsFinal`, `MappedIsFinal` | two processes, a gate and a study, two extractor versions, two minutes, checkouts at any time |
| `analysis` (`MCAnalysis_pool`) | `ManifestNamesItsRuns`, `EnumeratedReproduces` | two analyses written and checked while two runs appear, over every pairing of tests in `MCPlans` |
| `ladder` (`MCLadder_tool`) | `TaxonomyStaysValid`, `DecisionsApply`, `SplitsStaySound`, `NoStaleDecisionApplied` | five classes, two of one lineage; every training split of seven rows, every competence table |
| `claims` (`MCClaims_read`) | `TemplateRoundTrips`, `SentencesAreLocal`, `SilenceIsNotScored` | B1's template of every attribution and every text of four phrases, read by rule; every model reply of at most two items |
| `battery` (`MCBattery_gate`) | `EveryPairSeparates`, `OperatingPointsAreBest`, `OneClassThroughout` | every battery of three instances over six attributions and four heads, binary and three-class |
| `audit` (`MCAudit_gate`) | `VerdictIsSymmetric`, `AdjudicationDecides`, `ToolsAgree`, `TokensKeepTheirClaims` | two draws of a three-text run, the first one's key held out or not, two annotators, adjudication, two extractor versions |
| `annotator` (`MCAnnotator_shared`) | `PageIsSaved`, `NamedWorkStaysPut`, `WorkIsKept` | two names and the empty box on one browser, one listed feature and one that must be added |
| `audit_extremes` (`MCAudit_extremes`) | `DecidedIsFinal` | a counterexample to what `score_audit_gate.py:25-26` says, see below |

There is no separate check of types in most runs: the types of `CallLedger`,
`TierA`, `RunStore`, `Launch`, `Annotator`, `Ladder`, `Audit` and `Analysis` are
part of what is proved, and the other modules are operators over enumerated data.
`launch` checks its `TypeOK` because that is where the separation of smoke ledgers
from registered ones is stated.

Bounds, and why they suffice.

- `ledger`: records only interact when they are of one request, or when two
  processes' pieces meet in the file; two requests, two answers and two processes
  have both. Nothing bounds the ledger's length: an answer is recorded once per
  process, so the instance is finite. A request outside `Pinned` exercises the
  refusal.
- `tiera_*`: a third generator separates drafted, verified and template cells, a
  second instance lets texts coincide across instances; two texts are enough for a
  draft to coincide with the template or not. `tiera_two` launches its sessions
  with B1 and B4, or with B1 alone, so that a COMPLETE of one list meets calls of
  the other; it keeps one claim set and one rating, which `tiera_one` varies.
  `MaxCrashes` is 2 or 1: one kill to leave something behind, another to kill the
  session that finds it. Budgets need no bound: a call may exhaust them at any
  time.
- `launch`: the smoke test has fewer cells than the registered study, so that the
  longest copy of a ledger differs from study to study; the builds are the pinned
  one under another license, one with a replaced layer, one with a layer on top.
  `MaxFaults` is 1: a fault, which a gate that fails is too, loses at most a
  session. Nothing bounds sessions.
- `runstore_race`: `MaxLaunches` is 3 (a gate run, a second run of it or of the
  study, one more to collide with); two minutes and two commits give ids that are
  equal, differ in the minute or differ in the commit. Processes differ in their
  name only and are a symmetry set.
- `analysis`: two runs of one extractor that disagree on value, gate and coverage
  and one of another version, in every combination. `GateMin` and `Threshold` are
  1, with companions on either side. Each config may be edited to any of three
  lists of runs.
- `ladder`: five attack classes would fold as four do; what counts is a class
  with siblings, classes without, a label excluded from the start, and classes
  that the split leaves with no row. Floors are small (`MinSupport` 1,
  `MinAttack` 2), with counts on both sides; `FailurePercent` is the registered 50.
- `claims`: the three features have a name inside another's and an alias; four
  phrases give a window that is cut by a sentence, by another name, or by neither.
- `battery`: the registered operators, designations and operating points, with
  the generators' `top_k` of 5 and a vocabulary of six (one feature for
  fabrication). The six attributions have all orders, equal magnitudes and zeros;
  the heads flip at the first erasure, never, or near the boundary.
- `audit`: a batch of two of the three items, then one that is disjoint (the item
  that is left), overlapping or equal. The annotators agree, or dispute a listed feature and
  one that was not listed; an adjudicator rules for absence, which is what can
  settle them. There are no decoys, which are candidates like any other
  (`audit_extremes` has one for each item). Two versions are what a re-extraction
  needs; one token is enough to be contradicted.
- `annotator`: names only interact in pairs and through the empty box; one item
  and two features, since judgments of different cells never touch. `MaxExports`
  is 1: an export reads a bucket and changes none.

`CHECK_DEADLOCK FALSE` stands where the system really stops: the text is
measured, the battery has its verdict, the audit has issued its tokens, the
ladder has nothing left to fit or apply.

Fairness. In `tiera_one`, weak fairness of `Work` (a running session proceeds to
its next item) and strong fairness of launching the generate and the score step
of each generator list: the operator repeats a step until it reports COMPLETE,
which is what `kaggle/README.md` tells them to do. In `launch`, weak fairness of
`Step` and strong fairness of launching each phase of each study, for the same
reason. The launch may be budgeted, and may attach an older dataset, every time.
Nothing is assumed of when a budget ends, except that it does not end before the
first call of a session, nor of the kills and faults beyond their bound. In
`tiera_one` no fairness of the verify step is assumed: a score step verifies what
is left. A study whose judge replies raise is excepted from
`EveryStudyPublishes`, since it can never be published.

### Where the code and its documentation disagree

`audit_extremes` checks one statement and ends in a counterexample.
`score_audit_gate.py:25-26` says that when both extremes (every dispute to A,
every dispute to B) fall the same side of the threshold, adjudication cannot
change the verdict. Each dispute is adjudicated by itself, so a mixed gold can
fall on the other side: two annotators who each miss another cell of an extractor
that is right on both make both extremes fail, and the adjudicated gold passes.

Others were met while modelling and have no run of their own.

Calls and sessions:
- A kill between two flushes of one record leaves a ledger that no session can
  open (`ledger.py:33`), although `runner.py:124` says a later session resumes.
- `_only_loaded` (`execute.py:143`) unloads the models the present call knows of.
  A score step whose generator list has no B4/B5 does not know of the verifier
  that a killed session left behind (`execute.py:735`). The instances of
  `OneModelAtATime` have a verified generator in every list, and so has its
  theorem, or in none.
- A judge reply with the three keys and a rating that is not a number raises
  (`judge.py:47`) after it was recorded, so every later score step raises on it;
  amendment 0009 says unparseable replies are counted.
- Cost rows sum over the whole ledger, not over the run's own calls
  (`execute.py:870-873`).
- `EXP-G-001` (`score_audit_gate.py:279`) and `EXP-G-002` exit 0 whatever their
  verdict; the launcher runs on and finds out at the score step.

Runs and analyses:
- `gates.py:71-73` says that a token of EXP-G-001 counts only for the version
  declared today, since "an audit of an older instrument says nothing about the one
  that would run". The version is read when the gates are checked (`cli.py:93`,
  `gates.py:64`) and again, after data and training, when the extractor is made
  (`execute.py:735`); nothing compares the two. In `RunStore`: a gate run of one
  version, `LaunchStudy`, `Checkout` of another, `LoadExtractor`, `Mint`,
  `CreateDir` give a study extracted with a version that nobody audited. The
  version it was extracted with is the one it records, so a reader can tell. What
  does hold, and is proved, is `StudiesAreGated`: the tokens of the version that
  was checked are there.
- The commit is read at the end of a run (`execute.py:911`), not when its code
  was loaded (`run_id.py:3`). Every run writer passes `allow_dirty=True`, while
  `run_id.py:4-5` says dirty runs are refused except in an explicit debug mode.
- The mapping check reads the manifest's status, written before the run is
  complete (`mapping_check.py:38`); `load_run` never looks at the STATUS value.
- An empty STATUS in one gate run makes `enforce_gates` raise although another
  run passed (`gates.py:44` against `:68`).
- `select: latest` takes the largest run id by name, which may be a run still
  being written; the `FileNotFoundError` is not caught by `main` and ends `--all`.
- When pooled runs hold the same (generator, instance), the last run wins in one
  aggregation, the first in another, and `coverage_risk` takes all rows
  (`run.py:101-105`, `:151-156`).

Ladder and instrument:
- A detector can be certified while the ladder changes its vocabulary: the gate
  goes over the rows of the table, the ladder over the vocabulary
  (`competence.py`, `contingency.py:118-121`). And since `run_pilot` passes no
  current rung (`execute.py:600`), a later evaluation may start again above the
  rung of an earlier one, which `contingency.py:22` rules out.
- On a second mention, a short name can be read inside a longer one
  (`extractor.py:250-259`, against `:153`). `CLAIM_TUPLE_SCHEMA` forbids the null
  direction and the evidence "connective" that `ClaimTuple` has.
- `hfr` is 0 on every extracted claim, since the extractor only names vocabulary
  features; a designated metric that no variant has a score for never fails the
  gate (`rq0_gate.py:98-121`); a skipped `sign_flip` is scored as a corruption.
- `sufficiency_cited_per_feature` is 0.0, its best value, for an explanation that
  cites nothing (documented at `layer2/metrics.py:239`).

Audit:
- Scoring without an adjudication while the extremes straddle the threshold mints
  a FAILED token. An unanswered chunk is read as "absent"; a half-judged item
  counts as covered; a re-extraction in which every call fell back only warns.
- `discover` drops a file that repeats an item, which `score_audit_gate` merges.
- Unnamed work on the page goes to whoever types a new name next
  (`build_audit_batch.py:387`). A typed name `unnamed` shares the bucket of the
  empty name and `__active` that of the page's own pointer
  (`build_audit_batch.py:388-389`); `Annotator` is of other names.

## The proofs

Eight modules hold theorems, each for every value of the constants under the
assumption its module declares. The assumptions give the constants their types
and set `None` apart. `LadderAssumption` says in addition what `validate_configs`
makes sure of in the registered taxonomy (its labels, parents and classes are
known, `Excluded` is no class), that the labels of the knowledge base are raw
labels, that there are finitely many labels with a number of rows each, and that
`n_explain` is not 0; `AuditAssumption` that the run is a list of explanations,
that features are finitely many and replies use the four labels.
Those of the instrument say:
- of the names (`ExtractionAssumption`, `NamesAssumption`) what the feature list
  and its alias file have (`extractor.py:130-154`; the names it makes of them were
  gone through): no name is empty, belongs to two features, has a sentence's end in
  it, or ends in a direction's cue. B1's name of a feature is one of these
  (`ClaimsAssumption`);
- of an attribution (`IsAttribution`) that it has one value for each feature, which
  is what an `AttributionArtifact` holds;
- of a detector (`DetectorAssumption`) that its classes differ, every class has an
  attribution, and a binary one's are BENIGN and the attack, whose two
  probabilities add up to one (`_as_rows`, `detectors/base.py:45-66`);
- of the battery (`BatteryAssumption`) that its operators are known, since
  `apply_operator` raises on others, and have their designations;
- `NoneAssumption`: `None` is no value of a claim and no claim list.

TLC evaluates them all. The bounds of the instances (`MaxCrashes`, `MaxLaunches`,
`MaxTokens`, ...) are any number in the theorems.

**`TierAProofs`**: `TypeCorrect`, `VerdictsAreInPlace`, `CompleteIsComplete`,
`RunsAreReplays`, `ScoringOnlyReplays`, for any cells, generator lists, texts,
claims, ratings and any bound on kills. That the run written at the end of a
session replays depends on the row of every cell having been scored from answers
that are on record (`RowsScored`). That no call is left to make depends on what
each pass has done to the cells it is done with (`PassesDone`); behind the
budgeted passes, `BudgetedCallsMade` remembers it. `Inductive` is the conjunction
of these with the properties. Two lemmas carry it: `Grow`, no step changes a
recorded answer, and `CellKept`, so what a cell shows, its claims and its rating
stay what they are. Type correctness is part of the same induction: a row's text
is a text only because scoring took it from the ledgers.

`SessionsImplementStudy` is the refinement `Spec => ImplementsStudy`: with
`Grow` a step of Tier A only adds answers (`StudyStep`), the end of a score step
writes the run that `Study` writes in one step from the same answers, since its
rows are replays, and every other step maps to a stutter (`SameStudy`).
`InstrumentsTakeTurns` states `OneModelAtATime` under the hypothesis
`SomeVerified \/ NoneVerified`: every generator list has a verified cell, or none
has. Its invariant `GpuInv` says in which phases which model can be loaded, a
killed session's verifier included. Without the hypothesis the property is false
(see the `_only_loaded` entry above), so the theorem says exactly how far the code
keeps its promise. Every registered grid of generators has `b4_vte`, but for
EXP-A-005 (`b1l_llm_render` alone), so the hypothesis holds of any set of
experiments that share a server without it, and of it alone.

**`CallLedgerProofs`**: `TypeCorrect`, `OneAnswerEach`, `ServedStaysRecorded`,
`ReplaysNeverDisagree`, for any number of processes and requests. A reply of a
replay is the first record of its request in some readable prefix of the file,
and the prefixes of a file that only grows nest (`PrefixesNest`), which is
`ReplaysNeverDisagree`. For an exclusive ledger one process runs at a time
(`OneAtATime`), its index is the file's first records (`IndexesAreTheFile`), and
what was ever replied is one of them as long as the file reads
(`RepliesAreKnown`). A torn line before the last is torn for ever
(`DamageStays`), so an unreadable file never becomes readable with other answers.
The work is in what `First` becomes when a piece is appended (`ALineIsRecorded`,
`TwoPartsAreRecorded`).
`LedgerImplementsStore` is the refinement of the write-once `ReplayStore`, step by
step: the piece that completes a record is a `Record` of the store, a reply that is
handed out a `Serve`, everything else a stutter. It needs three facts more
(`Answered`): the second piece of a line has its first before it, a process that
is still writing has put its first piece in the file, and the index of the one
process is what the file answers but for what it is writing.

**`RunStoreProofs`**: `TypeCorrect`, `CompleteRunsAreWhole`, `PublishedRunsAreFinal`,
`MappedRunsAreFinal`, `StudiesStayGated`, for any number of processes, studies,
gates, commits and launches. A directory is what it is after some number of the
ten writes (`Stage`), the number its writer counts, and a directory that is being
written has one writer (`WritersAreAlone`): finality is that nobody else writes.
Tokens are COMPLETE runs, so they stay (`TokensStay`), and a study keeps the
tokens it was launched with (`StudiesUnlocked`): those of the version that was
declared at its gate check, whatever is checked out, killed or written afterwards.

**`LaunchProofs`**: `TypeCorrect`, `ExportsNest`, `InstrumentsFollowTheDrafts`,
`InstrumentsStayPinned`, `RunsStayGatedAndWhole`, for any studies, readers,
drafts, builds and faults. Since exports nest (`Within`), the longest of two copies
of a ledger is the newest (`LongestIsNewest`, by the cardinality of finite sets),
so a restore loses nothing although each ledger is chosen independently. `Sound`
gathers what is true of the ledgers of every export, and `Whole` what a published
run needs, which growth keeps (`WholeStaysWhole`). No exit code of a gate run is
used: a score step runs only where `EnforceGates` found both tokens.

**`LadderProofs`**: `TaxonomyIsAlwaysValid`, `CurrentDecisionsApply`,
`StaleDecisionsAreRefused`, `EverySplitIsSound`, for any registered taxonomy, dataset, families and
thresholds. A decision merges whole lineage groups and excludes classes without a
lineage (`Folds`, lemma `DecisionsFold`), so what it yields is again valid
(`AppliedIsValid`). A record names no version; that a stale one is refused rests
on `Behind`: a class that some application folded away never comes back under its
name, so a decision resolved while it existed refers to a class that is gone
(`FoldLeavesBehind`, `BehindCannotApply`). The inductive invariant says this of
every record and of every run still to be recorded. For the splits, a total is the
number of rows its counts stand for, so sums are cardinalities: of two picks the
one that comes first has fewer before it (`EarlierPicksRankLower`), hence the
kept picks of a class are its first ones (`FirstPicksAreKept`), no two kept picks
have the same rank below `n` (`BudgetIsKept`), and one class is two ahead of
another only if that one was picked in full (`TruncationIsFair`).

**`AuditProofs`**: `TokensStayExplained`, `AdjudicationAlwaysDecides`,
`AnnotatorsAreInterchangeable`, `TheToolsAgree`. The invariant knows of which draw
each token is (`Tokens`), so that a new batch, which may be the old one again,
starts without any, and ties a token of the current batch to the key of its version,
which `ReExtract` may extend but not contradict. The
statistics are proved about as they are defined: kappa is symmetric and is 1
exactly when nothing is disputed (`KappaIsOne`, over the cardinalities of the
cells of each label).
The annotation page is proved about in the same module: `TypeCorrect`,
`ThePageIsSaved`, `NamedWorkStays`, `WorkStaysKept`, for any number of annotators,
items and labels. Every bucket is a pass of its name (`PassOf`), the page is what a
reload of the active bucket gives, and the cases of `ChangeName` say where unnamed
work goes.

**`AnalysisProofs`**: `ManifestsAreTrue`, `EnumerationsReproduce`, for any
statistics, since no proof opens `Statistic`. The invariant follows a result from
the runs that were read (`Aggregates`) to the file (`Results`) and its manifest
(`Manifests`): a run that was whole when read is never changed, so computing again
from the same list gives the same body. The second theorem
leaves out `latest` configs: the next run changes what they read.

**`InstrumentProofs`**: for the claims `TemplateReadsBack`, `SentencesStayLocal`,
`SilenceStaysUnscored`, for any vocabulary, text and reply; for the battery
`OperatingPointsStayBest`, `OneClassStays` and `RegisteredPairsSeparate`, for any
detectors, attributions and number of instances. Their invariants are
`ClaimsInductive` (what is claimed is what the extractor makes of text and reply)
and `BatteryInductive` (a score is a number, an open instance was prepared, a
verdict is of the scores as they are). The work is in what is computed within a step,
and most of it is recursion over a list: the extractor goes through the names
longest first, B1 tells sentence after sentence. Where
such a recursion has a solution (`Recursion`) it is reasoned about by induction on
the set of the numbers a fact holds of (`Reached`).
- *Operating points.* Between two neighbouring scores all thresholds call the same
  instances, so the candidates stand for all thresholds, and the one chosen is
  the best of them (`OperatingPointIsBest`).
- *One class.* An instance's ranking, claims and erasure deltas all go through
  the class that was explained, binary or not (`InstancesAreSound`).
- *Sentences.* The extractor is run on the text and on the text cut at a sentence's
  end, side by side: after each name, what was found in the cut is what was found
  before the cut in the whole (`SameUpTo`), since a name never spans a stop. Mentions
  never overlap and stand where their names are (`Placed`).
- *Template.* `Laid` says where B1's sentences are. The scan has at any time
  consumed exactly the told names among the variants scanned (`FoundNames`): no
  name runs on into a verb or a stop, so it can be read elsewhere only inside a told
  name, which is longer and was consumed before. So the claims are those told, in order (`ReadBack`), and the
  metrics of such claims are perfect.
- *The registered gate.* `Registered` states the registered values, that
  attributions have `top_k` features or more, and that no feature is named like what
  an operator makes up; TLC assumes it of the instance
  (`RegisteredAssumption`). Every variant is a list of claims about top features and
  strangers (`Shaped`), which fixes its five designated metrics whatever the
  attribution is (`Outcome`, one lemma per operator, tabled as `Expected`). Then the
  scores are as expected (`AsExpected`) and one per variant of each instance
  (`InStep`), the operating point of each metric is the registered one
  (`SeparatingPoint`), and it divides the faithful scores from the corrupted ones
  of its designated operators. Those two predicates and the property, with
  `BatteryInductive`, are the inductive invariant.

The texts of this module are over `Word`, which adds the literal cues to `STRING`,
because the provers do not know that a literal is a string.

Only model-checked: liveness (`EveryStudyPublishes`, `EveryStudyIsPublished`), which
is beyond the prover, as ENABLED is. The documented statement about
extremes (`audit_extremes`) is false, so there is nothing to prove. Every other property
of the runs is stated by a theorem. The library's induction theorems take an operator
as a parameter, which the provers cannot instantiate; least numbers and induction are
therefore stated with sets (`Reached`, `LeastOf` in `CallLedgerProofs`, `LeastNumber`
in `AnalysisProofs`).

## Abstractions

- Two cells whose prompts are identical count as different requests; in the code
  they share one ledger entry. Sharing only makes answers appear earlier.
- Replaying recorded calls takes no budget. It takes seconds where a live call
  takes minutes.
- A provider call that raises ends the session like a kill, which is what the
  code does: there is no retry.
- In `TierA` and `Launch` claims, ratings and texts are values. How replies are
  parsed is `Extraction`'s; a rating that raises is in `Fatal`.
- The detector, the attribution and the selection of instances are deterministic
  and precede every pass; in `TierA` they are `Cells`, `Case`, `Template`.
- `enforce_gates` is one step: COMPLETE runs never change, so a scan interleaved
  with writers finds what some instant of it held. A gate experiment reads its
  configuration at its launch; a study's other configurations are not told apart.
- Kills are of processes: what a process has written stays. A loss of the
  operating system's page cache is not modelled.
- `Extraction` reads words. A name is a sequence of them, and one word stands for
  each kind of cue; punctuation, Markdown and number formats are not told apart.
- In `Layer2` only the erased set of an erasure operator is kept, deltas are in
  probability space, and a detector is any function from erased sets to integers.
  `Battery` leaves out the ROC areas, which are reported only, and
  `magnitude_inflation`, which no config names.
- In `Analysis` a statistic is replaced by the data it is given; a row has one
  value and one companion. The runs an analyst enumerates are ones that were
  complete when they were named; the code checks no STATUS and leaves that to the
  analyst.
- In `Launch` the extractor's model, one file instead of layers, is checked like
  the layered ones, and the log of a step is not read. The operator continues from
  the newest export: ledgers that grew in parallel from one ancestor are outside it.
- In `Audit` which text deserves which label, and what an extractor reads, are
  free choices; a saved answer stays. The items of a draw are a free choice where the
  code has a fixed seed (`build_audit_batch.py:728`), so without `--exclude` it
  draws the same batch again. Every batch has a directory of its own; a build over
  an existing one (`--out`) is left out. In `Annotator` notes, hedging marks and the
  current item are left out.

## Not modelled

Training, SHAP values, imputation and statistics over floats; HTTP and the
transformers provider; prompt texts; the rule verifier; the cell expansion, the
registry and the reference checks, which are products and lookups over YAML; the
validation of the judge against human ratings; the pilot, rescore and re-gate
notebooks, each one command of the modelled parts; lineage queries and the
release check; the repository's static checks and reports.

## Plan

Done, in this order: `CallLedger`, `ReplayStore`; `TierA`, `Study`; `RunStore`;
`Contingency`, `Splits`, `Ladder`; `Extraction`, `Layer1`, `Claims`; `Layer2`,
`Battery`; `Agreement`, `Audit`, `Annotator`; `Launch`; `Analysis`; the eight proof
modules, with both refinements.

Left:

1. The composition of `Launch` with `RunStore`, so that the tokens of a session
   are run directories, and of `Audit`'s tokens with `StudiesAreGated`.
2. `CellExpansion`: every cell once, over partial configurations.
