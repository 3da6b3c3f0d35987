------------------------------- MODULE Analysis -------------------------------
(***************************************************************************)
(* The analysis runner, the only reader that pools run directories         *)
(* (src/analysis/run.py, src/analysis/src/redundancy.py, results/api.py).  *)
(*                                                                         *)
(* Runs appear under runs/ while analyses are computed; an analysis names  *)
(* its runs one by one, or takes the last directory by name.  It writes    *)
(* results.json, then MANIFEST.json, and may be killed in between;         *)
(* --check computes the results again and compares.                        *)
(*                                                                         *)
(* A statistic is left out: what is modelled is the data it is given.  A   *)
(* row stands for the metrics of one generator on one instance: a value    *)
(* and the companion it is read with (the gate metric; sufficiency).       *)
(***************************************************************************)
EXTENDS Naturals, Sequences, FiniteSets

CONSTANTS
  Runs,        \* the run ids of an experiment, in their sorted order
  Contents,    \* what a run may hold: version, model, cost, rows
  Keys,        \* (generator, instance) pairs
  None,        \* no version, no row, no class, no job
  Configs,     \* analysis configs, in their sorted order
  Plans,       \* bound: which test each config may name
  Latest,      \* the configs with "select: latest"; the others enumerate
  Choices,     \* bound: the lists of run ids an analyst may enumerate
  GateMin,     \* what a companion must reach for its row to be kept
  Threshold,   \* HIGH, for the redundancy table
  Params       \* the size of each model in the capability anchor

Tests == {"mean_ci", "friedman_nemenyi", "coverage_risk", "cost_summary",
          "layer2_per_class", "layer2_redundancy", "capability_scaling"}

ASSUME AnalysisAssumption ==
  /\ Runs \subseteq Nat /\ Configs \subseteq Nat
  /\ Plans \subseteq [Configs -> Tests]
  /\ Latest \subseteq Configs
  /\ Choices \subseteq Seq(Runs)
  /\ None \notin Contents

VARIABLES
  dirs,        \* how far the directory of each run is written
  content,     \* what it holds: fixed when the run is computed
  config,      \* each config's test, and its run_ids if it enumerates
  results,     \* outputs/<config>/results.json
  manifest,    \* outputs/<config>/MANIFEST.json
  job          \* the analysis.run process, if one is running

vars == <<dirs, content, config, results, manifest, job>>

Generators == {k[1] : k \in Keys}
Instances == {k[2] : k \in Keys}

(***************************************************************************)
(* The results API.  "begun": no manifest json.loads accepts; "mapped": a  *)
(* manifest, STATUS still RUNNING; "unsettled": STATUS is truncated;       *)
(* "whole": COMPLETE.  load_run reads the status and never looks at it.    *)
(***************************************************************************)
Stages == <<"absent", "begun", "mapped", "unsettled", "whole">>

\* read_manifest accepts it.  The outputs it hashes were whole before it was
\* written, so verify_outputs then finds no problem.
ManifestReads(r) == dirs[r] \in {"mapped", "unsettled", "whole"}

\* read_status: an absent STATUS is no status, an empty one a ValueError.
StatusReads(r) == dirs[r] # "unsettled"

\* load_run: a missing run is a ResultError; a missing or cut manifest and an
\* empty STATUS raise what nobody catches.
LoadRun(r) ==
  IF dirs[r] = "absent" THEN "ResultError"
  ELSE IF ManifestReads(r) /\ StatusReads(r) THEN "ok" ELSE "raises"

\* list_runs: every directory of the experiment, finished or not.
ListRuns == {r \in Runs : dirs[r] # "absent"}

IsCompleteAndVerified(r) == dirs[r] = "whole"

Extractor(r) == content[r].version

(***************************************************************************)
(* _resolve_run_ids and assert_single_extractor_version.                   *)
(***************************************************************************)
LastByName == CHOOSE r \in ListRuns : \A q \in ListRuns : q <= r

\* Bug: the enumerated ids are ignored and the experiment's runs globbed.
GlobbedRunIds(c) ==
  LET above(n) == {r \in ListRuns : Cardinality({q \in ListRuns : q < r}) = n}
  IN [n \in 1..Cardinality(ListRuns) |-> CHOOSE r \in above(n - 1) : TRUE]

ResolveRunIds(c) ==
  IF c \notin Latest THEN config[c].ids
  ELSE IF ListRuns = {} THEN <<>> ELSE <<LastByName>>

SingleExtractor(s) == Cardinality({Extractor(s[n]) : n \in DOMAIN s}) = 1

\* What the runs of a config come to: the first that cannot be loaded decides.
Outcome(s) ==
  LET bad == {n \in DOMAIN s : LoadRun(s[n]) # "ok"}
  IN IF s = <<>> THEN "ResultError"
     ELSE IF bad # {}
          THEN LoadRun(s[CHOOSE n \in bad : \A m \in bad : n <= m])
     ELSE IF SingleExtractor(s) THEN "ok" ELSE "ResultError"

(***************************************************************************)
(* build_result: the rows of all the runs, one after the other, and the    *)
(* data each test takes from them.  "runs" is what load_metrics gave for   *)
(* each run of the config.                                                 *)
(***************************************************************************)
RowOf(run, k) == run.holds.rows[k]

With(runs, k) == {n \in DOMAIN runs : RowOf(runs[n], k) # None}

\* A dictionary over rows keeps the last one of a key ...
LastRow(runs, k) ==
  RowOf(runs[CHOOSE n \in With(runs, k) : \A m \in With(runs, k) : m <= n], k)

\* ... and vals[0] is the first.
FirstRow(runs, k) ==
  RowOf(runs[CHOOSE n \in With(runs, k) : \A m \in With(runs, k) : n <= m], k)

\* The gate metric (or sufficiency) has a dictionary of its own.
Companion(runs, k) == LastRow(runs, k).companion

Present(runs) == {k \in Keys : With(runs, k) # {}}

\* _instance_values: instances where the metric is undefined are dropped.
InstanceValues(runs) ==
  [k \in {l \in Present(runs) : Companion(runs, l) >= GateMin}
     |-> LastRow(runs, k).value]

Ungated(runs) == [k \in Present(runs) |-> LastRow(runs, k).value]

\* _layer1_matrix: a line per generator, 0 where it has no row.
Layer1Matrix(runs) ==
  [g \in Generators |->
     [i \in {k[2] : k \in Present(runs)} |->
        IF <<g, i>> \in Present(runs) THEN FirstRow(runs, <<g, i>>).value ELSE 0]]

\* Every row of every run, by its run's place.
AllRows(runs) == {x \in (DOMAIN runs) \X Keys : x[1] \in With(runs, x[2])}

Row(runs, x) == RowOf(runs[x[1]], x[2])

\* coverage_risk takes them all.
CoverageRisk(runs) == {<<x, Row(runs, x).value>> : x \in AllRows(runs)}

\* layer2_per_class too, by predicted class; None is no class.
PerClass(runs) ==
  {<<Row(runs, x).class, x, Row(runs, x).value>> :
     x \in {y \in AllRows(runs) : Row(runs, y).class # None}}

CostSummary(runs) == {<<runs[n].id, runs[n].holds.cost>> : n \in DOMAIN runs}

\* classify: the two-by-two table of comprehensiveness and sufficiency.
Classify(compr, suff) ==
  IF compr >= Threshold
  THEN IF suff >= Threshold THEN "necessary_not_sufficient" ELSE "load_bearing"
  ELSE IF suff >= Threshold THEN "irrelevant" ELSE "redundant"

Redundancy(runs) ==
  LET cell(k) == Classify(LastRow(runs, k).value, Companion(runs, k))
  IN [x \in {"load_bearing", "necessary_not_sufficient", "redundant",
             "irrelevant"} |-> Cardinality({k \in Present(runs) : cell(k) = x})]

\* _capability_points: a point per run, by the size of its model; a model the
\* anchor does not list comes last.
CapabilityPoints(runs) ==
  LET size(n) == Params[runs[n].holds.llm]
      before(m, n) == \/ size(n) = None /\ size(m) # None
                      \/ size(m) = size(n) /\ m < n
                      \/ None \notin {size(m), size(n)} /\ size(m) < size(n)
      place(n) == 1 + Cardinality({m \in DOMAIN runs : before(m, n)})
      at(p) == CHOOSE n \in DOMAIN runs : place(n) = p
  IN [p \in DOMAIN runs |->
        <<runs[at(p)].holds.llm, Ungated(<<runs[at(p)]>>)>>]

Statistic(test, runs) ==
  CASE test = "mean_ci" -> InstanceValues(runs)
    [] test = "friedman_nemenyi" -> Layer1Matrix(runs)
    [] test = "coverage_risk" -> CoverageRisk(runs)
    [] test = "cost_summary" -> CostSummary(runs)
    [] test = "layer2_per_class" -> PerClass(runs)
    [] test = "layer2_redundancy" -> Redundancy(runs)
    [] test = "capability_scaling" -> CapabilityPoints(runs)

Loaded(s) == [n \in DOMAIN s |-> [id |-> s[n], holds |-> content[s[n]]]]

BuildResult(c, s) == Statistic(config[c].test, Loaded(s))

(***************************************************************************)
(* The state machine.                                                      *)
(***************************************************************************)
\* The bodies of the two files; "named" are the config's run_ids at the time.
NoFile == [part |-> "absent"]
CutFile == [part |-> "cut"]

Init ==
  /\ dirs = [r \in Runs |-> "absent"]
  /\ content \in [Runs -> Contents]
  /\ \E plan \in Plans :
       config = [c \in Configs |-> [test |-> plan[c], ids |-> <<>>]]
  /\ results = [c \in Configs |-> NoFile]
  /\ manifest = [c \in Configs |-> NoFile]
  /\ job = None

\* Another process writes a run, file by file; it may stop anywhere.
WriteRun(r) ==
  /\ dirs[r] # "whole"
  /\ \E n \in 1..4 : /\ Stages[n] = dirs[r]
                     /\ dirs' = [dirs EXCEPT ![r] = Stages[n + 1]]
  /\ UNCHANGED <<content, config, results, manifest, job>>

\* The analyst enumerates complete runs in a config (hostile audit A7).
Enumerate(c, s) ==
  /\ c \notin Latest
  /\ job = None
  /\ \A n \in DOMAIN s : IsCompleteAndVerified(s[n])
  /\ config' = [config EXCEPT ![c].ids = s]
  /\ UNCHANGED <<dirs, content, results, manifest, job>>

\* analysis.run --all, or --config; with or without --check.
Start(names, check) ==
  /\ job = None
  /\ names # {}
  /\ job' = [todo |-> names, check |-> check, problems |-> FALSE,
             at |-> "build", payload |-> None]
  /\ UNCHANGED <<dirs, content, config, results, manifest>>

Building == job # None /\ job.at = "build" /\ job.todo # {}

Current == CHOOSE c \in job.todo : \A d \in job.todo : c <= d

Done(problem) ==
  job' = [job EXCEPT !.todo = @ \ {Current}, !.at = "build",
            !.payload = None, !.problems = @ \/ problem]

\* ResultError: this analysis is pending, the next one is tried.
Pending ==
  /\ Building
  /\ Outcome(ResolveRunIds(Current)) = "ResultError"
  /\ Done(FALSE)
  /\ UNCHANGED <<dirs, content, config, results, manifest>>

\* Any other error ends the process, the remaining analyses with it.
Raise ==
  /\ Building
  /\ Outcome(ResolveRunIds(Current)) = "raises"
  /\ job' = None
  /\ UNCHANGED <<dirs, content, config, results, manifest>>

Payload(c) ==
  LET s == ResolveRunIds(c)
  IN [runs |-> s, named |-> config[c].ids, body |-> BuildResult(c, s)]

\* write_output, up to the truncation of results.json.
OpenResults ==
  /\ Building /\ ~job.check
  /\ Outcome(ResolveRunIds(Current)) = "ok"
  /\ job' = [job EXCEPT !.at = "results", !.payload = Payload(Current)]
  /\ results' = [results EXCEPT ![Current] = CutFile]
  /\ UNCHANGED <<dirs, content, config, manifest>>

WriteResults ==
  /\ job # None /\ job.at = "results"
  /\ results' = [results EXCEPT ![Current] =
       [part |-> "whole", named |-> job.payload.named,
        body |-> job.payload.body]]
  /\ job' = [job EXCEPT !.at = "manifest"]
  /\ UNCHANGED <<dirs, content, config, manifest>>

\* Bug: the run ids are resolved a second time.
RunIdsNow == ResolveRunIds(Current)

\* The manifest names the runs that were aggregated.
AggregatedRuns == job.payload.runs

\* The runs are loaded once more for their extractor version: one that can no
\* longer be loaded leaves the new results beside the old manifest.
ManifestRaises ==
  /\ job # None /\ job.at = "manifest"
  /\ Outcome(AggregatedRuns) = "raises"
  /\ job' = None
  /\ UNCHANGED <<dirs, content, config, results, manifest>>

OpenManifest ==
  /\ job # None /\ job.at = "manifest"
  /\ Outcome(AggregatedRuns) = "ok"
  /\ manifest' = [manifest EXCEPT ![Current] = CutFile]
  /\ job' = [job EXCEPT !.at = "closing"]
  /\ UNCHANGED <<dirs, content, config, results>>

WriteManifest ==
  /\ job # None /\ job.at = "closing"
  /\ manifest' = [manifest EXCEPT ![Current] =
       [part |-> "whole", runs |-> AggregatedRuns,
        extractor |-> Extractor(AggregatedRuns[1]),
        sha |-> job.payload.body]]
  /\ Done(FALSE)
  /\ UNCHANGED <<dirs, content, config, results>>

\* check_output: regenerate and compare.
Matches(c) ==
  /\ results[c].part = "whole"
  /\ results[c].body = BuildResult(c, ResolveRunIds(c))

Check ==
  /\ Building /\ job.check
  /\ Outcome(ResolveRunIds(Current)) = "ok"
  /\ Done(~Matches(Current))
  /\ UNCHANGED <<dirs, content, config, results, manifest>>

\* The exit status, or a kill anywhere.
Exit ==
  /\ job # None
  /\ job' = None
  /\ UNCHANGED <<dirs, content, config, results, manifest>>

Next ==
  \/ \E r \in Runs : WriteRun(r)
  \/ \E c \in Configs, s \in Choices : Enumerate(c, s)
  \/ \E names \in {Configs} \cup {{c} : c \in Configs}, check \in BOOLEAN :
       Start(names, check)
  \/ Pending \/ Raise \/ OpenResults \/ WriteResults
  \/ ManifestRaises \/ OpenManifest \/ WriteManifest \/ Check \/ Exit

Spec == Init /\ [][Next]_vars

(***************************************************************************)
(* Properties.                                                             *)
(***************************************************************************)
\* Whoever is killed between the two files, and whatever is published in the
\* meantime: a manifest whose results_sha256 is that of the results beside it
\* names runs that give these results, all of the one extractor version it
\* states (analysis/run.py, write_output).
ManifestNamesItsRuns ==
  \A c \in Configs :
    /\ results[c].part = "whole" /\ manifest[c].part = "whole"
    /\ manifest[c].sha = results[c].body
    => LET s == manifest[c].runs
       IN /\ BuildResult(c, s) = results[c].body
          /\ \A n \in DOMAIN s : Extractor(s[n]) = manifest[c].extractor

\* The results of an analysis that enumerates its runs are reproduced by
\* --check for ever, whatever other runs are started, finished or abandoned
\* (run.py: no globbing over runs, hostile audit A7), as long as its list is
\* not edited.
EnumeratedReproduces ==
  \A c \in Configs \ Latest :
    results[c].part = "whole" /\ results[c].named = config[c].ids
      => Outcome(ResolveRunIds(c)) = "ok" /\ Matches(c)
===============================================================================
