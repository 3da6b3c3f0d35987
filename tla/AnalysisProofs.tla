---------------------------- MODULE AnalysisProofs ----------------------------
(***************************************************************************)
(* Theorems about the analysis runner, for any runs, contents, configs,    *)
(* plans and lists of runs, and for any statistics: no proof opens         *)
(* Statistic.                                                              *)
(***************************************************************************)
EXTENDS Analysis, FiniteSetTheorems, TLAPS

(***************************************************************************)
(* Lists of runs.                                                          *)
(***************************************************************************)
\* What assert_single_extractor_version refuses otherwise.
OneExtractor(s) == \A m, n \in DOMAIN s : Extractor(s[m]) = Extractor(s[n])

\* Lists of runs as the program builds them: 1, 2, ..., as long as they are.
RunList(s) == \E n \in Nat : DOMAIN s = 1..n

LEMMA ListsHaveOneExtractor ==
  ASSUME NEW s, RunList(s), SingleExtractor(s)
  PROVE  OneExtractor(s)
<1> DEFINE versions == {Extractor(s[n]) : n \in DOMAIN s}
           of == [n \in DOMAIN s |-> Extractor(s[n])]
<1>1. IsFiniteSet(DOMAIN s)
  BY FS_Interval DEF RunList
<1>2. of \in Surjection(DOMAIN s, versions)
  BY DEF Surjection
<1>3. IsFiniteSet(versions)
  <2> HIDE DEF of, versions
  <2> QED
    BY <1>1, <1>2, FS_Surjection
<1>4. Cardinality(versions) = 1
  BY DEF SingleExtractor
<1>5. PICK v : versions = {v}
  <2> HIDE DEF versions
  <2> QED
    BY <1>3, <1>4, FS_Singleton
<1>6. \A n \in DOMAIN s : Extractor(s[n]) = v
  BY <1>5
<1> QED
  BY <1>6 DEF OneExtractor

\* And back: the runs of a list that has some.
LEMMA OneExtractorIsSingle ==
  ASSUME NEW s, s # <<>>, RunList(s), \E S : s \in Seq(S), OneExtractor(s)
  PROVE  SingleExtractor(s)
<1>1. 1 \in DOMAIN s
  BY DEF RunList
<1>2. {Extractor(s[n]) : n \in DOMAIN s} = {Extractor(s[1])}
  BY <1>1 DEF OneExtractor
<1> QED
  BY <1>2, FS_Singleton DEF SingleExtractor

\* A set of numbers has a least one: the initial segments are well-founded.
LEMMA LeastNumber ==
  ASSUME NEW S, S \subseteq Nat, S # {}
  PROVE  \E n \in S : \A m \in S : n <= m
<1> DEFINE segments == {0..n : n \in S}
<1>1. segments \subseteq FiniteSubsetsOf(Nat)
  <2>1. \A n \in Nat : 0..n \subseteq Nat /\ IsFiniteSet(0..n)
    BY FS_Interval
  <2> QED
    BY <2>1 DEF FiniteSubsetsOf
<1>2. segments # {}
  OBVIOUS
<1>3. PICK x \in segments : \A y \in segments : <<y, x>> \notin StrictSubsetOrdering(Nat)
  <2> HIDE DEF segments
  <2> QED
    BY <1>1, <1>2, FS_StrictSubsetOrderingWellFounded, WFMin
<1>4. PICK n \in S : x = 0..n
  OBVIOUS
<1>5. \A m \in S : n <= m
  <2> SUFFICES ASSUME NEW m \in S, m < n PROVE FALSE
    OBVIOUS
  <2>1. (0..m) \subseteq (0..n) /\ 0..m # 0..n
    OBVIOUS
  <2>2. 0..m \in SUBSET Nat /\ 0..n \in SUBSET Nat
    OBVIOUS
  <2>3. <<0..m, 0..n>> \in StrictSubsetOrdering(Nat)
    <3> DEFINE low == 0..m  high == 0..n
    <3>1. low \subseteq high /\ low # high /\ low \in SUBSET Nat /\ high \in SUBSET Nat
      BY <2>1, <2>2
    <3> HIDE DEF low, high
    <3>2. <<low, high>> \in StrictSubsetOrdering(Nat)
      BY <3>1 DEF StrictSubsetOrdering
    <3> QED
      BY <3>2 DEF low, high
  <2>4. 0..m \in segments
    OBVIOUS
  <2> HIDE DEF segments
  <2> QED
    BY <1>3, <1>4, <2>3, <2>4
<1> QED
  BY <1>5

\* A list that loads has runs, all of one extractor.
LEMMA LoadedLists ==
  ASSUME NEW s, RunList(s), Outcome(s) = "ok"
  PROVE  s # <<>> /\ SingleExtractor(s)
<1> DEFINE bad == {n \in DOMAIN s : LoadRun(s[n]) # "ok"}
<1>1. bad # {} => \E n \in bad : \A m \in bad : n <= m
  <2>1. bad \subseteq Nat
    BY DEF RunList
  <2> HIDE DEF bad
  <2> QED
    BY <2>1, LeastNumber
<1> QED
  BY <1>1 DEF Outcome

(***************************************************************************)
(* The inductive invariant.                                                *)
(***************************************************************************)
TypeOK ==
  /\ dirs \in [Runs -> {Stages[n] : n \in 1..5}]
  /\ config \in [Configs -> [test : Tests, ids : Seq(Runs)]]
  /\ results = [c \in Configs |-> results[c]]
  /\ manifest = [c \in Configs |-> manifest[c]]
  /\ job # None =>
       /\ DOMAIN job = {"todo", "check", "problems", "at", "payload"}
       /\ job.todo \subseteq Configs

\* Runs that are written to the end: they will load for ever.
Finished(s) == s \in Seq(Runs) /\ \A n \in DOMAIN s : dirs[s[n]] = "whole"

Enumerated == \A c \in Configs \ Latest : Finished(config[c].ids)

\* What a process holds between the two files is the result of its runs.
Writing == job # None /\ job.at \in {"results", "manifest", "closing"}

Aggregates ==
  Writing =>
    LET p == job.payload
    IN /\ RunList(p.runs) /\ p.runs # <<>> /\ OneExtractor(p.runs)
       /\ p.body = BuildResult(Current, p.runs)
       /\ Current \in Configs \ Latest => p.named = p.runs /\ Finished(p.runs)

\* A whole manifest is true of its runs, whatever the results beside it are.
Manifests ==
  \A c \in Configs :
    manifest[c].part = "whole" =>
      /\ manifest[c].sha = BuildResult(c, manifest[c].runs)
      /\ \A n \in DOMAIN manifest[c].runs :
           Extractor(manifest[c].runs[n]) = manifest[c].extractor

\* Whole results are those of the runs their config named at the time.
Results ==
  \A c \in Configs \ Latest :
    results[c].part = "whole" =>
      LET s == results[c].named
      IN /\ results[c].body = BuildResult(c, s)
         /\ Finished(s) /\ s # <<>> /\ OneExtractor(s)

Inductive == TypeOK /\ Enumerated /\ Aggregates /\ Manifests /\ Results

LEMMA InitHolds == Init => Inductive
<1> SUFFICES ASSUME Init PROVE Inductive
  OBVIOUS
<1>1. TypeOK
  <2>1. PICK plan \in Plans : config = [c \in Configs |-> [test |-> plan[c], ids |-> <<>>]]
    BY DEF Init
  <2>2. plan \in [Configs -> Tests]
    BY AnalysisAssumption
  <2>3. config \in [Configs -> [test : Tests, ids : Seq(Runs)]]
    BY <2>1, <2>2
  <2> QED
    BY <2>3 DEF Init, TypeOK, Stages
<1>2. Enumerated
  <2>1. \A c \in Configs : config[c].ids = <<>>
    BY DEF Init
  <2>2. Finished(<<>>)
    BY DEF Finished
  <2> HIDE DEF Init
  <2> QED
    BY <2>1, <2>2, AnalysisAssumption DEF Enumerated
<1>3. Aggregates /\ Manifests /\ Results
  BY DEF Init, Aggregates, Writing, Manifests, Results, NoFile
<1> QED
  BY <1>1, <1>2, <1>3 DEF Inductive

\* The inputs of a result never change: contents are fixed, and a config keeps
\* its test.
LEMMA ResultsAreStable ==
  ASSUME TypeOK, [Next]_vars
  PROVE  /\ content' = content
         /\ \A c \in Configs : \A s : BuildResult(c, s)' = BuildResult(c, s)
         /\ \A r : Extractor(r)' = Extractor(r)
         /\ \A s : Finished(s) => Finished(s)'
<1>1. content' = content
  BY DEF Next, vars, WriteRun, Enumerate, Start, Pending, Raise, OpenResults, WriteResults,
         ManifestRaises, OpenManifest, WriteManifest, Check, Exit
<1>2. \A c \in Configs : config'[c].test = config[c].test
  <2>1. ASSUME NEW d \in Configs, NEW s \in Choices, Enumerate(d, s)
        PROVE  \A c \in Configs : config'[c].test = config[c].test
    <3>1. config' = [config EXCEPT ![d] = [config[d] EXCEPT !.ids = s]]
      BY <2>1 DEF Enumerate
    <3> QED
      BY <3>1 DEF TypeOK
  <2>2. CASE config' = config
    BY <2>2
  <2> QED
    BY <2>1, <2>2 DEF Next, vars, WriteRun, Start, Pending, Raise, OpenResults, WriteResults,
         ManifestRaises, OpenManifest, WriteManifest, Check, Exit
<1>3. \A c \in Configs : \A s : BuildResult(c, s)' = BuildResult(c, s)
  BY <1>1, <1>2 DEF BuildResult, Loaded
<1>4. \A r \in Runs : dirs[r] = "whole" => dirs'[r] = "whole"
  BY DEF TypeOK, Next, vars, WriteRun, Enumerate, Start, Pending, Raise, OpenResults, WriteResults,
         ManifestRaises, OpenManifest, WriteManifest, Check, Exit
<1>5. \A s : Finished(s) => Finished(s)'
  BY <1>4 DEF Finished
<1> QED
  BY <1>1, <1>3, <1>5 DEF Extractor

\* A process that builds is at a config of its own.
LEMMA CurrentIsAConfig ==
  ASSUME TypeOK, Building
  PROVE  Current \in Configs
<1>1. job.todo \subseteq Configs /\ job.todo # {}
  BY DEF TypeOK, Building
<1>2. \E c \in job.todo : \A d \in job.todo : c <= d
  BY <1>1, AnalysisAssumption, LeastNumber
<1> QED
  BY <1>1, <1>2 DEF Current

LEMMA ResolvedLists ==
  ASSUME Inductive, NEW c \in Configs
  PROVE  /\ RunList(ResolveRunIds(c))
         /\ c \notin Latest => Finished(ResolveRunIds(c))
<1>1. CASE c \in Latest
  BY <1>1 DEF ResolveRunIds, RunList
<1>2. CASE c \notin Latest
  <2>1. ResolveRunIds(c) = config[c].ids /\ Finished(config[c].ids)
    BY <1>2 DEF ResolveRunIds, Enumerated, Inductive
  <2> QED
    BY <2>1 DEF Finished, RunList
<1> QED
  BY <1>1, <1>2

LEMMA StepKeepsTypes == TypeOK /\ [Next]_vars => TypeOK'
<1> SUFFICES ASSUME TypeOK, [Next]_vars PROVE TypeOK'
  OBVIOUS
<1> USE DEF TypeOK
<1>1. ASSUME NEW r \in Runs, WriteRun(r) PROVE TypeOK'
  BY <1>1 DEF WriteRun
<1>2. ASSUME NEW c \in Configs, NEW s \in Choices, Enumerate(c, s) PROVE TypeOK'
  <2>1. config' = [config EXCEPT ![c] = [config[c] EXCEPT !.ids = s]] /\ s \in Seq(Runs)
    BY <1>2, AnalysisAssumption DEF Enumerate
  <2>2. config' \in [Configs -> [test : Tests, ids : Seq(Runs)]]
    BY <2>1
  <2> QED
    BY <1>2, <2>2 DEF Enumerate
<1>3. ASSUME NEW names \in {Configs} \cup {{c} : c \in Configs}, NEW check \in BOOLEAN,
             Start(names, check)
      PROVE  TypeOK'
  BY <1>3 DEF Start
<1>4. CASE Pending
  BY <1>4 DEF Pending, Done, Building
<1>5. CASE Raise \/ ManifestRaises \/ Exit
  BY <1>5 DEF Raise, ManifestRaises, Exit
<1>6. CASE OpenResults
  BY <1>6 DEF OpenResults, Building
<1>7. CASE WriteResults
  BY <1>7 DEF WriteResults
<1>8. CASE OpenManifest
  BY <1>8 DEF OpenManifest
<1>9. CASE WriteManifest
  BY <1>9 DEF WriteManifest, Done
<1>10. CASE Check
  BY <1>10 DEF Check, Done, Building
<1>11. CASE UNCHANGED vars
  BY <1>11 DEF vars
<1> QED
  BY <1>1, <1>2, <1>3, <1>4, <1>5, <1>6, <1>7, <1>8, <1>9, <1>10, <1>11 DEF Next

\* Only whole runs can be enumerated, and whole runs stay whole.
LEMMA StepKeepsEnumerated == Inductive /\ [Next]_vars => Enumerated'
<1> SUFFICES ASSUME Inductive, [Next]_vars PROVE Enumerated'
  OBVIOUS
<1>1. TypeOK /\ Enumerated
  BY DEF Inductive
<1>2. \A s : Finished(s) => Finished(s)'
  BY <1>1, ResultsAreStable
<1>3. ASSUME NEW d \in Configs, NEW s \in Choices, Enumerate(d, s) PROVE Enumerated'
  <2>1. config' = [config EXCEPT ![d] = [config[d] EXCEPT !.ids = s]]
    BY <1>3 DEF Enumerate
  <2>2. \A c \in Configs : config'[c].ids = IF c = d THEN s ELSE config[c].ids
    BY <1>1, <2>1 DEF TypeOK
  <2>3. Finished(s)
    BY <1>3, AnalysisAssumption DEF Enumerate, Finished, IsCompleteAndVerified
  <2> QED
    BY <1>1, <1>2, <2>2, <2>3 DEF Enumerated
<1>4. CASE config' = config
  BY <1>1, <1>2, <1>4 DEF Enumerated
<1> QED
  BY <1>3, <1>4 DEF Next, vars, WriteRun, Start, Pending, Raise, OpenResults, WriteResults,
         ManifestRaises, OpenManifest, WriteManifest, Check, Exit

LEMMA StepKeepsAggregates == Inductive /\ [Next]_vars => Aggregates'
<1> SUFFICES ASSUME Inductive, [Next]_vars PROVE Aggregates'
  OBVIOUS
<1>1. TypeOK /\ Aggregates
  BY DEF Inductive
<1>2. content' = content /\ \A s : Finished(s) => Finished(s)'
  BY <1>1, ResultsAreStable
<1>3. CASE OpenResults
  <2>1. Current \in Configs
    BY <1>1, <1>3, CurrentIsAConfig DEF OpenResults
  <2>2. PICK s : s = ResolveRunIds(Current)
    OBVIOUS
  <2>3. RunList(s) /\ (Current \notin Latest => Finished(s))
    BY <2>1, <2>2, ResolvedLists
  <2>4. s # <<>> /\ OneExtractor(s)
    BY <1>3, <2>2, <2>3, LoadedLists, ListsHaveOneExtractor DEF OpenResults
  <2>5. job'.payload = Payload(Current) /\ job'.todo = job.todo
    BY <1>1, <1>3 DEF OpenResults, TypeOK, Building
  <2>6. Current' = Current
    BY <2>5 DEF Current
  <2>7. /\ job'.payload.runs = s /\ job'.payload.named = config[Current].ids
        /\ job'.payload.body = BuildResult(Current, s)
    BY <2>2, <2>5 DEF Payload
  <2>8. Current \notin Latest => config[Current].ids = s
    BY <2>2 DEF ResolveRunIds
  <2>9. BuildResult(Current, job.payload.runs)' = BuildResult(Current, s)
    BY <1>2, <1>3, <2>6, <2>7 DEF OpenResults, BuildResult, Loaded
  <2>10. OneExtractor(job.payload.runs)'
    BY <1>2, <2>4, <2>7 DEF OneExtractor, Extractor
  <2>11. RunList(job.payload.runs)' /\ job'.payload.runs # <<>>
    BY <2>3, <2>4, <2>7 DEF RunList
  <2>12. Current \notin Latest => Finished(job.payload.runs)'
    BY <1>3, <2>3, <2>7 DEF OpenResults, Finished
  <2> QED
    BY <2>6, <2>7, <2>8, <2>9, <2>10, <2>11, <2>12 DEF Aggregates
<1>4. ASSUME Writing, job'.payload = job.payload, job'.todo = job.todo, config' = config
      PROVE  Aggregates'
  <2>1. Current' = Current
    BY <1>4 DEF Current
  <2>2. BuildResult(Current, job.payload.runs)' = BuildResult(Current, job.payload.runs)
    BY <1>2, <1>4, <2>1 DEF BuildResult, Loaded
  <2>3. PICK s : s = job.payload.runs
    OBVIOUS
  <2>4. OneExtractor(job.payload.runs)'
    BY <1>1, <1>2, <1>4 DEF Aggregates, OneExtractor, Extractor
  <2>5. RunList(job.payload.runs)'
    BY <1>1, <1>4 DEF Aggregates, RunList
  <2>6. Current \in Configs \ Latest => Finished(job.payload.runs)'
    <3> SUFFICES ASSUME Current \in Configs \ Latest PROVE Finished(job.payload.runs)'
      OBVIOUS
    <3>1. Finished(s)'
      BY <1>1, <1>2, <1>4, <2>3 DEF Aggregates
    <3> QED
      BY <1>4, <2>3, <3>1 DEF Finished
  <2> QED
    BY <1>1, <1>4, <2>1, <2>2, <2>4, <2>5, <2>6 DEF Aggregates
<1>5. CASE WriteResults \/ OpenManifest
  BY <1>1, <1>4, <1>5 DEF OpenManifest, WriteResults, TypeOK, Writing
<1>6. ASSUME UNCHANGED <<config, job>>, Writing' PROVE Aggregates'
  BY <1>4, <1>6 DEF Writing
<1>7. ASSUME ~Writing' PROVE Aggregates'
  BY <1>7 DEF Aggregates
<1>8. CASE \E c \in Configs, s \in Choices : Enumerate(c, s)
  BY <1>7, <1>8 DEF Enumerate, Writing
<1>9. CASE \E names, check : Start(names, check)
  BY <1>7, <1>9 DEF Start, Writing
<1>10. CASE Pending \/ Check
  BY <1>1, <1>7, <1>10 DEF Pending, Check, Done, Building, Writing, TypeOK
<1>11. CASE Raise \/ ManifestRaises \/ Exit
  BY <1>7, <1>11 DEF Raise, ManifestRaises, Exit, Writing
<1>12. CASE WriteManifest
  BY <1>1, <1>7, <1>12 DEF WriteManifest, Done, Writing, TypeOK
<1>13. CASE UNCHANGED <<config, job>>
  BY <1>6, <1>7, <1>13
<1> QED
  BY <1>3, <1>5, <1>8, <1>9, <1>10, <1>11, <1>12, <1>13 DEF Next, vars, WriteRun

\* What is written beside a manifest does not matter: it is true by itself.
LEMMA StepKeepsManifests == Inductive /\ [Next]_vars => Manifests'
<1> SUFFICES ASSUME Inductive, [Next]_vars PROVE Manifests'
  OBVIOUS
<1>1. TypeOK /\ Manifests /\ Aggregates
  BY DEF Inductive
<1>2. /\ content' = content
      /\ \A c \in Configs : \A s : BuildResult(c, s)' = BuildResult(c, s)
      /\ \A r : Extractor(r)' = Extractor(r)
  BY <1>1, ResultsAreStable
<1> SUFFICES ASSUME NEW c \in Configs, manifest'[c].part = "whole"
             PROVE  /\ manifest'[c].sha = BuildResult(c, manifest[c].runs)'
                    /\ \A n \in DOMAIN manifest'[c].runs :
                         content'[manifest'[c].runs[n]].version = manifest'[c].extractor
  BY DEF Manifests, Extractor
<1>3. CASE manifest'[c] = manifest[c]
  <2>1. PICK s : s = manifest[c].runs
    OBVIOUS
  <2>2. BuildResult(c, s)' = BuildResult(c, s)
    BY <1>2
  <2>3. BuildResult(c, manifest[c].runs)' = BuildResult(c, s)'
    BY <1>3, <2>1 DEF BuildResult, Loaded
  <2> QED
    BY <1>1, <1>2, <1>3, <2>1, <2>2, <2>3 DEF Manifests, Extractor
<1>4. CASE WriteManifest /\ c = Current
  <2>1. PICK s : s = job.payload.runs
    OBVIOUS
  <2>2. manifest'[c] = [part |-> "whole", runs |-> s, extractor |-> Extractor(s[1]),
                        sha |-> job.payload.body]
    BY <1>1, <1>4, <2>1 DEF WriteManifest, AggregatedRuns, TypeOK
  <2>3. /\ RunList(s) /\ OneExtractor(s)
        /\ job.payload.body = BuildResult(c, s)
    BY <1>1, <1>4, <2>1 DEF WriteManifest, Aggregates, Writing
  <2>4. \A n \in DOMAIN s : 1 \in DOMAIN s
    BY <2>3 DEF RunList
  <2>5. BuildResult(c, manifest[c].runs)' = BuildResult(c, s)'
    BY <2>2 DEF BuildResult, Loaded
  <2> QED
    BY <1>2, <2>2, <2>3, <2>4, <2>5 DEF OneExtractor, Extractor
<1>5. CASE OpenManifest /\ c = Current
  BY <1>1, <1>5 DEF OpenManifest, CutFile, TypeOK
<1>6. CASE (WriteManifest \/ OpenManifest) /\ c # Current
  BY <1>1, <1>3, <1>6 DEF WriteManifest, OpenManifest, TypeOK
<1>7. CASE manifest' = manifest
  BY <1>3, <1>7
<1> QED
  BY <1>4, <1>5, <1>6, <1>7 DEF Next, vars, WriteRun, Enumerate, Start, Pending, Raise, OpenResults,
     WriteResults, ManifestRaises, Check, Exit

LEMMA StepKeepsResults == Inductive /\ [Next]_vars => Results'
<1> SUFFICES ASSUME Inductive, [Next]_vars PROVE Results'
  OBVIOUS
<1>1. TypeOK /\ Results /\ Aggregates
  BY DEF Inductive
<1>2. /\ content' = content
      /\ \A c \in Configs : \A s : BuildResult(c, s)' = BuildResult(c, s)
      /\ \A s : Finished(s) => Finished(s)'
  BY <1>1, ResultsAreStable
<1> SUFFICES ASSUME NEW c \in Configs \ Latest, results'[c].part = "whole"
             PROVE  \E s : /\ results'[c].named = s
                           /\ results'[c].body = BuildResult(c, s)'
                           /\ Finished(s)' /\ s # <<>> /\ OneExtractor(s)'
  <2>1. ASSUME NEW d \in Configs \ Latest, NEW s, results'[d].named = s,
               results'[d].body = BuildResult(d, s)', Finished(s)', OneExtractor(s)'
        PROVE  /\ results'[d].body = BuildResult(d, results[d].named)'
               /\ Finished(results[d].named)' /\ OneExtractor(results[d].named)'
    BY <2>1 DEF BuildResult, Loaded, Finished, OneExtractor, Extractor
  <2> QED
    BY <2>1 DEF Results
<1>3. \A s : OneExtractor(s) => OneExtractor(s)'
  BY <1>2 DEF OneExtractor, Extractor
<1>4. CASE results'[c] = results[c]
  BY <1>1, <1>2, <1>3, <1>4 DEF Results
<1>5. CASE WriteResults /\ c = Current
  <2>1. PICK s : s = job.payload.runs
    OBVIOUS
  <2>2. /\ job.payload.named = s /\ job.payload.body = BuildResult(c, s)
        /\ Finished(s) /\ s # <<>> /\ OneExtractor(s)
    BY <1>1, <1>5, <2>1 DEF WriteResults, Aggregates, Writing
  <2>3. results'[c] = [part |-> "whole", named |-> s, body |-> BuildResult(c, s)]
    BY <1>1, <1>5, <2>2 DEF WriteResults, TypeOK
  <2> QED
    BY <1>2, <1>3, <2>2, <2>3
<1>6. CASE OpenResults /\ c = Current
  BY <1>1, <1>6 DEF OpenResults, CutFile, TypeOK
<1>7. CASE (WriteResults \/ OpenResults) /\ c # Current
  BY <1>1, <1>4, <1>7 DEF WriteResults, OpenResults, TypeOK
<1>8. CASE results' = results
  BY <1>4, <1>8
<1> QED
  BY <1>5, <1>6, <1>7, <1>8 DEF Next, vars, WriteRun, Enumerate, Start, Pending, Raise,
     ManifestRaises, OpenManifest, WriteManifest, Check, Exit

LEMMA InductiveHolds == Spec => []Inductive
<1>1. Inductive /\ [Next]_vars => Inductive'
  BY StepKeepsTypes, StepKeepsEnumerated, StepKeepsAggregates, StepKeepsManifests,
     StepKeepsResults DEF Inductive
<1> QED
  BY InitHolds, <1>1, PTL DEF Spec

(***************************************************************************)
(* The safety theorems.                                                    *)
(***************************************************************************)
\* Wherever a process is killed and whatever is published meanwhile, a manifest
\* with the hash of the results beside it names runs that give these results,
\* all of the extractor version it states.
THEOREM ManifestsAreTrue == Spec => []ManifestNamesItsRuns
<1>1. Inductive => ManifestNamesItsRuns
  BY DEF Inductive, Manifests, ManifestNamesItsRuns
<1> QED
  BY <1>1, InductiveHolds, PTL

\* No run that is started, finished or abandoned changes what an analysis that
\* enumerates its runs computes: --check reproduces it for ever.
THEOREM EnumerationsReproduce == Spec => []EnumeratedReproduces
<1>1. ASSUME Inductive PROVE EnumeratedReproduces
  <2> SUFFICES ASSUME NEW c \in Configs \ Latest, results[c].part = "whole",
                      results[c].named = config[c].ids
               PROVE  Outcome(ResolveRunIds(c)) = "ok" /\ Matches(c)
    BY DEF EnumeratedReproduces
  <2>1. PICK s : s = config[c].ids
    OBVIOUS
  <2>2. ResolveRunIds(c) = s
    BY <2>1 DEF ResolveRunIds
  <2>3. /\ results[c].body = BuildResult(c, s)
        /\ Finished(s) /\ s # <<>> /\ OneExtractor(s)
    BY <1>1, <2>1 DEF Inductive, Results
  <2>4. RunList(s) /\ \A n \in DOMAIN s : s[n] \in Runs
    BY <2>3 DEF Finished, RunList
  <2>5. \A n \in DOMAIN s : LoadRun(s[n]) = "ok"
    BY <2>3 DEF Finished, LoadRun, ManifestReads, StatusReads
  <2>6. SingleExtractor(s)
    BY <2>3, <2>4, OneExtractorIsSingle DEF Finished
  <2>7. Outcome(s) = "ok"
    BY <2>3, <2>5, <2>6 DEF Outcome
  <2> QED
    BY <2>2, <2>3, <2>7 DEF Matches
<1> QED
  BY <1>1, InductiveHolds, PTL
==============================================================================
