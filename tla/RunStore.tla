------------------------------- MODULE RunStore -------------------------------
(***************************************************************************)
(* runs/: run directories as they are minted, written, read and gated      *)
(* (provenance/run_id.py, provenance/manifest.py, orchestration/runner.py  *)
(* write_run, orchestration/gates.py, results/api.py,                      *)
(* results/mapping_check.py).                                              *)
(*                                                                         *)
(* A process launches an experiment, works for hours, mints a run id and   *)
(* writes the directory file by file.  Configurations are files of the     *)
(* working tree, read when they are needed: a study's extraction config    *)
(* once by the gate check and again, after data and detector, for the      *)
(* extractor.  A file that is being written is first truncated, so a kill  *)
(* leaves an empty STATUS or a cut JSON file behind.                       *)
(***************************************************************************)
EXTENDS Naturals, Sequences, FiniteSets

CONSTANTS
  Procs,          \* processes that run experiments
  Gates,          \* gate experiments (EXP-G-*)
  Studies,        \* experiments that declare every gate as a dependency
  ExtractorGate,  \* the gate whose token certifies one extractor version
  Commits,        \* commits that may be checked out
  Version,        \* the extractor version each commit declares
  None,           \* no value
  MaxMinute,      \* bound: the clock, in the run id's minutes
  MaxLaunches     \* bound: how many experiments are launched

Exps == Gates \cup Studies

\* mint_run_id: the experiment, the stamped commit and the UTC minute.
RunIds == Exps \X Commits \X (0..MaxMinute)

ASSUME RunStoreAssumption ==
  /\ Gates \cap Studies = {}
  /\ ExtractorGate \in Gates
  /\ DOMAIN Version = Commits
  /\ None \notin Exps \cup Commits \cup RunIds
  /\ MaxMinute \in Nat /\ MaxLaunches \in Nat

VARIABLES
  now,        \* the minute
  head,       \* the commit that is checked out
  dirs,       \* runs/<experiment>/<run id>/, by run id
  pc,         \* what each process is doing
  exp,        \* the experiment it runs
  checked,    \* history: the commit its gates were checked on, for a study
  code,       \* the commit whose extraction config it loaded
  gate,       \* the verdict of its gate experiment, "none" for a study
  id,         \* the run id it minted
  writes,     \* how many of write_run's writes it has made
  launches    \* how many experiments were launched

vars == <<now, head, dirs, pc, exp, checked, code, gate, id, writes, launches>>

\* A directory's files.  "code" is the commit whose extractor computed its
\* contents: its version is in config.resolved.yaml; "gate" is in MANIFEST.json;
\* "checked" is history, in no file.
Dir == [made: BOOLEAN, status: {"absent", "empty", "RUNNING", "COMPLETE"},
        outputs: {"absent", "cut", "whole"}, config: {"absent", "cut", "whole"},
        manifest: {"absent", "cut", "whole"},
        gate: {"none", "PASSED", "FAILED"}, checked: Commits \cup {None},
        code: Commits]

NoDir(c) == [made |-> FALSE, status |-> "absent", outputs |-> "absent",
             config |-> "absent", manifest |-> "absent", gate |-> "none",
             checked |-> None, code |-> c]

\* Bug: STATUS says COMPLETE before the manifest is there.
StatusFirstOrder ==
  << <<"status", "empty">>,    <<"status", "RUNNING">>,
     <<"outputs", "cut">>,     <<"outputs", "whole">>,
     <<"config", "cut">>,      <<"config", "whole">>,
     <<"status", "empty">>,    <<"status", "COMPLETE">>,
     <<"manifest", "cut">>,    <<"manifest", "whole">> >>

\* Bug: the manifest is there before the configuration.
ManifestEarlyOrder ==
  << <<"status", "empty">>,    <<"status", "RUNNING">>,
     <<"outputs", "cut">>,     <<"outputs", "whole">>,
     <<"manifest", "cut">>,    <<"manifest", "whole">>,
     <<"config", "cut">>,      <<"config", "whole">>,
     <<"status", "empty">>,    <<"status", "COMPLETE">> >>

\* write_run, write by write: STATUS, the three artifacts, the resolved
\* configuration, the manifest and STATUS again; each open truncates its file.
WriteOrder ==
  << <<"status", "empty">>,    <<"status", "RUNNING">>,
     <<"outputs", "cut">>,     <<"outputs", "whole">>,
     <<"config", "cut">>,      <<"config", "whole">>,
     <<"manifest", "cut">>,    <<"manifest", "whole">>,
     <<"status", "empty">>,    <<"status", "COMPLETE">> >>

(***************************************************************************)
(* Readers.                                                                *)
(***************************************************************************)
\* read_status: Status("") and a manifest json.loads rejects are errors no
\* reader catches.
StatusRaises(d) == d.status = "empty"

\* Does _has_passed_run raise on the directory d?  Only a COMPLETE one is read.
GateReadRaises(d) ==
  /\ d.made
  /\ StatusRaises(d) \/ (d.status = "COMPLETE" /\ d.manifest = "cut")

\* Bug: any version's token counts.
IsTokenOfAnyVersion(g, d, v) ==
  /\ d.made /\ d.status = "COMPLETE"
  /\ d.manifest = "whole" /\ d.gate = "PASSED"

\* ... and does it take the directory of gate g for a token under version v?
IsToken(g, d, v) ==
  /\ d.made /\ d.status = "COMPLETE"
  /\ d.manifest = "whole" /\ d.gate = "PASSED"
  /\ g = ExtractorGate => d.config = "whole" /\ Version[d.code] = v

DirsOf(e) == {dirs[r] : r \in {s \in RunIds : s[1] = e}}

\* What enforce_gates may do for an experiment of configuration version v:
\* iterdir's order decides whether a token or an unreadable directory is met
\* first, and the scan of a gate ends with its first token.
EnforceGates(v) ==
  LET Unlocks(g) == \E d \in DirsOf(g) : IsToken(g, d, v)
      Raises(g) == \E d \in DirsOf(g) : GateReadRaises(d)
  IN {o \in {"error", "unlocked", "refused"} :
        \/ o = "error" /\ \E g \in Gates : Raises(g)
        \/ o = "unlocked" /\ \A g \in Gates : Unlocks(g)
        \/ /\ o = "refused"
           /\ \A g \in Gates : Unlocks(g) \/ ~Raises(g)
           /\ \E g \in Gates : ~Unlocks(g)}

\* load_run with hash verification, as mapping_check uses it: the status it
\* then looks at is the manifest's, which write_run always makes COMPLETE.
MappingAccepts(d) ==
  d.made /\ d.manifest = "whole" /\ ~StatusRaises(d) /\ d.outputs = "whole"

(***************************************************************************)
(* The state machine.                                                      *)
(***************************************************************************)
Init ==
  /\ now = 0 /\ head \in Commits
  /\ dirs = [r \in RunIds |-> NoDir(r[2])]
  /\ pc = [p \in Procs |-> "off"]
  /\ exp = [p \in Procs |-> None]
  /\ checked = [p \in Procs |-> None]
  /\ code = [p \in Procs |-> None]
  /\ gate = [p \in Procs |-> "none"]
  /\ id = [p \in Procs |-> None]
  /\ writes = [p \in Procs |-> 0]
  /\ launches = 0

End(p) ==
  /\ pc' = [pc EXCEPT ![p] = "off"]
  /\ exp' = [exp EXCEPT ![p] = None]
  /\ checked' = [checked EXCEPT ![p] = None]
  /\ code' = [code EXCEPT ![p] = None]
  /\ gate' = [gate EXCEPT ![p] = "none"]
  /\ id' = [id EXCEPT ![p] = None]
  /\ writes' = [writes EXCEPT ![p] = 0]

CanLaunch(p) == pc[p] = "off" /\ launches < MaxLaunches

\* A gate experiment has no dependency and reads its configuration at once; its
\* verdict is in its data.
LaunchGate(p, g, verdict) ==
  /\ CanLaunch(p)
  /\ launches' = launches + 1
  /\ pc' = [pc EXCEPT ![p] = "working"]
  /\ exp' = [exp EXCEPT ![p] = g]
  /\ code' = [code EXCEPT ![p] = head]
  /\ gate' = [gate EXCEPT ![p] = verdict]
  /\ UNCHANGED <<now, head, dirs, checked, id, writes>>

\* A score step of a study whose gates, for the extractor version declared now,
\* let it through.
LaunchStudy(p, s) ==
  /\ CanLaunch(p)
  /\ "unlocked" \in EnforceGates(Version[head])
  /\ launches' = launches + 1
  /\ pc' = [pc EXCEPT ![p] = "admitted"]
  /\ exp' = [exp EXCEPT ![p] = s]
  /\ checked' = [checked EXCEPT ![p] = head]
  /\ UNCHANGED <<now, head, dirs, code, gate, id, writes>>

\* GateNotPassed, or the error of an unreadable gate run: nothing is run.
LaunchFails(p) ==
  /\ CanLaunch(p)
  /\ EnforceGates(Version[head]) \cap {"refused", "error"} # {}
  /\ launches' = launches + 1
  /\ UNCHANGED <<now, head, dirs, pc, exp, checked, code, gate, id, writes>>

\* The data is loaded and the detector trained: the extraction config is read
\* again, and this is the extractor that is used and recorded.
LoadExtractor(p) ==
  /\ pc[p] = "admitted"
  /\ pc' = [pc EXCEPT ![p] = "working"]
  /\ code' = [code EXCEPT ![p] = head]
  /\ UNCHANGED <<now, head, dirs, exp, checked, gate, id, writes, launches>>

\* The work is done: mint the id.  The extractor audit resolved its commit when
\* it started, the other experiments stamp what is checked out now.
Mint(p) ==
  /\ pc[p] = "working"
  /\ pc' = [pc EXCEPT ![p] = "minted"]
  /\ LET stamped == IF exp[p] = ExtractorGate THEN code[p] ELSE head
     IN id' = [id EXCEPT ![p] = <<exp[p], stamped, now>>]
  /\ UNCHANGED <<now, head, dirs, exp, checked, code, gate, writes, launches>>

\* Bug: an existing directory is written again.
CreateDirAnyway(p) ==
  /\ pc[p] = "minted"
  /\ pc' = [pc EXCEPT ![p] = "writing"]
  /\ dirs' = [dirs EXCEPT ![id[p]] =
       [NoDir(code[p]) EXCEPT !.made = TRUE, !.gate = gate[p], !.checked = checked[p]]]
  /\ UNCHANGED <<now, head, exp, checked, code, gate, id, writes, launches>>

\* write_run: runs/ is write-once.
CreateDir(p) ==
  /\ pc[p] = "minted"
  /\ ~dirs[id[p]].made
  /\ pc' = [pc EXCEPT ![p] = "writing"]
  /\ dirs' = [dirs EXCEPT ![id[p]] =
       [NoDir(code[p]) EXCEPT !.made = TRUE, !.gate = gate[p], !.checked = checked[p]]]
  /\ UNCHANGED <<now, head, exp, checked, code, gate, id, writes, launches>>

\* RunDirectoryExists: the results of this process are lost.
DirExists(p) ==
  /\ pc[p] = "minted"
  /\ dirs[id[p]].made
  /\ End(p)
  /\ UNCHANGED <<now, head, dirs, launches>>

Write(p) ==
  /\ pc[p] = "writing"
  /\ writes[p] < Len(WriteOrder)
  /\ LET w == WriteOrder[writes[p] + 1]
     IN dirs' = [dirs EXCEPT ![id[p]][w[1]] = w[2]]
  /\ writes' = [writes EXCEPT ![p] = @ + 1]
  /\ UNCHANGED <<now, head, pc, exp, checked, code, gate, id, launches>>

Finish(p) ==
  /\ pc[p] = "writing"
  /\ writes[p] = Len(WriteOrder)
  /\ End(p)
  /\ UNCHANGED <<now, head, dirs, launches>>

\* The process is killed, wherever it is.
Kill(p) ==
  /\ pc[p] # "off"
  /\ End(p)
  /\ UNCHANGED <<now, head, dirs, launches>>

Checkout(c) ==
  /\ head' = c
  /\ UNCHANGED <<now, dirs, pc, exp, checked, code, gate, id, writes, launches>>

Tick ==
  /\ now < MaxMinute
  /\ now' = now + 1
  /\ UNCHANGED <<head, dirs, pc, exp, checked, code, gate, id, writes, launches>>

Next ==
  \/ \E p \in Procs :
       \/ \E g \in Gates, verdict \in {"PASSED", "FAILED"} :
            LaunchGate(p, g, verdict)
       \/ \E s \in Studies : LaunchStudy(p, s)
       \/ LaunchFails(p) \/ LoadExtractor(p)
       \/ Mint(p) \/ CreateDir(p) \/ DirExists(p) \/ Write(p) \/ Finish(p)
       \/ Kill(p)
  \/ \E c \in Commits : Checkout(c)
  \/ Tick

Spec == Init /\ [][Next]_vars

(***************************************************************************)
(* Properties.                                                             *)
(***************************************************************************)
TypeOK ==
  /\ now \in 0..MaxMinute
  /\ head \in Commits
  /\ dirs \in [RunIds -> Dir]
  /\ pc \in [Procs -> {"off", "admitted", "working", "minted", "writing"}]
  /\ exp \in [Procs -> Exps \cup {None}]
  /\ checked \in [Procs -> Commits \cup {None}]
  /\ code \in [Procs -> Commits \cup {None}]
  /\ gate \in [Procs -> {"none", "PASSED", "FAILED"}]
  /\ id \in [Procs -> RunIds \cup {None}]
  /\ writes \in [Procs -> 0..Len(WriteOrder)]
  /\ launches \in 0..MaxLaunches

\* A COMPLETE STATUS is written last: wherever the writer is killed and
\* whoever else writes to runs/, a run that says COMPLETE has all its files,
\* and no reader of it (gates, results API) meets a cut one.
CompleteIsWhole ==
  \A r \in RunIds : dirs[r].status = "COMPLETE" =>
    dirs[r].outputs = "whole" /\ dirs[r].config = "whole"
      /\ dirs[r].manifest = "whole"

\* A run that was published is never touched again ("runs/ is write-once",
\* runner.py:268; "terminal states are immutable", manifest.py:216), also when
\* another process mints the same id.
PublishedIsFinal ==
  [][\A r \in RunIds : dirs[r].status = "COMPLETE" => dirs'[r] = dirs[r]]_vars

\* A run the paper's mapping may cite, which need not be COMPLETE (the check
\* reads the manifest's status, mapping_check.py:38), has all its contents, and
\* they never change again: whatever is killed or minted, only STATUS may.
MappedIsFinal ==
  [][\A r \in RunIds : MappingAccepts(dirs[r]) =>
       /\ dirs[r].config = "whole"
       /\ dirs'[r] = [dirs[r] EXCEPT !.status = dirs'[r].status]]_vars

\* No study has results that its gates did not allow: whenever the directory
\* of a study exists, every gate has a COMPLETE, PASSED run, and the extractor
\* gate one that was earned by the extractor version declared when its gates were
\* checked (gates.py:67), whatever was checked out, killed or written since.  That
\* the extractor then loaded is of that version is not so: the config is read again.
StudiesAreGated ==
  \A s \in RunIds : s[1] \in Studies /\ dirs[s].made =>
    \A g \in Gates : \E r \in RunIds :
      /\ r[1] = g /\ dirs[r].status = "COMPLETE" /\ dirs[r].gate = "PASSED"
      /\ g = ExtractorGate => Version[dirs[r].code] = Version[dirs[s].checked]
===============================================================================
