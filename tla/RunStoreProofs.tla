---------------------------- MODULE RunStoreProofs -----------------------------
(***************************************************************************)
(* What runs/ guarantees for any number of processes, experiments, commits *)
(* and launches, wherever processes are killed.                            *)
(***************************************************************************)
EXTENDS RunStore, TLAPS

USE RunStoreAssumption

(***************************************************************************)
(* The inductive invariant.                                                *)
(***************************************************************************)
\* The files of a directory after n of write_run's writes.
Stage(d, n) ==
  /\ d.status = IF n = 0 THEN "absent" ELSE IF n \in {1, 9} THEN "empty"
                ELSE IF n = 10 THEN "COMPLETE" ELSE "RUNNING"
  /\ d.outputs = IF n < 3 THEN "absent" ELSE IF n = 3 THEN "cut" ELSE "whole"
  /\ d.config = IF n < 5 THEN "absent" ELSE IF n = 5 THEN "cut" ELSE "whole"
  /\ d.manifest = IF n < 7 THEN "absent" ELSE IF n = 7 THEN "cut" ELSE "whole"

\* Every directory is somewhere along its writes, one that was never made at 0.
DirsAreStaged ==
  \A r \in RunIds : \E n \in 0..10 : Stage(dirs[r], n) /\ (~dirs[r].made => n = 0)

\* A process has the experiment, code and id its program counter says.
Registers ==
  \A p \in Procs :
    /\ pc[p] # "off" => exp[p] \in Exps
    /\ pc[p] \notin {"off", "admitted"} => code[p] \in Commits
    /\ pc[p] \in {"minted", "writing"} => id[p] \in RunIds /\ id[p][1] = exp[p]
    /\ pc[p] # "writing" => writes[p] = 0

\* A writer has its directory to itself and knows how far it is.
WritersAreAlone ==
  /\ \A p \in Procs : pc[p] = "writing" =>
       dirs[id[p]].made /\ Stage(dirs[id[p]], writes[p])
  /\ \A p, q \in Procs :
       pc[p] = "writing" /\ pc[q] = "writing" /\ id[p] = id[q] => p = q

\* Every gate has a token for the extractor version v.
Unlocked(store, v) ==
  \A g \in Gates : \E r \in RunIds : r[1] = g /\ IsToken(g, store[r], v)

\* The tokens a study was launched with are still there.
StudiesUnlocked ==
  /\ \A p \in Procs :
       pc[p] # "off" /\ exp[p] \in Studies => Unlocked(dirs, Version[checked[p]])
  /\ \A s \in RunIds :
       s[1] \in Studies /\ dirs[s].made => Unlocked(dirs, Version[dirs[s].checked])

Inductive ==
  TypeOK /\ DirsAreStaged /\ Registers /\ WritersAreAlone /\ StudiesUnlocked

(***************************************************************************)
(* One write.                                                              *)
(***************************************************************************)
LEMMA Writes ==
  /\ Len(WriteOrder) = 10
  /\ WriteOrder[1] = <<"status", "empty">> /\ WriteOrder[2] = <<"status", "RUNNING">>
  /\ WriteOrder[3] = <<"outputs", "cut">> /\ WriteOrder[4] = <<"outputs", "whole">>
  /\ WriteOrder[5] = <<"config", "cut">> /\ WriteOrder[6] = <<"config", "whole">>
  /\ WriteOrder[7] = <<"manifest", "cut">> /\ WriteOrder[8] = <<"manifest", "whole">>
  /\ WriteOrder[9] = <<"status", "empty">> /\ WriteOrder[10] = <<"status", "COMPLETE">>
  BY DEF WriteOrder

\* The directory after the write w.
Written(d, w) == [d EXCEPT ![w[1]] = w[2]]

LEMMA AWriteIsAStage ==
  ASSUME NEW d \in Dir, NEW n \in 0..9, Stage(d, n)
  PROVE  LET e == Written(d, WriteOrder[n + 1])
         IN /\ e \in Dir /\ Stage(e, n + 1)
            /\ e.made = d.made /\ e.gate = d.gate /\ e.checked = d.checked
            /\ n >= 8 => e = [d EXCEPT !.status = e.status]
<1> DEFINE e == Written(d, WriteOrder[n + 1])
<1>a. ASSUME NEW v \in {"empty", "COMPLETE"}, WriteOrder[n + 1] = <<"status", v>>
      PROVE  e.status = v /\ e = [d EXCEPT !.status = e.status]
  <2>1. e = [d EXCEPT !.status = v]
    BY <1>a DEF Written
  <2> QED  BY <2>1 DEF Dir
<1>1. n \in {0, 1, 2, 3, 4, 5, 6, 7, 8, 9}
  OBVIOUS
<1>2. CASE n = 0
  BY <1>2, Writes DEF Dir, Stage, Written
<1>3. CASE n = 1
  BY <1>3, Writes DEF Dir, Stage, Written
<1>4. CASE n = 2
  BY <1>4, Writes DEF Dir, Stage, Written
<1>5. CASE n = 3
  BY <1>5, Writes DEF Dir, Stage, Written
<1>6. CASE n = 4
  BY <1>6, Writes DEF Dir, Stage, Written
<1>7. CASE n = 5
  BY <1>7, Writes DEF Dir, Stage, Written
<1>8. CASE n = 6
  BY <1>8, Writes DEF Dir, Stage, Written
<1>9. CASE n = 7
  BY <1>9, Writes DEF Dir, Stage, Written
<1>10. CASE n = 8
  BY <1>10, <1>a, Writes DEF Dir, Stage, Written
<1>11. CASE n = 9
  BY <1>11, <1>a, Writes DEF Dir, Stage, Written
<1> QED  BY <1>1, <1>2, <1>3, <1>4, <1>5, <1>6, <1>7, <1>8, <1>9, <1>10, <1>11

(***************************************************************************)
(* What a step does to the directories.                                    *)
(***************************************************************************)
\* Steps that leave every directory alone.
LEMMA OtherSteps ==
  ASSUME [Next]_vars
  PROVE  \/ UNCHANGED dirs
         \/ \E p \in Procs : CreateDir(p) \/ Write(p)
  BY DEF Next, vars, LaunchGate, LaunchStudy, LaunchFails, LoadExtractor, Mint, DirExists,
         Finish, Kill, Checkout, Tick

NewDir(c, g, k) == [NoDir(c) EXCEPT !.made = TRUE, !.gate = g, !.checked = k]

LEMMA ANewDir ==
  ASSUME NEW c \in Commits, NEW g \in {"none", "PASSED", "FAILED"},
         NEW k \in Commits \cup {None}
  PROVE  LET d == NewDir(c, g, k)
         IN d \in Dir /\ Stage(d, 0) /\ d.made /\ d.checked = k
<1>1. NoDir(c) \in Dir /\ Stage(NoDir(c), 0)
  BY DEF NoDir, Dir, Stage
<1>2. NewDir(c, g, k) \in Dir /\ NewDir(c, g, k).made /\ NewDir(c, g, k).checked = k
  BY <1>1 DEF NewDir, Dir
<1>3. Stage(NewDir(c, g, k), 0)
  BY <1>1 DEF NewDir, Dir, Stage
<1> QED  BY <1>2, <1>3

\* A directory is created where there was none.
LEMMA Creates ==
  ASSUME Inductive, NEW p \in Procs, CreateDir(p)
  PROVE  /\ id[p] \in RunIds /\ ~dirs[id[p]].made
         /\ dirs' \in [RunIds -> Dir]
         /\ Stage(dirs'[id[p]], 0) /\ dirs'[id[p]].made /\ dirs'[id[p]].checked = checked[p]
         /\ \A r \in RunIds \ {id[p]} : dirs'[r] = dirs[r]
<1>1. id[p] \in RunIds /\ ~dirs[id[p]].made /\ code[p] \in Commits
  BY DEF CreateDir, Inductive, Registers
<1>2. /\ gate[p] \in {"none", "PASSED", "FAILED"} /\ checked[p] \in Commits \cup {None}
      /\ dirs \in [RunIds -> Dir]
  BY DEF Inductive, TypeOK
<1> DEFINE d == NewDir(code[p], gate[p], checked[p])
<1>3. d \in Dir /\ Stage(d, 0) /\ d.made /\ d.checked = checked[p]
  BY <1>1, <1>2, ANewDir
<1>4. dirs' = [dirs EXCEPT ![id[p]] = d]
  BY DEF CreateDir, NewDir
<1> HIDE DEF d
<1> QED  BY <1>1, <1>2, <1>3, <1>4

\* A file is written in the writer's own directory, as the next of its writes.
LEMMA WritesItsDir ==
  ASSUME Inductive, NEW p \in Procs, Write(p)
  PROVE  /\ id[p] \in RunIds /\ dirs[id[p]].made
         /\ writes[p] \in 0..9 /\ Stage(dirs[id[p]], writes[p])
         /\ dirs' \in [RunIds -> Dir] /\ Stage(dirs'[id[p]], writes[p] + 1)
         /\ dirs'[id[p]].made /\ dirs'[id[p]].checked = dirs[id[p]].checked
         /\ writes[p] >= 8 => dirs'[id[p]] = [dirs[id[p]] EXCEPT !.status = dirs'[id[p]].status]
         /\ \A r \in RunIds \ {id[p]} : dirs'[r] = dirs[r]
<1> DEFINE i == id[p]  n == writes[p]  e == Written(dirs[i], WriteOrder[n + 1])
<1>1. i \in RunIds /\ dirs[i].made /\ dirs[i] \in Dir /\ Stage(dirs[i], n) /\ n \in 0..9
  BY Writes DEF Write, Inductive, Registers, WritersAreAlone, TypeOK
<1>2. /\ e \in Dir /\ Stage(e, n + 1) /\ e.made = dirs[i].made /\ e.checked = dirs[i].checked
      /\ n >= 8 => e = [dirs[i] EXCEPT !.status = e.status]
  BY <1>1, AWriteIsAStage
<1>3. dirs' = [dirs EXCEPT ![i] = e] /\ dirs \in [RunIds -> Dir]
  BY DEF Write, Written, Inductive, TypeOK
<1> HIDE DEF e
<1> QED  BY <1>1, <1>2, <1>3

LEMMA AWholeManifest ==
  ASSUME NEW d, NEW n \in 0..10, Stage(d, n), d.manifest = "whole"
  PROVE  n >= 8 /\ d.config = "whole"
  BY DEF Stage

\* Nothing a step does touches a published run, ...
LEMMA PublishedStays ==
  ASSUME Inductive, [Next]_vars, NEW r \in RunIds, dirs[r].status = "COMPLETE"
  PROVE  dirs'[r] = dirs[r]
<1>1. ASSUME NEW p \in Procs, CreateDir(p), r = id[p]
      PROVE  FALSE
  <2>1. PICK n \in 0..10 : Stage(dirs[r], n) /\ (~dirs[r].made => n = 0)
    BY DEF Inductive, DirsAreStaged
  <2> QED  BY <1>1, <2>1, Creates DEF Stage
<1>2. ASSUME NEW p \in Procs, Write(p), r = id[p]
      PROVE  FALSE
  <2>1. writes[p] \in 0..9 /\ Stage(dirs[r], writes[p])
    BY <1>2, WritesItsDir
  <2> QED  BY <2>1 DEF Stage
<1> QED  BY <1>1, <1>2, OtherSteps, Creates, WritesItsDir

\* ... or more than the STATUS of a run the mapping check accepts.
LEMMA MappedStays ==
  ASSUME Inductive, [Next]_vars, NEW r \in RunIds, MappingAccepts(dirs[r])
  PROVE  /\ dirs[r].config = "whole"
         /\ dirs'[r] = [dirs[r] EXCEPT !.status = dirs'[r].status]
<1>1. dirs[r] \in Dir /\ dirs[r].made /\ dirs[r].manifest = "whole"
  BY DEF Inductive, TypeOK, MappingAccepts
<1>2. PICK n \in 0..10 : Stage(dirs[r], n)
  BY DEF Inductive, DirsAreStaged
<1>3. n >= 8 /\ dirs[r].config = "whole"
  BY <1>1, <1>2, AWholeManifest
<1>4. CASE dirs'[r] = dirs[r]
  BY <1>1, <1>3, <1>4 DEF Dir
<1>5. CASE dirs'[r] # dirs[r]
  <2>1. PICK p \in Procs : Write(p) /\ r = id[p]
    BY <1>1, <1>5, OtherSteps, Creates, WritesItsDir
  <2>2. writes[p] \in 0..9 /\ Stage(dirs[r], writes[p])
    BY <2>1, WritesItsDir
  <2>3. writes[p] >= 8
    BY <1>1, <2>2, AWholeManifest
  <2> QED  BY <1>3, <2>1, <2>3, WritesItsDir
<1> QED  BY <1>4, <1>5

LEMMA TokensStay ==
  ASSUME Inductive, [Next]_vars, NEW v, Unlocked(dirs, v)
  PROVE  Unlocked(dirs', v)
<1> SUFFICES ASSUME NEW g \in Gates
             PROVE  \E r \in RunIds : r[1] = g /\ IsToken(g, dirs'[r], v)
  BY DEF Unlocked
<1>1. PICK r \in RunIds : r[1] = g /\ IsToken(g, dirs[r], v)
  BY DEF Unlocked
<1>2. dirs'[r] = dirs[r]
  BY <1>1, PublishedStays DEF IsToken
<1> QED  BY <1>1, <1>2

(***************************************************************************)
(* The invariant holds.                                                    *)
(***************************************************************************)
LEMMA InductiveInit == Init => Inductive
<1> SUFFICES ASSUME Init PROVE Inductive
  OBVIOUS
<1>1. \A r \in RunIds : r[2] \in Commits /\ dirs[r] = NoDir(r[2])
  BY DEF Init, RunIds
<1>2. \A c \in Commits : NoDir(c) \in Dir /\ Stage(NoDir(c), 0) /\ ~NoDir(c).made
  BY DEF NoDir, Dir, Stage
<1>3. dirs \in [RunIds -> Dir]
  BY <1>1, <1>2 DEF Init
<1>4. TypeOK
  BY <1>3, Writes DEF Init, TypeOK
<1>5. DirsAreStaged
  BY <1>1, <1>2 DEF DirsAreStaged
<1>6. Registers /\ WritersAreAlone /\ StudiesUnlocked
  BY <1>1, <1>2 DEF Init, Registers, WritersAreAlone, StudiesUnlocked
<1> QED  BY <1>4, <1>5, <1>6 DEF Inductive

LEMMA TypeStep ==
  ASSUME Inductive, [Next]_vars
  PROVE  TypeOK' /\ Registers'
<1>0. TypeOK /\ Registers
  BY DEF Inductive
<1>1. ASSUME NEW p \in Procs, NEW g \in Gates, NEW verdict \in {"PASSED", "FAILED"},
             LaunchGate(p, g, verdict)
      PROVE  TypeOK' /\ Registers'
  BY <1>0, <1>1 DEF LaunchGate, CanLaunch, Exps, TypeOK, Registers
<1>2. ASSUME NEW p \in Procs, NEW s \in Studies, LaunchStudy(p, s)
      PROVE  TypeOK' /\ Registers'
  BY <1>0, <1>2 DEF LaunchStudy, CanLaunch, Exps, TypeOK, Registers
<1>3. ASSUME NEW p \in Procs, LaunchFails(p)
      PROVE  TypeOK' /\ Registers'
  BY <1>0, <1>3 DEF LaunchFails, CanLaunch, TypeOK, Registers
<1>11. ASSUME NEW p \in Procs, LoadExtractor(p)
       PROVE  TypeOK' /\ Registers'
  BY <1>0, <1>11 DEF LoadExtractor, TypeOK, Registers
<1>4. ASSUME NEW p \in Procs, Mint(p)
      PROVE  TypeOK' /\ Registers'
  <2> DEFINE minted == <<exp[p], IF exp[p] = ExtractorGate THEN code[p] ELSE head, now>>
  <2>1. minted \in RunIds /\ minted[1] = exp[p]
    BY <1>0, <1>4 DEF Mint, RunIds, TypeOK, Registers
  <2>2. id' = [id EXCEPT ![p] = minted] /\ pc' = [pc EXCEPT ![p] = "minted"]
    BY <1>4 DEF Mint
  <2>3. pc[p] = "working" /\ UNCHANGED <<now, head, dirs, exp, checked, code, gate, writes, launches>>
    BY <1>4 DEF Mint
  <2> HIDE DEF minted
  <2>4. TypeOK'
    BY <1>0, <2>1, <2>2, <2>3 DEF TypeOK
  <2>5. Registers'
    BY <1>0, <2>1, <2>2, <2>3 DEF TypeOK, Registers
  <2> QED  BY <2>4, <2>5
<1>5. ASSUME NEW p \in Procs, CreateDir(p)
      PROVE  TypeOK' /\ Registers'
  <2>1. /\ dirs' \in [RunIds -> Dir] /\ pc' = [pc EXCEPT ![p] = "writing"]
        /\ pc[p] = "minted"
        /\ UNCHANGED <<now, head, exp, checked, code, gate, id, writes, launches>>
    BY <1>5, Creates DEF CreateDir
  <2>2. TypeOK'
    BY <1>0, <2>1 DEF TypeOK
  <2>3. Registers'
    BY <1>0, <2>1 DEF TypeOK, Registers
  <2> QED  BY <2>2, <2>3
<1>6. ASSUME NEW p \in Procs, Write(p)
      PROVE  TypeOK' /\ Registers'
  <2>1. /\ dirs' \in [RunIds -> Dir] /\ writes' = [writes EXCEPT ![p] = writes[p] + 1]
        /\ pc[p] = "writing"
        /\ UNCHANGED <<now, head, pc, exp, checked, code, gate, id, launches>>
    BY <1>6, WritesItsDir DEF Write
  <2>2. writes[p] + 1 \in 0..Len(WriteOrder)
    <3>1. writes[p] \in 0..9
      BY <1>6, WritesItsDir
    <3>2. Len(WriteOrder) = 10
      BY Writes
    <3> QED  BY <3>1, <3>2
  <2>3. TypeOK'
    BY <1>0, <2>1, <2>2 DEF TypeOK
  <2>4. Registers'
    BY <1>0, <2>1 DEF TypeOK, Registers
  <2> QED  BY <2>3, <2>4
<1>7. ASSUME NEW p \in Procs, DirExists(p) \/ Finish(p) \/ Kill(p)
      PROVE  TypeOK' /\ Registers'
  <2>1. End(p) /\ UNCHANGED <<now, head, dirs, launches>>
    BY <1>7 DEF DirExists, Finish, Kill
  <2>2. 0 \in 0..Len(WriteOrder)
    BY Writes
  <2>3. TypeOK'
    BY <1>0, <2>1, <2>2 DEF End, TypeOK
  <2>4. Registers'
    BY <1>0, <2>1 DEF End, TypeOK, Registers
  <2> QED  BY <2>3, <2>4
<1>8. ASSUME NEW c \in Commits, Checkout(c)
      PROVE  TypeOK' /\ Registers'
  BY <1>0, <1>8 DEF Checkout, TypeOK, Registers
<1>9. CASE Tick
  BY <1>0, <1>9 DEF Tick, TypeOK, Registers
<1>10. CASE UNCHANGED vars
  BY <1>0, <1>10 DEF vars, TypeOK, Registers
<1> QED  BY <1>1, <1>2, <1>3, <1>4, <1>5, <1>6, <1>7, <1>8, <1>9, <1>10, <1>11
        DEF Next

LEMMA DirsStep ==
  ASSUME Inductive, [Next]_vars
  PROVE  DirsAreStaged'
<1> SUFFICES ASSUME NEW r \in RunIds
             PROVE  \E n \in 0..10 : Stage(dirs'[r], n) /\ (~dirs'[r].made => n = 0)
  BY DEF DirsAreStaged
<1>1. PICK n \in 0..10 : Stage(dirs[r], n) /\ (~dirs[r].made => n = 0)
  BY DEF Inductive, DirsAreStaged
<1>2. CASE dirs'[r] = dirs[r]
  BY <1>1, <1>2
<1>3. CASE dirs'[r] # dirs[r]
  <2>1. PICK p \in Procs : r = id[p] /\ (CreateDir(p) \/ Write(p))
    BY <1>3, OtherSteps, Creates, WritesItsDir
  <2>2. CASE CreateDir(p)
    BY <2>1, <2>2, Creates
  <2>3. CASE Write(p)
    <3>1. /\ writes[p] \in 0..9 /\ dirs'[id[p]].made
          /\ Stage(dirs'[id[p]], writes[p] + 1)
      BY <2>3, WritesItsDir
    <3>2. writes[p] + 1 \in 0..10
      BY <3>1
    <3> QED  BY <2>1, <3>1, <3>2
  <2> QED  BY <2>1, <2>2, <2>3
<1> QED  BY <1>2, <1>3

LEMMA WritersStep ==
  ASSUME Inductive, [Next]_vars
  PROVE  WritersAreAlone'
<1> USE DEF WritersAreAlone
<1>1. ASSUME NEW p \in Procs, CreateDir(p)
      PROVE  WritersAreAlone'
  <2>1. /\ id' = id /\ writes' = writes /\ writes[p] = 0
        /\ \A q \in Procs : pc'[q] = IF q = p THEN "writing" ELSE pc[q]
    BY <1>1 DEF CreateDir, Inductive, Registers, TypeOK
  <2>2. \A q \in Procs : pc[q] = "writing" => id[q] \in RunIds \ {id[p]}
    BY <1>1, Creates DEF Inductive, Registers
  <2> QED  BY <1>1, <2>1, <2>2, Creates DEF Inductive
<1>2. ASSUME NEW p \in Procs, Write(p)
      PROVE  WritersAreAlone'
  <2>1. /\ id' = id /\ pc' = pc /\ pc[p] = "writing"
        /\ \A q \in Procs : writes'[q] = IF q = p THEN writes[p] + 1 ELSE writes[q]
    BY <1>2 DEF Write, Inductive, TypeOK
  <2>2. \A q \in Procs : pc[q] = "writing" /\ q # p => id[q] \in RunIds \ {id[p]}
    BY <2>1 DEF Inductive, Registers
  <2>3. /\ dirs'[id[p]].made /\ Stage(dirs'[id[p]], writes[p] + 1)
        /\ \A r \in RunIds \ {id[p]} : dirs'[r] = dirs[r]
    BY <1>2, WritesItsDir
  <2>4. ASSUME NEW q \in Procs, pc'[q] = "writing"
        PROVE  dirs'[id'[q]].made /\ Stage(dirs'[id'[q]], writes'[q])
    <3>1. CASE q = p
      BY <2>1, <2>3, <3>1
    <3>2. CASE q # p
      BY <2>1, <2>2, <2>3, <2>4, <3>2 DEF Inductive
    <3> QED  BY <3>1, <3>2
  <2> QED  BY <2>1, <2>4 DEF Inductive
<1>3. CASE ~\E p \in Procs : CreateDir(p) \/ Write(p)
  <2>1. UNCHANGED dirs
    BY <1>3, OtherSteps
  <2>2. \A p \in Procs : pc'[p] = "writing" =>
          pc[p] = "writing" /\ id'[p] = id[p] /\ writes'[p] = writes[p]
    BY <1>3 DEF Inductive, TypeOK, Next, vars, LaunchGate, LaunchStudy, LaunchFails, CanLaunch,
                LoadExtractor, Mint, DirExists, Finish, Kill, End, Checkout, Tick
  <2> QED  BY <2>1, <2>2 DEF Inductive
<1> QED  BY <1>1, <1>2, <1>3

\* A process that runs a study was running it, or has just been let through.
LEMMA OnlyALaunchStarts ==
  ASSUME Inductive, [Next]_vars, NEW p \in Procs, pc'[p] # "off", exp'[p] \in Studies,
         ~(pc[p] # "off" /\ exp'[p] = exp[p] /\ checked'[p] = checked[p])
  PROVE  \E s \in Studies : LaunchStudy(p, s)
<1> USE DEF Inductive, TypeOK
<1>1. ASSUME NEW q \in Procs, NEW g \in Gates, NEW verdict \in {"PASSED", "FAILED"},
             LaunchGate(q, g, verdict)
      PROVE  FALSE
  BY <1>1 DEF LaunchGate
<1>2. ASSUME NEW q \in Procs, NEW s \in Studies, LaunchStudy(q, s)
      PROVE  q = p
  BY <1>2 DEF LaunchStudy
<1>3. ASSUME NEW q \in Procs,
             LaunchFails(q) \/ LoadExtractor(q) \/ Mint(q) \/ CreateDir(q) \/ Write(q)
      PROVE  FALSE
  BY <1>3 DEF LaunchFails, LoadExtractor, Mint, CreateDir, Write
<1>4. ASSUME NEW q \in Procs, DirExists(q) \/ Finish(q) \/ Kill(q)
      PROVE  FALSE
  BY <1>4 DEF DirExists, Finish, Kill, End
<1>5. CASE (\E c \in Commits : Checkout(c)) \/ Tick \/ UNCHANGED vars
  BY <1>5 DEF Checkout, Tick, vars
<1> QED  BY <1>1, <1>2, <1>3, <1>4, <1>5 DEF Next

LEMMA StudiesStep ==
  ASSUME Inductive, [Next]_vars
  PROVE  StudiesUnlocked'
<1>1. ASSUME NEW p \in Procs, pc'[p] # "off", exp'[p] \in Studies
      PROVE  Unlocked(dirs', Version[checked'[p]])
  <2>1. CASE pc[p] # "off" /\ exp'[p] = exp[p] /\ checked'[p] = checked[p]
    <3>1. Unlocked(dirs, Version[checked[p]])
      BY <1>1, <2>1 DEF Inductive, StudiesUnlocked
    <3> QED  BY <2>1, <3>1, TokensStay
  <2>2. CASE ~(pc[p] # "off" /\ exp'[p] = exp[p] /\ checked'[p] = checked[p])
    <3>1. PICK s \in Studies : LaunchStudy(p, s)
      BY <1>1, <2>2, OnlyALaunchStarts
    <3>2. Unlocked(dirs, Version[head]) /\ checked'[p] = head
      BY <3>1 DEF LaunchStudy, EnforceGates, DirsOf, Unlocked, Inductive, TypeOK
    <3> QED  BY <3>2, TokensStay
  <2> QED  BY <2>1, <2>2
<1>2. ASSUME NEW s \in RunIds, s[1] \in Studies, dirs'[s].made
      PROVE  Unlocked(dirs', Version[dirs'[s].checked])
  <2>1. CASE dirs[s].made
    <3>1. dirs'[s].checked = dirs[s].checked
      BY <2>1, OtherSteps, Creates, WritesItsDir
    <3>2. Unlocked(dirs, Version[dirs[s].checked])
      BY <1>2, <2>1 DEF Inductive, StudiesUnlocked
    <3> QED  BY <3>1, <3>2, TokensStay
  <2>2. CASE ~dirs[s].made
    <3>1. PICK p \in Procs : CreateDir(p) /\ s = id[p]
      BY <1>2, <2>2, OtherSteps, Creates, WritesItsDir
    <3>2. pc[p] = "minted" /\ exp[p] = s[1] /\ dirs'[s].checked = checked[p]
      BY <3>1, Creates DEF CreateDir, Inductive, Registers
    <3>3. Unlocked(dirs, Version[checked[p]])
      BY <1>2, <3>2 DEF Inductive, StudiesUnlocked
    <3> QED  BY <3>2, <3>3, TokensStay
  <2> QED  BY <2>1, <2>2
<1> QED  BY <1>1, <1>2 DEF StudiesUnlocked

LEMMA InductiveStep == Inductive /\ [Next]_vars => Inductive'
  BY TypeStep, DirsStep, WritersStep, StudiesStep DEF Inductive

\* Every reachable state of runs/ and the processes that write it.
THEOREM Invariance == Spec => []Inductive
  BY InductiveInit, InductiveStep, PTL DEF Spec

(***************************************************************************)
(* The theorems.                                                           *)
(***************************************************************************)
\* Directories, processes and ids have their types.
THEOREM TypeCorrect == Spec => []TypeOK
<1>1. Inductive => TypeOK
  BY DEF Inductive
<1> QED  BY <1>1, Invariance, PTL

\* Wherever its writer was killed, a run that says COMPLETE has all its files.
THEOREM CompleteRunsAreWhole == Spec => []CompleteIsWhole
<1>1. ASSUME Inductive, NEW r \in RunIds, dirs[r].status = "COMPLETE"
      PROVE  dirs[r].outputs = "whole" /\ dirs[r].config = "whole" /\ dirs[r].manifest = "whole"
  <2>1. PICK n \in 0..10 : Stage(dirs[r], n)
    BY <1>1 DEF Inductive, DirsAreStaged
  <2> QED  BY <1>1, <2>1 DEF Stage
<1>2. Inductive => CompleteIsWhole
  BY <1>1 DEF CompleteIsWhole
<1> QED  BY <1>2, Invariance, PTL

\* runs/ is write-once for any number of processes that mint whatever ids.
THEOREM PublishedRunsAreFinal == Spec => PublishedIsFinal
<1> DEFINE Final == \A r \in RunIds : dirs[r].status = "COMPLETE" => dirs'[r] = dirs[r]
<1>1. Inductive /\ [Next]_vars => Final
  BY PublishedStays
<1>2. PublishedIsFinal <=> [][Final]_vars
  BY DEF PublishedIsFinal
<1> QED  BY <1>1, <1>2, Invariance, PTL DEF Spec

\* What the mapping check accepted never changes, but for its STATUS.
THEOREM MappedRunsAreFinal == Spec => MappedIsFinal
<1> DEFINE Final == \A r \in RunIds : MappingAccepts(dirs[r]) =>
                      /\ dirs[r].config = "whole"
                      /\ dirs'[r] = [dirs[r] EXCEPT !.status = dirs'[r].status]
<1>1. Inductive /\ [Next]_vars => Final
  BY MappedStays
<1>2. MappedIsFinal <=> [][Final]_vars
  BY DEF MappedIsFinal
<1> QED  BY <1>1, <1>2, Invariance, PTL DEF Spec

\* No study has a directory that the gates did not allow when it was launched:
\* the tokens that let it through are still there, whatever was checked out, killed
\* or written since.
THEOREM StudiesStayGated == Spec => []StudiesAreGated
<1>1. ASSUME Inductive, NEW s \in RunIds, s[1] \in Studies, dirs[s].made, NEW g \in Gates
      PROVE  \E r \in RunIds :
               /\ r[1] = g /\ dirs[r].status = "COMPLETE" /\ dirs[r].gate = "PASSED"
               /\ g = ExtractorGate => Version[dirs[r].code] = Version[dirs[s].checked]
  BY <1>1 DEF Inductive, StudiesUnlocked, Unlocked, IsToken
<1>2. Inductive => StudiesAreGated
  BY <1>1 DEF StudiesAreGated
<1> QED  BY <1>2, Invariance, PTL
===============================================================================
