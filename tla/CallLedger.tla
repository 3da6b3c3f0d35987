------------------------------ MODULE CallLedger ------------------------------
(***************************************************************************)
(* The append-only LLM call ledger and the client in front of it           *)
(* (src/faithfulids/llm/ledger.py, src/faithfulids/llm/client.py).         *)
(*                                                                         *)
(* The ledger is one file, ledger.jsonl, shared by every process that ever *)
(* opens it; each process keeps its own in-memory index, read from the     *)
(* file once.  A line reaches the file in one piece or, when the buffered  *)
(* text is flushed twice, in two; a process can be killed between the two. *)
(***************************************************************************)
EXTENDS Naturals, Sequences

CONSTANTS
  Procs,       \* processes that open the ledger
  Requests,    \* request hashes: (model id, snapshot, prompt, params)
  Pinned,      \* the requests whose model carries a pinned snapshot
  Texts,       \* response texts the provider may return
  None         \* no record, no call

ASSUME LedgerAssumption ==
  /\ None \notin Texts \cup Requests
  /\ Pinned \subseteq Requests

VARIABLES
  exclusive,   \* does one process at a time hold the ledger?  Never changes
  file,        \* ledger.jsonl: the pieces written to it, in order
  pc,          \* where each process is
  mode,        \* its client's mode
  loaded,      \* has CallLedger._index been read?
  index,       \* CallLedger._index (meaningful once loaded)
  req,         \* the request of the complete() call under way
  text,        \* the provider's response to it
  served       \* history: every reply complete() ever returned

vars == <<exclusive, file, pc, mode, loaded, index, req, text, served>>

Modes == {"live", "replay"}
Running == {"ready", "asking", "recording", "writing"}
Ended == {"down", "unreadable", "missed", "unpinned"}

Piece == [part: {"line", "cut", "bare", "rest"}, by: Procs,
          req: Requests, text: Texts]
Reply == [req: Requests, text: Texts, mode: Modes]

(***************************************************************************)
(* The file's lines.  A piece is a whole line, a line cut inside its JSON  *)
(* ("cut"), a line that only lacks its newline ("bare"), or what completes *)
(* one of those two ("rest").                                              *)
(***************************************************************************)
RestOf(a, b) ==
  /\ b.part = "rest"
  /\ <<a.by, a.req, a.text>> = <<b.by, b.req, b.text>>

\* A record json.loads can read starts at piece i of f.
RecordAt(f, i) ==
  /\ i > 1 => f[i - 1].part \in {"line", "rest"}
  /\ \/ f[i].part = "line"
     \/ f[i].part \in {"cut", "bare"} /\ i < Len(f) /\ RestOf(f[i], f[i + 1])
     \/ f[i].part = "bare" /\ i = Len(f)

\* _load_index reads f to its end: every line in it parses.
Readable(f) ==
  \A i \in DOMAIN f : f[i].part = "rest" \/ RecordAt(f, i)

Positions(f, r) == {i \in DOMAIN f : RecordAt(f, i) /\ f[i].req = r}

\* Bug: the last occurrence wins.
LastOccurrence(f, r) ==
  IF Positions(f, r) = {} THEN None
  ELSE f[CHOOSE i \in Positions(f, r) :
           \A j \in Positions(f, r) : j <= i].text

\* index.setdefault: the first occurrence of a request hash wins.
First(f, r) ==
  IF Positions(f, r) = {} THEN None
  ELSE f[CHOOSE i \in Positions(f, r) :
           \A j \in Positions(f, r) : i <= j].text

\* Bug: the file's last line is not read.
ParsedButLast(f) ==
  [r \in Requests |-> First(SubSeq(f, 1, Len(f) - 1), r)]

ParsedIndex(f) == [r \in Requests |-> First(f, r)]

NoIndex == [r \in Requests |-> None]

(***************************************************************************)
(* The state machine.                                                      *)
(***************************************************************************)
Init ==
  /\ exclusive \in BOOLEAN
  /\ file = <<>>
  /\ pc = [p \in Procs |-> "down"]
  /\ mode = [p \in Procs |-> "live"]
  /\ loaded = [p \in Procs |-> FALSE]
  /\ index = [p \in Procs |-> NoIndex]
  /\ req = [p \in Procs |-> None]
  /\ text = [p \in Procs |-> None]
  /\ served = {}

\* The process is over, and its memory with it.
End(p, how) ==
  /\ pc' = [pc EXCEPT ![p] = how]
  /\ loaded' = [loaded EXCEPT ![p] = FALSE]
  /\ index' = [index EXCEPT ![p] = NoIndex]
  /\ req' = [req EXCEPT ![p] = None]
  /\ text' = [text EXCEPT ![p] = None]

\* A process opens the ledger: CallLedger.__init__ reads nothing yet.
Boot(p, m) ==
  /\ pc[p] \in Ended
  /\ exclusive => \A q \in Procs : pc[q] \in Ended
  /\ pc' = [pc EXCEPT ![p] = "ready"]
  /\ mode' = [mode EXCEPT ![p] = m]
  /\ UNCHANGED <<exclusive, file, loaded, index, req, text, served>>

\* Bug: the file is never read.
MemoryIndex(p) == index[p]

\* The index complete() looks a request up in: the one in memory, or the file.
IndexOf(p) == IF loaded[p] THEN index[p] ELSE ParsedIndex(file)

\* complete() on a model without a pinned snapshot: UnpinnedModelError.
CompleteUnpinned(p, r) ==
  /\ pc[p] = "ready"
  /\ r \notin Pinned
  /\ End(p, "unpinned")
  /\ UNCHANGED <<exclusive, file, mode, served>>

\* The first lookup of a process meets a line json.loads rejects.
CompleteUnreadable(p, r) ==
  /\ pc[p] = "ready"
  /\ r \in Pinned
  /\ ~loaded[p] /\ ~Readable(file)
  /\ End(p, "unreadable")
  /\ UNCHANGED <<exclusive, file, mode, served>>

CanLookup(p, r) ==
  /\ pc[p] = "ready"
  /\ r \in Pinned
  /\ loaded[p] \/ Readable(file)

Load(p) ==
  /\ loaded' = [loaded EXCEPT ![p] = TRUE]
  /\ index' = [index EXCEPT ![p] = IndexOf(p)]

\* A recorded call is served from the ledger, in either mode.
CompleteHit(p, r) ==
  /\ CanLookup(p, r)
  /\ IndexOf(p)[r] # None
  /\ Load(p)
  /\ served' = served \cup
       {[req |-> r, text |-> IndexOf(p)[r], mode |-> mode[p]]}
  /\ UNCHANGED <<exclusive, file, pc, mode, req, text>>

\* Cache-only replay: a miss is a hard error (ReplayMiss).
CompleteReplayMiss(p, r) ==
  /\ CanLookup(p, r)
  /\ IndexOf(p)[r] = None
  /\ mode[p] = "replay"
  /\ End(p, "missed")
  /\ UNCHANGED <<exclusive, file, mode, served>>

\* A live miss goes to the provider.
CompleteLiveMiss(p, r) ==
  /\ CanLookup(p, r)
  /\ IndexOf(p)[r] = None
  /\ mode[p] = "live"
  /\ Load(p)
  /\ pc' = [pc EXCEPT ![p] = "asking"]
  /\ req' = [req EXCEPT ![p] = r]
  /\ UNCHANGED <<exclusive, file, mode, text, served>>

ProviderReplies(p, t) ==
  /\ pc[p] = "asking"
  /\ text' = [text EXCEPT ![p] = t]
  /\ pc' = [pc EXCEPT ![p] = "recording"]
  /\ UNCHANGED <<exclusive, file, mode, loaded, index, req, served>>

PieceOf(p, part) ==
  [part |-> part, by |-> p, req |-> req[p], text |-> text[p]]

\* append() closes the file, indexes the record and complete() returns it.
Recorded(p) ==
  /\ index' = [index EXCEPT ![p][req[p]] = IF @ = None THEN text[p] ELSE @]
  /\ served' = served \cup
       {[req |-> req[p], text |-> text[p], mode |-> mode[p]]}
  /\ pc' = [pc EXCEPT ![p] = "ready"]
  /\ req' = [req EXCEPT ![p] = None]
  /\ text' = [text EXCEPT ![p] = None]
  /\ UNCHANGED <<exclusive, mode, loaded>>

\* Bug: the record is indexed and never written.
AppendToIndexOnly(p) ==
  /\ pc[p] = "recording"
  /\ Recorded(p)
  /\ UNCHANGED file

AppendLine(p) ==
  /\ pc[p] = "recording"
  /\ file' = Append(file, PieceOf(p, "line"))
  /\ Recorded(p)

\* The buffer is flushed once before the line is complete.
AppendPart(p, part) ==
  /\ pc[p] = "recording"
  /\ file' = Append(file, PieceOf(p, part))
  /\ pc' = [pc EXCEPT ![p] = "writing"]
  /\ UNCHANGED <<exclusive, mode, loaded, index, req, text, served>>

AppendRest(p) ==
  /\ pc[p] = "writing"
  /\ file' = Append(file, PieceOf(p, "rest"))
  /\ Recorded(p)

\* The process exits, is killed, or dies of a provider or disk error.
Stop(p) ==
  /\ pc[p] \in Running
  /\ End(p, "down")
  /\ UNCHANGED <<exclusive, file, mode, served>>

Step(p) ==
  \/ \E m \in Modes : Boot(p, m)
  \/ \E r \in Requests :
       \/ CompleteUnpinned(p, r)
       \/ CompleteUnreadable(p, r)
       \/ CompleteHit(p, r)
       \/ CompleteReplayMiss(p, r)
       \/ CompleteLiveMiss(p, r)
  \/ \E t \in Texts : ProviderReplies(p, t)
  \/ AppendLine(p)
  \/ \E part \in {"cut", "bare"} : AppendPart(p, part)
  \/ AppendRest(p)
  \/ Stop(p)

Next == \E p \in Procs : Step(p)

Spec == Init /\ [][Next]_vars

(***************************************************************************)
(* Properties.                                                             *)
(***************************************************************************)
TypeOK ==
  /\ exclusive \in BOOLEAN
  /\ file \in Seq(Piece)
  /\ pc \in [Procs -> Running \cup Ended]
  /\ mode \in [Procs -> Modes]
  /\ loaded \in [Procs -> BOOLEAN]
  /\ index \in [Procs -> [Requests -> Texts \cup {None}]]
  /\ req \in [Procs -> Requests \cup {None}]
  /\ text \in [Procs -> Texts \cup {None}]
  /\ served \subseteq Reply

\* One answer per request: when one process at a time holds the ledger, and
\* whatever was recorded, cached, replayed, killed or restarted in between, two
\* replies to one request carry the same text (ledger.py, the first occurrence
\* wins; client.py, a hit is never re-asked).
OneAnswer ==
  exclusive => \A s, u \in served : s.req = u.req => s.text = u.text

\* Every reply a caller has seen is the record a later replay will find: its
\* line is in the file, whole, before complete() returns, and as long as the
\* file can be read at all no kill or restart takes it out again.
ServedIsRecorded ==
  exclusive /\ Readable(file) => \A s \in served : First(file, s.req) = s.text

\* Replays agree with each other even when several processes write the file at
\* once and keep stale indexes: what a replay returned stays what replays return.
ReplaysAgree ==
  \A s, u \in served :
    s.req = u.req /\ s.mode = "replay" /\ u.mode = "replay"
      => s.text = u.text

\* What was written for r, wherever a later write may have damaged it: the
\* first piece that completes a record of r.
WrittenAt(f, r) ==
  {i \in DOMAIN f :
     /\ f[i].req = r
     /\ f[i].part = "cut" => i < Len(f) /\ RestOf(f[i], f[i + 1])}

Written(f, r) ==
  IF WrittenAt(f, r) = {} THEN None
  ELSE f[CHOOSE i \in WrittenAt(f, r) :
           \A j \in WrittenAt(f, r) : i <= j].text

\* The ledger implements the replay store: what it wrote is the answer, and
\* what it hands out is that answer; with several processes at once that is
\* true of replays only.  (That the file can still be read is not part of this
\* promise.)
Store == INSTANCE ReplayStore WITH
  NoText <- None, answer <- [r \in Requests |-> Written(file, r)],
  served <- {s \in served : exclusive \/ s.mode = "replay"}
ImplementsStore == Store!Spec
==============================================================================
