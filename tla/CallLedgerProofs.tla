--------------------------- MODULE CallLedgerProofs ----------------------------
(***************************************************************************)
(* What the call ledger guarantees for any number of processes, requests   *)
(* and answers, wherever processes are killed and records are torn; and    *)
(* that one that is held exclusively implements the replay store.          *)
(***************************************************************************)
EXTENDS CallLedger, SequenceTheorems, WellFoundedInduction, TLAPS

USE LedgerAssumption

Files == Seq(Piece)

IsPrefix(e, f) ==
  /\ Len(e) <= Len(f)
  /\ \A i \in 1..Len(e) : e[i] = f[i]

\* A line before the last is torn: no later write mends it.
Damaged(f) ==
  \E i \in 1..(Len(f) - 1) : f[i].part # "rest" /\ ~RecordAt(f, i)

(***************************************************************************)
(* Files and their first records.                                          *)
(***************************************************************************)
LEMMA LeastOf ==
  ASSUME NEW T \in SUBSET Nat, T # {}
  PROVE  \E x \in T : \A y \in T : x <= y
<1> DEFINE R == {ss \in Nat \X Nat : ss[1] < ss[2]}
<1>1. IsWellFoundedOn(R, Nat)
  BY NatLessThanWellFounded DEF OpToRel
<1> HIDE DEF R
<1>2. PICK x \in T : \A y \in T : ~(<<y, x>> \in R)
  BY <1>1, WFMin
<1>3. ASSUME NEW y \in T
      PROVE  x <= y
  <2>1. y \in Nat /\ x \in Nat /\ <<y, x>> \notin R
    BY <1>2
  <2> QED  BY <2>1 DEF R
<1> QED  BY <1>3

LEMMA Pieces ==
  ASSUME NEW f \in Files, NEW i \in 1..Len(f)
  PROVE  /\ f[i].part \in {"line", "cut", "bare", "rest"}
         /\ f[i].req \in Requests /\ f[i].text \in Texts
<1>1. f[i] \in Piece
  BY DEF Files
<1> QED  BY <1>1 DEF Piece

LEMMA FirstIsTheLeast ==
  ASSUME NEW f \in Files, NEW r, NEW i \in Positions(f, r), \A j \in Positions(f, r) : i <= j
  PROVE  First(f, r) = f[i].text
<1> DEFINE least(k) == k \in Positions(f, r) /\ \A j \in Positions(f, r) : k <= j
<1>1. Positions(f, r) \subseteq Nat
  BY DEF Positions, Files
<1>2. \A k \in Positions(f, r) : (\A j \in Positions(f, r) : k <= j) => k = i
  BY <1>1
<1>3. (CHOOSE k \in Positions(f, r) : \A j \in Positions(f, r) : k <= j) = i
  BY <1>2
<1> QED  BY <1>3 DEF First

LEMMA AFirstRecord ==
  ASSUME NEW f \in Files, NEW r
  PROVE  /\ Positions(f, r) = {} <=> First(f, r) = None
         /\ First(f, r) \in Texts \cup {None}
         /\ Positions(f, r) # {} =>
              \E i \in Positions(f, r) : /\ \A j \in Positions(f, r) : i <= j
                                         /\ First(f, r) = f[i].text
<1>1. Positions(f, r) \subseteq 1..Len(f) /\ Len(f) \in Nat
  BY DEF Positions, Files
<1>2. CASE Positions(f, r) = {}
  BY <1>2 DEF First
<1>3. CASE Positions(f, r) # {}
  <2>1. PICK i \in Positions(f, r) : \A j \in Positions(f, r) : i <= j
    BY <1>1, <1>3, LeastOf
  <2>2. First(f, r) = f[i].text /\ i \in 1..Len(f)
    BY <1>1, <2>1, FirstIsTheLeast
  <2>3. f[i].text \in Texts
    BY <2>2, Pieces
  <2> QED  BY <1>3, <2>1, <2>2, <2>3
<1> QED  BY <1>2, <1>3

LEMMA AnIndex ==
  ASSUME NEW f \in Files
  PROVE  /\ ParsedIndex(f) \in [Requests -> Texts \cup {None}]
         /\ \A r \in Requests : ParsedIndex(f)[r] = First(f, r)
  BY AFirstRecord DEF ParsedIndex

(***************************************************************************)
(* A file and what was written to it later.                                *)
(***************************************************************************)
LEMMA PrefixItself ==
  ASSUME NEW f \in Files
  PROVE  IsPrefix(f, f)
  BY DEF IsPrefix, Files

LEMMA PrefixChain ==
  ASSUME NEW d \in Files, NEW e \in Files, NEW f \in Files, IsPrefix(d, e), IsPrefix(e, f)
  PROVE  IsPrefix(d, f)
  BY DEF IsPrefix, Files

LEMMA PrefixAppend ==
  ASSUME NEW f \in Files, NEW x \in Piece
  PROVE  /\ Append(f, x) \in Files /\ IsPrefix(f, Append(f, x))
         /\ Len(Append(f, x)) = Len(f) + 1 /\ Append(f, x)[Len(f) + 1] = x
         /\ Len(f) \in Nat /\ x.req \in Requests
<1>1. x.req \in Requests
  BY DEF Piece
<1> QED  BY <1>1, AppendProperties DEF IsPrefix, Files

LEMMA PrefixesNest ==
  ASSUME NEW d \in Files, NEW e \in Files, NEW f \in Files, IsPrefix(d, f), IsPrefix(e, f)
  PROVE  IsPrefix(d, e) \/ IsPrefix(e, d)
  BY DEF IsPrefix, Files

\* Damage is for ever, and keeps the file from being read.
LEMMA DamageStays ==
  ASSUME NEW e \in Files, NEW f \in Files, IsPrefix(e, f), Damaged(e)
  PROVE  Damaged(f)
<1>1. PICK i \in 1..(Len(e) - 1) : e[i].part # "rest" /\ ~RecordAt(e, i)
  BY DEF Damaged
<1>2. /\ i \in 1..(Len(f) - 1) /\ i < Len(e) /\ i < Len(f) /\ f[i] = e[i] /\ f[i + 1] = e[i + 1]
      /\ i > 1 => f[i - 1] = e[i - 1]
      /\ i # Len(e) /\ i # Len(f)
  BY <1>1 DEF IsPrefix, Files
<1>3. ~RecordAt(f, i)
  BY <1>1, <1>2 DEF RecordAt
<1> QED  BY <1>1, <1>2, <1>3 DEF Damaged

LEMMA DamageIsUnreadable ==
  ASSUME NEW f \in Files, Damaged(f)
  PROVE  ~Readable(f)
  BY DEF Damaged, Readable, Files

\* What a readable file records, every readable file it grows into records.
LEMMA RecordsStay ==
  ASSUME NEW e \in Files, NEW f \in Files, IsPrefix(e, f), Readable(e), Readable(f),
         NEW i \in 1..Len(e)
  PROVE  RecordAt(e, i) <=> RecordAt(f, i)
<1>1. i \in 1..Len(f) /\ e[i] = f[i]
  BY DEF IsPrefix, Files
<1>2. e[i].part = "rest" => ~RecordAt(e, i) /\ ~RecordAt(f, i)
  BY <1>1 DEF RecordAt
<1>3. e[i].part # "rest" => RecordAt(e, i) /\ RecordAt(f, i)
  BY <1>1 DEF Readable, Files
<1> QED  BY <1>2, <1>3

\* The first record of a request is its first record for ever.
LEMMA FirstStays ==
  ASSUME NEW e \in Files, NEW f \in Files, IsPrefix(e, f), Readable(e), Readable(f),
         NEW r, First(e, r) # None
  PROVE  First(f, r) = First(e, r)
<1>1. PICK i \in Positions(e, r) : /\ \A j \in Positions(e, r) : i <= j
                                   /\ First(e, r) = e[i].text
  BY AFirstRecord
<1>2. i \in 1..Len(e) /\ Len(e) \in Nat /\ RecordAt(e, i) /\ e[i].req = r
  BY DEF Positions, Files
<1>3. i \in Positions(f, r) /\ f[i] = e[i]
  BY <1>2, RecordsStay DEF Positions, IsPrefix, Files
<1>4. ASSUME NEW j \in Positions(f, r)
      PROVE  i <= j
  <2>1. j \in 1..Len(f) /\ RecordAt(f, j) /\ f[j].req = r /\ Len(f) \in Nat
    BY DEF Positions, Files
  <2>2. CASE j <= Len(e)
    <3>1. j \in 1..Len(e) /\ e[j] = f[j]
      BY <1>2, <2>1, <2>2 DEF IsPrefix
    <3>2. j \in Positions(e, r)
      BY <2>1, <3>1, RecordsStay DEF Positions, Files
    <3> QED  BY <1>1, <3>2
  <2>3. CASE ~(j <= Len(e))
    BY <1>2, <2>1, <2>3
  <2> QED  BY <2>2, <2>3
<1>5. First(f, r) = f[i].text
  BY <1>3, <1>4, FirstIsTheLeast
<1> QED  BY <1>1, <1>3, <1>5

(***************************************************************************)
(* Appending a record.                                                     *)
(***************************************************************************)
\* A file that grew by one record of a request it had no record of.
LEMMA GrownByARecord ==
  ASSUME NEW e \in Files, NEW g \in Files, IsPrefix(e, g), Readable(e), Readable(g),
         NEW r \in Requests, First(e, r) = None,
         NEW k, k = Len(e) + 1, k \in 1..Len(g), g[k].req = r,
         \A i \in (Len(e) + 1)..Len(g) : RecordAt(g, i) <=> i = k
  PROVE  ParsedIndex(g) = [ParsedIndex(e) EXCEPT ![r] = g[k].text]
<1>1. Len(e) \in Nat /\ Len(g) \in Nat /\ Len(e) <= Len(g)
  BY DEF Files, IsPrefix
<1>2. First(g, r) = g[k].text
  <2>1. k \in Positions(g, r)
    BY <1>1 DEF Positions, Files
  <2>2. ASSUME NEW j \in Positions(g, r), ~(k <= j)
        PROVE  FALSE
    <3>1. j \in 1..Len(e) /\ RecordAt(g, j) /\ g[j].req = r
      BY <1>1, <2>2 DEF Positions, Files
    <3>2. j \in Positions(e, r)
      BY <1>1, <3>1, RecordsStay DEF Positions, IsPrefix, Files
    <3> QED  BY <3>2, AFirstRecord
  <2> QED  BY <2>1, <2>2, FirstIsTheLeast
<1>3. ASSUME NEW q \in Requests, q # r
      PROVE  First(g, q) = First(e, q)
  <2>1. CASE First(e, q) # None
    BY <2>1, FirstStays
  <2>2. CASE First(e, q) = None
    <3>1. ASSUME NEW j \in Positions(g, q)
          PROVE  FALSE
      <4>1. j \in 1..Len(g) /\ RecordAt(g, j) /\ g[j].req = q
        BY DEF Positions, Files
      <4>2. j \in 1..Len(e)
        BY <1>1, <1>3, <4>1
      <4>3. j \in Positions(e, q)
        BY <4>1, <4>2, RecordsStay DEF Positions, IsPrefix, Files
      <4> QED  BY <2>2, <4>3, AFirstRecord
    <3> QED  BY <2>2, <3>1, AFirstRecord
  <2> QED  BY <2>1, <2>2
<1>4. \A q \in Requests : First(g, q) = IF q = r THEN g[k].text ELSE First(e, q)
  BY <1>2, <1>3
<1> QED  BY <1>4 DEF ParsedIndex

\* A line written at once.
LEMMA ALineIsRecorded ==
  ASSUME NEW f \in Files, NEW x \in Piece, x.part = "line", Readable(f),
         First(f, x.req) = None, ~Damaged(Append(f, x))
  PROVE  /\ Readable(Append(f, x))
         /\ ParsedIndex(Append(f, x)) = [ParsedIndex(f) EXCEPT ![x.req] = x.text]
<1> DEFINE g == Append(f, x)
           k == Len(f) + 1
<1>1. g \in Files /\ IsPrefix(f, g) /\ Len(g) = k /\ g[k] = x /\ Len(f) \in Nat
      /\ x.req \in Requests
  BY PrefixAppend
<1> HIDE DEF g
<1>2. \A i \in 1..Len(f) : g[i].part # "rest" => RecordAt(g, i)
  BY <1>1 DEF Damaged, g
<1>3. k > 1 => g[k - 1].part \in {"line", "rest"}
  <2> SUFFICES ASSUME k > 1, g[k - 1].part \notin {"line", "rest"}
               PROVE  FALSE
    OBVIOUS
  <2>1. k - 1 \in 1..Len(f) /\ (k - 1) + 1 = k /\ k - 1 # Len(g)
    BY <1>1
  <2>2. RecordAt(g, k - 1)
    BY <1>2, <2>1
  <2>3. RestOf(g[k - 1], g[k])
    BY <2>1, <2>2 DEF RecordAt
  <2> QED  BY <1>1, <2>3 DEF RestOf
<1>4. RecordAt(g, k)
  BY <1>1, <1>3 DEF RecordAt
<1>5. Readable(g)
  BY <1>1, <1>2, <1>4 DEF Readable, Files
<1>6. \A i \in (Len(f) + 1)..Len(g) : RecordAt(g, i) <=> i = k
  BY <1>1, <1>4
<1>7. k \in 1..Len(g) /\ g[k].req = x.req /\ g[k].text = x.text
  BY <1>1
<1> HIDE DEF k
<1>8. ParsedIndex(g) = [ParsedIndex(f) EXCEPT ![x.req] = g[k].text]
  BY <1>1, <1>5, <1>6, <1>7, GrownByARecord DEF k
<1>9. ParsedIndex(g) = [ParsedIndex(f) EXCEPT ![x.req] = x.text]
  BY <1>7, <1>8
<1> QED  BY <1>5, <1>9 DEF g

\* A line written in two parts.
LEMMA TwoPartsAreRecorded ==
  ASSUME NEW e \in Files, NEW a \in Piece, NEW b \in Piece, a.part \in {"cut", "bare"},
         RestOf(a, b), Readable(e), First(e, a.req) = None,
         ~Damaged(Append(Append(e, a), b))
  PROVE  /\ Readable(Append(Append(e, a), b))
         /\ ParsedIndex(Append(Append(e, a), b)) = [ParsedIndex(e) EXCEPT ![a.req] = a.text]
<1> DEFINE f == Append(e, a)
           g == Append(f, b)
           k == Len(e) + 1
<1>1. /\ f \in Files /\ IsPrefix(e, f) /\ Len(f) = k /\ f[k] = a /\ Len(e) \in Nat
      /\ a.req \in Requests
  BY PrefixAppend
<1> HIDE DEF f
<1>2. /\ g \in Files /\ IsPrefix(f, g) /\ Len(g) = k + 1 /\ g[k + 1] = b /\ g[k] = a
  <2>1. g \in Files /\ IsPrefix(f, g) /\ Len(g) = Len(f) + 1 /\ g[Len(f) + 1] = b
    BY <1>1, PrefixAppend
  <2>2. g[k] = f[k]
    BY <1>1, <2>1 DEF IsPrefix
  <2> QED  BY <1>1, <2>1, <2>2
<1>3. IsPrefix(e, g)
  BY <1>1, <1>2, PrefixChain
<1> HIDE DEF g
<1>4. b.part = "rest"
  BY DEF RestOf
<1>5. \A i \in 1..k : g[i].part # "rest" => RecordAt(g, i)
  BY <1>1, <1>2 DEF Damaged, f, g
<1>6. Readable(g) /\ RecordAt(g, k) /\ ~RecordAt(g, k + 1)
  <2>1. \A i \in 1..(k + 1) : i \in 1..k \/ i = k + 1
    BY <1>1
  <2>2. Readable(g)
    BY <1>2, <1>4, <1>5, <2>1 DEF Readable, Files
  <2>3. k \in 1..k /\ g[k].part # "rest"
    BY <1>1, <1>2
  <2>4. ~RecordAt(g, k + 1)
    BY <1>2, <1>4 DEF RecordAt
  <2> QED  BY <1>5, <2>2, <2>3, <2>4
<1>7. \A i \in (Len(e) + 1)..Len(g) : RecordAt(g, i) <=> i = k
  BY <1>1, <1>2, <1>6
<1>8. k \in 1..Len(g) /\ g[k].req = a.req /\ g[k].text = a.text
  BY <1>1, <1>2
<1> HIDE DEF k
<1>9. ParsedIndex(g) = [ParsedIndex(e) EXCEPT ![a.req] = g[k].text]
  BY <1>1, <1>2, <1>3, <1>6, <1>7, <1>8, GrownByARecord DEF k
<1>10. ParsedIndex(g) = [ParsedIndex(e) EXCEPT ![a.req] = a.text]
  BY <1>8, <1>9
<1> QED  BY <1>6, <1>10 DEF f, g

(***************************************************************************)
(* The inductive invariant.                                                *)
(***************************************************************************)
\* What a process remembers fits where it is.
Registers ==
  \A p \in Procs :
    /\ pc[p] \in {"asking", "recording", "writing"} =>
         /\ loaded[p] /\ mode[p] = "live"
         /\ req[p] \in Requests /\ index[p][req[p]] = None
    /\ pc[p] \in {"recording", "writing"} => text[p] \in Texts
    /\ loaded[p] => pc[p] \in Running

\* The file said so at a time when it could be read.
Said(r, t) == \E e \in Files : IsPrefix(e, file) /\ Readable(e) /\ First(e, r) = t

\* A replaying process never records, so its index is what it once read.
ReplayIndexes ==
  \A p \in Procs : loaded[p] /\ mode[p] = "replay" =>
    \E e \in Files : IsPrefix(e, file) /\ Readable(e) /\ index[p] = ParsedIndex(e)

ReplaysSaid == \A s \in served : s.mode = "replay" => Said(s.req, s.text)

OneAtATime ==
  exclusive => \A p, q \in Procs : pc[p] \in Running /\ pc[q] \in Running => p = q

\* The one process' index is the file, but for the record it is writing.
IndexIsFile(p) ==
  \/ Damaged(file)
  \/ pc[p] # "writing" /\ Readable(file) /\ index[p] = ParsedIndex(file)
  \/ /\ pc[p] = "writing"
     /\ \E e \in Files, part \in {"cut", "bare"} :
          /\ Readable(e) /\ index[p] = ParsedIndex(e)
          /\ file = Append(e, PieceOf(p, part))

IndexesAreTheFile == exclusive => \A p \in Procs : loaded[p] => IndexIsFile(p)

\* Whoever is running knows every reply that was handed out.
RepliesAreKnown ==
  exclusive => \A s \in served :
    /\ \A p \in Procs : loaded[p] => index[p][s.req] = s.text
    /\ Damaged(file) \/ Said(s.req, s.text)

Inductive ==
  /\ TypeOK /\ Registers /\ ReplayIndexes /\ ReplaysSaid
  /\ OneAtATime /\ IndexesAreTheFile /\ RepliesAreKnown /\ OneAnswer

(***************************************************************************)
(* The initial state, and every step's types.                              *)
(***************************************************************************)
LEMMA InductiveInit == Init => Inductive
<1> SUFFICES ASSUME Init
             PROVE  Inductive
  OBVIOUS
<1> USE DEF Init, Running, Ended, Modes
<1>1. TypeOK
  BY DEF TypeOK, NoIndex
<1>2. Registers /\ ReplayIndexes /\ ReplaysSaid
  BY DEF Registers, ReplayIndexes, ReplaysSaid
<1>3. OneAtATime /\ IndexesAreTheFile /\ RepliesAreKnown /\ OneAnswer
  BY DEF OneAtATime, IndexesAreTheFile, RepliesAreKnown, OneAnswer
<1> QED  BY <1>1, <1>2, <1>3 DEF Inductive

\* The file only grows, and only under its writers' hands.
LEMMA FileGrows ==
  ASSUME Inductive, [Next]_vars
  PROVE  /\ file \in Files /\ file' \in Files /\ IsPrefix(file, file')
         /\ exclusive' = exclusive
<1>0. file \in Files
  BY DEF Inductive, TypeOK, Files
<1>1. ASSUME NEW p \in Procs, NEW part \in {"line", "cut", "bare", "rest"},
             pc[p] \in {"recording", "writing"}
      PROVE  PieceOf(p, part) \in Piece
  BY <1>1 DEF Inductive, Registers, PieceOf, Piece
<1>2. ASSUME NEW p \in Procs, AppendLine(p)
      PROVE  file' \in Files /\ IsPrefix(file, file') /\ exclusive' = exclusive
  <2>1. file' = Append(file, PieceOf(p, "line")) /\ PieceOf(p, "line") \in Piece
    BY <1>1, <1>2 DEF AppendLine
  <2> QED  BY <1>0, <1>2, <2>1, PrefixAppend DEF AppendLine, Recorded
<1>3. ASSUME NEW p \in Procs, NEW part \in {"cut", "bare"}, AppendPart(p, part)
      PROVE  file' \in Files /\ IsPrefix(file, file') /\ exclusive' = exclusive
  <2>1. file' = Append(file, PieceOf(p, part)) /\ PieceOf(p, part) \in Piece
    BY <1>1, <1>3 DEF AppendPart
  <2> QED  BY <1>0, <1>3, <2>1, PrefixAppend DEF AppendPart
<1>4. ASSUME NEW p \in Procs, AppendRest(p)
      PROVE  file' \in Files /\ IsPrefix(file, file') /\ exclusive' = exclusive
  <2>1. file' = Append(file, PieceOf(p, "rest")) /\ PieceOf(p, "rest") \in Piece
    BY <1>1, <1>4 DEF AppendRest
  <2> QED  BY <1>0, <1>4, <2>1, PrefixAppend DEF AppendRest, Recorded
<1>5. CASE ~\E p \in Procs : \/ AppendLine(p) \/ AppendRest(p)
                             \/ \E part \in {"cut", "bare"} : AppendPart(p, part)
  <2>1. UNCHANGED <<file, exclusive>>
    BY <1>5 DEF Next, Step, vars, Boot, CompleteUnpinned, CompleteUnreadable, CompleteHit,
                CompleteReplayMiss, CompleteLiveMiss, ProviderReplies, Stop
  <2> QED  BY <1>0, <2>1, PrefixItself
<1> QED  BY <1>0, <1>2, <1>3, <1>4, <1>5

LEMMA IndexesAreFunctions ==
  ASSUME Inductive, NEW p \in Procs
  PROVE  IndexOf(p) \in [Requests -> Texts \cup {None}]
<1>1. file \in Files
  BY DEF Inductive, TypeOK, Files
<1> QED  BY <1>1, AnIndex DEF IndexOf, Inductive, TypeOK

\* Types and registers, of every process one step later.
LEMMA TypeStep ==
  ASSUME Inductive, [Next]_vars
  PROVE  TypeOK' /\ Registers'
<1> USE DEF Running, Ended, Modes
<1>0. file' \in Seq(Piece)
  BY FileGrows DEF Files
<1>1. ASSUME NEW p \in Procs, NEW m \in Modes, Boot(p, m)
      PROVE  TypeOK' /\ Registers'
  <2>1. TypeOK'
    BY <1>0, <1>1 DEF Inductive, TypeOK, Boot
  <2>2. Registers'
    BY <1>1 DEF Inductive, TypeOK, Registers, Boot
  <2> QED  BY <2>1, <2>2
<1>2. ASSUME NEW p \in Procs, NEW how \in Ended, End(p, how),
             UNCHANGED <<exclusive, file, mode, served>>
      PROVE  TypeOK' /\ Registers'
  <2>1. TypeOK'
    BY <1>0, <1>2 DEF Inductive, TypeOK, End, NoIndex
  <2>2. Registers'
    BY <1>2 DEF Inductive, TypeOK, Registers, End
  <2> QED  BY <2>1, <2>2
<1>3. ASSUME NEW p \in Procs, NEW r \in Requests, CompleteHit(p, r)
      PROVE  TypeOK' /\ Registers'
  <2>1. IndexOf(p)[r] \in Texts
    BY <1>3, IndexesAreFunctions DEF CompleteHit
  <2>2. [req |-> r, text |-> IndexOf(p)[r], mode |-> mode[p]] \in Reply
    BY <2>1 DEF Inductive, TypeOK, Reply
  <2>3. TypeOK'
    BY <1>0, <1>3, <2>2, IndexesAreFunctions DEF Inductive, TypeOK, CompleteHit, Load
  <2>4. Registers'
    BY <1>3 DEF Inductive, TypeOK, Registers, CompleteHit, Load, CanLookup, IndexOf
  <2> QED  BY <2>3, <2>4
<1>4. ASSUME NEW p \in Procs, NEW r \in Requests, CompleteLiveMiss(p, r)
      PROVE  TypeOK' /\ Registers'
  <2>1. TypeOK'
    BY <1>0, <1>4, IndexesAreFunctions DEF Inductive, TypeOK, CompleteLiveMiss, Load
  <2>2. Registers'
    BY <1>4 DEF Inductive, TypeOK, Registers, CompleteLiveMiss, Load, CanLookup
  <2> QED  BY <2>1, <2>2
<1>5. ASSUME NEW p \in Procs, NEW t \in Texts, ProviderReplies(p, t)
      PROVE  TypeOK' /\ Registers'
  <2>1. TypeOK'
    BY <1>0, <1>5 DEF Inductive, TypeOK, ProviderReplies
  <2>2. Registers'
    BY <1>5 DEF Inductive, TypeOK, Registers, ProviderReplies
  <2> QED  BY <2>1, <2>2
<1>6. ASSUME NEW p \in Procs, NEW part \in {"cut", "bare"}, AppendPart(p, part)
      PROVE  TypeOK' /\ Registers'
  <2>1. TypeOK'
    BY <1>0, <1>6 DEF Inductive, TypeOK, AppendPart
  <2>2. Registers'
    BY <1>6 DEF Inductive, TypeOK, Registers, AppendPart
  <2> QED  BY <2>1, <2>2
<1>7. ASSUME NEW p \in Procs, pc[p] \in {"recording", "writing"}, Recorded(p)
      PROVE  TypeOK' /\ Registers'
  <2>1. req[p] \in Requests /\ text[p] \in Texts /\ mode[p] = "live" /\ index[p][req[p]] = None
    BY <1>7 DEF Inductive, Registers
  <2>2. [req |-> req[p], text |-> text[p], mode |-> mode[p]] \in Reply
    BY <2>1 DEF Reply
  <2>3. index' \in [Procs -> [Requests -> Texts \cup {None}]]
    BY <1>7, <2>1 DEF Inductive, TypeOK, Recorded
  <2>4. TypeOK'
    BY <1>0, <1>7, <2>2, <2>3 DEF Inductive, TypeOK, Recorded
  <2>5. /\ \A q \in Procs \ {p} : index'[q] = index[q]
        /\ pc' = [pc EXCEPT ![p] = "ready"] /\ req' = [req EXCEPT ![p] = None]
        /\ text' = [text EXCEPT ![p] = None] /\ UNCHANGED <<mode, loaded>>
    BY <1>7 DEF Inductive, TypeOK, Recorded
  <2>6. Registers'
    BY <2>5 DEF Inductive, TypeOK, Registers
  <2> QED  BY <2>4, <2>6
<1>8. CASE UNCHANGED vars
  <2>1. TypeOK'
    BY <1>8 DEF Inductive, TypeOK, vars
  <2>2. Registers'
    BY <1>8 DEF Inductive, Registers, vars
  <2> QED  BY <2>1, <2>2
<1>9. ASSUME NEW p \in Procs, NEW r \in Requests,
             CompleteUnpinned(p, r) \/ CompleteUnreadable(p, r) \/ CompleteReplayMiss(p, r)
      PROVE  TypeOK' /\ Registers'
  <2>1. UNCHANGED <<exclusive, file, mode, served>>
    BY <1>9 DEF CompleteUnpinned, CompleteUnreadable, CompleteReplayMiss
  <2>2. End(p, "unpinned") \/ End(p, "unreadable") \/ End(p, "missed")
    BY <1>9 DEF CompleteUnpinned, CompleteUnreadable, CompleteReplayMiss
  <2> QED  BY <1>2, <2>1, <2>2
<1>10. ASSUME NEW p \in Procs, AppendLine(p) \/ AppendRest(p)
       PROVE  TypeOK' /\ Registers'
  BY <1>7, <1>10 DEF AppendLine, AppendRest
<1>11. ASSUME NEW p \in Procs, Stop(p)
       PROVE  TypeOK' /\ Registers'
  BY <1>2, <1>11 DEF Stop
<1> QED
  BY <1>1, <1>3, <1>4, <1>5, <1>6, <1>8, <1>9, <1>10, <1>11 DEF Next, Step

(***************************************************************************)
(* How indexes and replies move.                                           *)
(***************************************************************************)
\* A process' index stays, is read from the file, or takes the record written.
LEMMA IndexMoves ==
  ASSUME Inductive, [Next]_vars, NEW p \in Procs, loaded'[p]
  PROVE  \/ loaded[p] /\ index'[p] = index[p] /\ mode'[p] = mode[p]
         \/ /\ ~loaded[p] /\ Readable(file) /\ file' = file
            /\ index'[p] = ParsedIndex(file) /\ pc'[p] # "writing"
         \/ /\ AppendLine(p) \/ AppendRest(p)
            /\ loaded[p] /\ pc[p] \in {"recording", "writing"}
            /\ mode'[p] = "live" /\ pc'[p] = "ready"
            /\ req[p] \in Requests /\ index[p][req[p]] = None /\ text[p] \in Texts
            /\ index'[p] = [index[p] EXCEPT ![req[p]] = text[p]]
<1> USE DEF Inductive, TypeOK
<1>1. ASSUME NEW q \in Procs, NEW m \in Modes, Boot(q, m)
      PROVE  loaded[p] /\ index'[p] = index[p] /\ mode'[p] = mode[p]
  BY <1>1 DEF Boot, Registers, Running, Ended
<1>2. ASSUME NEW q \in Procs, NEW how, End(q, how), UNCHANGED mode
      PROVE  loaded[p] /\ index'[p] = index[p] /\ mode'[p] = mode[p]
  BY <1>2 DEF End
<1>3. ASSUME NEW q \in Procs, NEW r \in Requests, CompleteHit(q, r) \/ CompleteLiveMiss(q, r)
      PROVE  \/ loaded[p] /\ index'[p] = index[p] /\ mode'[p] = mode[p]
             \/ /\ ~loaded[p] /\ Readable(file) /\ file' = file
                /\ index'[p] = ParsedIndex(file) /\ pc'[p] # "writing"
  BY <1>3 DEF CompleteHit, CompleteLiveMiss, CanLookup, Load, IndexOf
<1>4. ASSUME NEW q \in Procs, NEW t \in Texts, ProviderReplies(q, t)
      PROVE  loaded[p] /\ index'[p] = index[p] /\ mode'[p] = mode[p]
  BY <1>4 DEF ProviderReplies
<1>5. ASSUME NEW q \in Procs, NEW part \in {"cut", "bare"}, AppendPart(q, part)
      PROVE  loaded[p] /\ index'[p] = index[p] /\ mode'[p] = mode[p]
  BY <1>5 DEF AppendPart
<1>6. ASSUME NEW q \in Procs, q # p, Recorded(q)
      PROVE  loaded[p] /\ index'[p] = index[p] /\ mode'[p] = mode[p]
  BY <1>6 DEF Recorded
<1>7. ASSUME AppendLine(p) \/ AppendRest(p)
      PROVE  /\ loaded[p] /\ pc[p] \in {"recording", "writing"}
             /\ mode'[p] = "live" /\ pc'[p] = "ready"
             /\ req[p] \in Requests /\ index[p][req[p]] = None /\ text[p] \in Texts
             /\ index'[p] = [index[p] EXCEPT ![req[p]] = text[p]]
  <2>1. pc[p] \in {"recording", "writing"} /\ Recorded(p)
    BY <1>7 DEF AppendLine, AppendRest
  <2>2. /\ loaded[p] /\ mode[p] = "live"
        /\ req[p] \in Requests /\ index[p][req[p]] = None /\ text[p] \in Texts
    BY <2>1 DEF Registers
  <2>3. mode'[p] = "live" /\ pc'[p] = "ready"
    BY <2>1, <2>2 DEF Recorded
  <2>4. index'[p] = [index[p] EXCEPT ![req[p]] = text[p]]
    BY <2>1, <2>2 DEF Recorded
  <2> QED  BY <2>1, <2>2, <2>3, <2>4
<1>8. ASSUME NEW q \in Procs, NEW r \in Requests,
             CompleteUnpinned(q, r) \/ CompleteUnreadable(q, r) \/ CompleteReplayMiss(q, r)
      PROVE  loaded[p] /\ index'[p] = index[p] /\ mode'[p] = mode[p]
  BY <1>2, <1>8 DEF CompleteUnpinned, CompleteUnreadable, CompleteReplayMiss
<1>9. ASSUME NEW q \in Procs, q # p, AppendLine(q) \/ AppendRest(q)
      PROVE  loaded[p] /\ index'[p] = index[p] /\ mode'[p] = mode[p]
  BY <1>6, <1>9 DEF AppendLine, AppendRest
<1>10. ASSUME NEW q \in Procs, Stop(q)
       PROVE  loaded[p] /\ index'[p] = index[p] /\ mode'[p] = mode[p]
  BY <1>2, <1>10 DEF Stop
<1>11. CASE UNCHANGED vars
  BY <1>11 DEF vars
<1> HIDE DEF Inductive, TypeOK
<1> QED  BY <1>1, <1>3, <1>4, <1>5, <1>7, <1>8, <1>9, <1>10, <1>11 DEF Next, Step

\* A new reply comes from the index, or is the record just written.
LEMMA RepliesMove ==
  ASSUME Inductive, [Next]_vars, NEW s \in served', s \notin served
  PROVE  \E p \in Procs :
           /\ pc[p] \in Running /\ pc'[p] = "ready" /\ loaded'[p]
           /\ index'[p][s.req] = s.text /\ s.req \in Requests /\ s.text \in Texts
           /\ \/ /\ pc[p] = "ready" /\ file' = file
                 /\ loaded[p] \/ Readable(file)
                 /\ s.text = IndexOf(p)[s.req] /\ s.mode = mode[p]
              \/ s.mode = "live"
<1>1. ASSUME NEW p \in Procs, NEW r \in Requests, CompleteHit(p, r)
      PROVE  /\ pc[p] \in Running /\ pc'[p] = "ready" /\ loaded'[p]
             /\ index'[p][s.req] = s.text /\ s.req \in Requests /\ s.text \in Texts
             /\ pc[p] = "ready" /\ file' = file
             /\ loaded[p] \/ Readable(file)
             /\ s.text = IndexOf(p)[s.req] /\ s.mode = mode[p]
  <2>1. s = [req |-> r, text |-> IndexOf(p)[r], mode |-> mode[p]] /\ IndexOf(p)[r] # None
    BY <1>1 DEF CompleteHit
  <2>2. s.text \in Texts /\ s.req = r
    BY <2>1, IndexesAreFunctions
  <2>3. index'[p] = IndexOf(p) /\ loaded'[p] /\ pc' = pc /\ file' = file
    BY <1>1 DEF CompleteHit, Load, Inductive, TypeOK
  <2> QED  BY <1>1, <2>1, <2>2, <2>3 DEF CompleteHit, CanLookup, Running
<1>2. ASSUME NEW p \in Procs, AppendLine(p) \/ AppendRest(p)
      PROVE  /\ pc[p] \in Running /\ pc'[p] = "ready" /\ loaded'[p]
             /\ index'[p][s.req] = s.text /\ s.req \in Requests /\ s.text \in Texts
             /\ s.mode = "live"
  <2>1. pc[p] \in {"recording", "writing"} /\ Recorded(p)
    BY <1>2 DEF AppendLine, AppendRest
  <2>2. /\ loaded[p] /\ mode[p] = "live"
        /\ req[p] \in Requests /\ index[p][req[p]] = None /\ text[p] \in Texts
    BY <2>1 DEF Inductive, Registers
  <2>3. s = [req |-> req[p], text |-> text[p], mode |-> mode[p]]
    BY <2>1 DEF Recorded
  <2>4. index'[p][req[p]] = text[p]
    BY <2>1, <2>2 DEF Recorded, Inductive, TypeOK
  <2>5. pc'[p] = "ready" /\ loaded'[p]
    BY <2>1, <2>2 DEF Recorded, Inductive, TypeOK
  <2> QED  BY <2>1, <2>2, <2>3, <2>4, <2>5 DEF Running
<1>3. CASE ~\E p \in Procs : \/ AppendLine(p) \/ AppendRest(p)
                             \/ \E r \in Requests : CompleteHit(p, r)
  BY <1>3 DEF Next, Step, vars, Boot, CompleteUnpinned, CompleteUnreadable,
              CompleteReplayMiss, CompleteLiveMiss, ProviderReplies, AppendPart, Stop
<1> QED  BY <1>1, <1>2, <1>3

(***************************************************************************)
(* Every step preserves the invariant.                                     *)
(***************************************************************************)
LEMMA SaidStays ==
  ASSUME Inductive, [Next]_vars, NEW r, NEW t, Said(r, t)
  PROVE  Said(r, t)'
<1>1. PICK e \in Files : IsPrefix(e, file) /\ Readable(e) /\ First(e, r) = t
  BY DEF Said
<1>2. IsPrefix(e, file')
  BY <1>1, FileGrows, PrefixChain
<1> QED  BY <1>1, <1>2 DEF Said

LEMMA ReplayIndexesStep ==
  ASSUME Inductive, [Next]_vars
  PROVE  ReplayIndexes'
<1> SUFFICES ASSUME NEW p \in Procs, loaded'[p], mode'[p] = "replay"
             PROVE  \E e \in Files : /\ IsPrefix(e, file') /\ Readable(e)
                                     /\ index'[p] = ParsedIndex(e)
  BY DEF ReplayIndexes
<1>1. CASE loaded[p] /\ index'[p] = index[p] /\ mode'[p] = mode[p]
  <2>1. PICK e \in Files : IsPrefix(e, file) /\ Readable(e) /\ index[p] = ParsedIndex(e)
    BY <1>1 DEF Inductive, ReplayIndexes
  <2>2. IsPrefix(e, file')
    BY <2>1, FileGrows, PrefixChain
  <2> QED  BY <1>1, <2>1, <2>2
<1>2. CASE Readable(file) /\ file' = file /\ index'[p] = ParsedIndex(file)
  BY <1>2, FileGrows
<1> QED  BY <1>1, <1>2, IndexMoves

LEMMA ReplaysSaidStep ==
  ASSUME Inductive, [Next]_vars
  PROVE  ReplaysSaid'
<1> SUFFICES ASSUME NEW s \in served', s.mode = "replay"
             PROVE  Said(s.req, s.text)'
  BY DEF ReplaysSaid
<1>1. CASE s \in served
  BY <1>1, SaidStays DEF Inductive, ReplaysSaid
<1>2. CASE s \notin served
  <2>1. PICK p \in Procs :
          /\ s.req \in Requests /\ file' = file
          /\ loaded[p] \/ Readable(file)
          /\ s.text = IndexOf(p)[s.req] /\ mode[p] = "replay"
    BY <1>2, RepliesMove
  <2>2. PICK e \in Files : IsPrefix(e, file) /\ Readable(e) /\ IndexOf(p) = ParsedIndex(e)
    <3>1. CASE loaded[p]
      BY <2>1, <3>1 DEF IndexOf, Inductive, ReplayIndexes
    <3>2. CASE ~loaded[p]
      BY <2>1, <3>2, FileGrows, PrefixItself DEF IndexOf
    <3> QED  BY <3>1, <3>2
  <2>3. First(e, s.req) = s.text
    <3>1. ParsedIndex(e)[s.req] = First(e, s.req)
      BY <2>1, <2>2, AnIndex
    <3> QED  BY <2>1, <2>2, <3>1
  <2>4. IsPrefix(e, file')
    BY <2>1, <2>2
  <2> QED  BY <2>2, <2>3, <2>4 DEF Said
<1> QED  BY <1>1, <1>2

\* Only Boot starts a process, and an exclusive ledger has no other running.
LEMMA OneAtATimeStep ==
  ASSUME Inductive, [Next]_vars
  PROVE  OneAtATime'
<1>1. ASSUME NEW p \in Procs, NEW m \in Modes, Boot(p, m)
      PROVE  OneAtATime'
  <2>1. exclusive' = exclusive /\ pc' = [pc EXCEPT ![p] = "ready"]
    BY <1>1 DEF Boot
  <2>2. exclusive => \A q \in Procs : pc[q] \notin Running
    BY <1>1 DEF Boot, Running, Ended
  <2> QED  BY <2>1, <2>2 DEF OneAtATime, Inductive, TypeOK, Running
<1>2. CASE ~\E p \in Procs, m \in Modes : Boot(p, m)
  <2>1. \A p \in Procs : pc'[p] \in Running => pc[p] \in Running
    BY <1>2 DEF Inductive, TypeOK, Next, Step, vars, CompleteUnpinned, CompleteUnreadable,
                CompleteHit, CompleteReplayMiss, CompleteLiveMiss, ProviderReplies, AppendLine,
                AppendPart, AppendRest, Recorded, Stop, CanLookup, End, Running, Ended
  <2>2. exclusive' = exclusive
    BY FileGrows
  <2> QED  BY <2>1, <2>2 DEF OneAtATime, Inductive
<1> QED  BY <1>1, <1>2

\* The process that writes the last of a record leaves its index on the file.
LEMMA WrittenIndex ==
  ASSUME Inductive, [Next]_vars, exclusive, NEW p \in Procs, AppendLine(p) \/ AppendRest(p),
         pc'[p] = "ready", loaded[p],
         req[p] \in Requests, text[p] \in Texts, index[p][req[p]] = None,
         index'[p] = [index[p] EXCEPT ![req[p]] = text[p]]
  PROVE  IndexIsFile(p)'
<1>0. file \in Files /\ file' \in Files /\ IsPrefix(file, file')
  BY FileGrows
<1>1. CASE Damaged(file)
  BY <1>0, <1>1, DamageStays DEF IndexIsFile
<1>2. CASE Damaged(file')
  BY <1>2 DEF IndexIsFile
<1>3. CASE AppendLine(p) /\ ~Damaged(file) /\ ~Damaged(file')
  <2>1. Readable(file) /\ index[p] = ParsedIndex(file)
    BY <1>3 DEF Inductive, IndexesAreTheFile, IndexIsFile, AppendLine
  <2>2. /\ PieceOf(p, "line") \in Piece /\ PieceOf(p, "line").part = "line"
        /\ PieceOf(p, "line").req = req[p] /\ PieceOf(p, "line").text = text[p]
    BY DEF PieceOf, Piece
  <2>3. First(file, req[p]) = None
    BY <1>0, <2>1, AnIndex
  <2>4. file' = Append(file, PieceOf(p, "line"))
    BY <1>3 DEF AppendLine
  <2>5. Readable(file') /\ ParsedIndex(file') = [ParsedIndex(file) EXCEPT ![req[p]] = text[p]]
    BY <1>0, <1>3, <2>1, <2>2, <2>3, <2>4, ALineIsRecorded
  <2> QED  BY <2>1, <2>5 DEF IndexIsFile
<1>4. CASE AppendRest(p) /\ ~Damaged(file) /\ ~Damaged(file')
  <2>1. PICK e \in Files, part \in {"cut", "bare"} :
          /\ Readable(e) /\ index[p] = ParsedIndex(e)
          /\ file = Append(e, PieceOf(p, part))
    BY <1>4 DEF Inductive, IndexesAreTheFile, IndexIsFile, AppendRest
  <2>2. /\ PieceOf(p, part) \in Piece /\ PieceOf(p, "rest") \in Piece
        /\ PieceOf(p, part).part = part
        /\ PieceOf(p, part).req = req[p] /\ PieceOf(p, part).text = text[p]
        /\ RestOf(PieceOf(p, part), PieceOf(p, "rest"))
    BY DEF PieceOf, Piece, RestOf
  <2>3. First(e, req[p]) = None
    BY <2>1, AnIndex
  <2>4. file' = Append(Append(e, PieceOf(p, part)), PieceOf(p, "rest"))
    BY <1>4, <2>1 DEF AppendRest
  <2>5. Readable(file') /\ ParsedIndex(file') = [ParsedIndex(e) EXCEPT ![req[p]] = text[p]]
    BY <1>4, <2>1, <2>2, <2>3, <2>4, TwoPartsAreRecorded
  <2> QED  BY <2>1, <2>5 DEF IndexIsFile
<1> QED  BY <1>1, <1>2, <1>3, <1>4

\* Nobody else writes; a first part leaves its process writing.
LEMMA UnwrittenIndex ==
  ASSUME Inductive, [Next]_vars, exclusive, NEW p \in Procs, loaded[p], loaded'[p],
         index'[p] = index[p], ~(AppendLine(p) \/ AppendRest(p)), IndexIsFile(p)
  PROVE  IndexIsFile(p)'
<1>0. file \in Files /\ file' \in Files /\ IsPrefix(file, file') /\ pc[p] \in Running
  BY FileGrows DEF Inductive, Registers
<1>1. CASE Damaged(file)
  BY <1>0, <1>1, DamageStays DEF IndexIsFile
<1>2. ASSUME NEW q \in Procs, pc[q] \in Running
      PROVE  q = p
  BY <1>0, <1>2 DEF Inductive, OneAtATime
<1>3. CASE (\E part \in {"cut", "bare"} : AppendPart(p, part)) /\ ~Damaged(file)
  <2>1. PICK part \in {"cut", "bare"} : AppendPart(p, part)
    BY <1>3
  <2>2. /\ pc'[p] = "writing" /\ req' = req /\ text' = text
        /\ file' = Append(file, PieceOf(p, part)) /\ pc[p] = "recording"
    BY <2>1 DEF AppendPart, Inductive, TypeOK
  <2>3. Readable(file) /\ index[p] = ParsedIndex(file)
    BY <1>3, <2>2 DEF IndexIsFile
  <2>4. PieceOf(p, part)' = PieceOf(p, part)
    BY <2>2 DEF PieceOf
  <2>5. file' = Append(file, PieceOf(p, part)') /\ index'[p] = ParsedIndex(file)
    BY <2>2, <2>3, <2>4
  <2> QED  BY <1>0, <2>2, <2>3, <2>5 DEF IndexIsFile
<1>4. CASE ~(\E part \in {"cut", "bare"} : AppendPart(p, part))
  <2>1. /\ file' = file
        /\ pc[p] = "writing" <=> pc'[p] = "writing"
        /\ pc[p] = "writing" => req'[p] = req[p] /\ text'[p] = text[p]
    <3>1. ASSUME NEW q \in Procs, Step(q)
          PROVE  q = p /\ ~\E m \in Modes : Boot(q, m)
      BY <1>0, <1>2, <3>1 DEF Step, Boot, CompleteUnpinned, CompleteUnreadable, CompleteHit,
           CompleteReplayMiss, CompleteLiveMiss, ProviderReplies, AppendLine, AppendPart,
           AppendRest, Stop, CanLookup, Running, Ended
    <3>2. CASE Step(p)
      BY <1>4, <3>1, <3>2 DEF Step, CompleteUnpinned, CompleteUnreadable, CompleteHit,
           CompleteReplayMiss, CompleteLiveMiss, ProviderReplies, Stop, End, CanLookup,
           Inductive, TypeOK
    <3>3. CASE UNCHANGED vars
      BY <3>3 DEF vars
    <3> QED  BY <3>1, <3>2, <3>3 DEF Next
  <2>2. CASE pc[p] = "writing" /\ ~Damaged(file)
    <3>1. PICK e \in Files, part \in {"cut", "bare"} :
            /\ Readable(e) /\ index[p] = ParsedIndex(e)
            /\ file = Append(e, PieceOf(p, part))
      BY <2>2 DEF IndexIsFile
    <3>2. PieceOf(p, part)' = PieceOf(p, part)
      BY <2>1, <2>2 DEF PieceOf
    <3>3. /\ pc'[p] = "writing" /\ index'[p] = ParsedIndex(e)
          /\ file' = Append(e, PieceOf(p, part)')
      BY <2>1, <2>2, <3>1, <3>2
    <3> QED  BY <3>1, <3>3 DEF IndexIsFile
  <2>3. CASE pc[p] # "writing" /\ ~Damaged(file)
    <3>1. Readable(file) /\ index[p] = ParsedIndex(file)
      BY <2>3 DEF IndexIsFile
    <3> QED  BY <2>1, <2>3, <3>1 DEF IndexIsFile
  <2> QED  BY <1>1, <2>2, <2>3
<1> QED  BY <1>1, <1>3, <1>4

LEMMA IndexesAreTheFileStep ==
  ASSUME Inductive, [Next]_vars
  PROVE  IndexesAreTheFile'
<1> SUFFICES ASSUME exclusive, NEW p \in Procs, loaded'[p]
             PROVE  IndexIsFile(p)'
  BY FileGrows DEF IndexesAreTheFile
<1>1. CASE loaded[p] /\ index'[p] = index[p] /\ ~(AppendLine(p) \/ AppendRest(p))
  <2>1. IndexIsFile(p)
    BY <1>1 DEF Inductive, IndexesAreTheFile
  <2> QED  BY <1>1, <2>1, UnwrittenIndex
<1>2. CASE /\ ~loaded[p] /\ Readable(file) /\ file' = file
           /\ index'[p] = ParsedIndex(file) /\ pc'[p] # "writing"
  BY <1>2 DEF IndexIsFile
<1>3. CASE AppendLine(p) \/ AppendRest(p)
  <2>1. pc[p] \in {"recording", "writing"} /\ Recorded(p)
    BY <1>3 DEF AppendLine, AppendRest
  <2>2. /\ loaded[p] /\ req[p] \in Requests /\ index[p][req[p]] = None /\ text[p] \in Texts
    BY <2>1 DEF Inductive, Registers
  <2>3. pc'[p] = "ready" /\ index'[p] = [index[p] EXCEPT ![req[p]] = text[p]]
    <3>1. pc'[p] = "ready"
      BY <2>1 DEF Recorded, Inductive, TypeOK
    <3>2. index'[p] = [index[p] EXCEPT ![req[p]] = text[p]]
      BY <2>1, <2>2 DEF Recorded, Inductive, TypeOK
    <3> QED  BY <3>1, <3>2
  <2> QED  BY <1>3, <2>2, <2>3, WrittenIndex
<1> QED  BY <1>1, <1>2, <1>3, IndexMoves

\* What the file said of a request, it says as long as it can be read.
LEMMA SaidIsFirst ==
  ASSUME file \in Files, Readable(file), NEW r, NEW t, t # None, Said(r, t)
  PROVE  First(file, r) = t
<1>1. PICK e \in Files : IsPrefix(e, file) /\ Readable(e) /\ First(e, r) = t
  BY DEF Said
<1> QED  BY <1>1, FirstStays

LEMMA RepliesAreTexts ==
  ASSUME Inductive
  PROVE  file \in Files /\ \A s \in served : s.text # None
<1>1. file \in Files
  BY DEF Inductive, TypeOK, Files
<1>2. \A s \in served : s.text # None
  BY DEF Inductive, TypeOK, Reply
<1> QED  BY <1>1, <1>2

LEMMA OldRepliesAreKnown ==
  ASSUME Inductive, [Next]_vars, exclusive, NEW s \in served
  PROVE  /\ \A p \in Procs : loaded'[p] => index'[p][s.req] = s.text
         /\ Damaged(file') \/ Said(s.req, s.text)'
<1>0. file \in Files /\ file' \in Files /\ IsPrefix(file, file')
  BY FileGrows
<1>1. s.req \in Requests /\ s.text \in Texts /\ s.text # None
  BY DEF Inductive, TypeOK, Reply
<1>2. Damaged(file) \/ Said(s.req, s.text)
  BY DEF Inductive, RepliesAreKnown
<1>3. Damaged(file') \/ Said(s.req, s.text)'
  BY <1>0, <1>2, DamageStays, SaidStays
<1>4. ASSUME NEW p \in Procs, loaded'[p]
      PROVE  index'[p][s.req] = s.text
  <2>1. loaded[p] => index[p][s.req] = s.text
    BY DEF Inductive, RepliesAreKnown
  <2>2. CASE loaded[p] /\ index'[p] = index[p]
    BY <2>1, <2>2
  <2>3. CASE Readable(file) /\ index'[p] = ParsedIndex(file)
    <3>1. First(file, s.req) = s.text
      BY <1>0, <1>1, <1>2, <2>3, DamageIsUnreadable, SaidIsFirst
    <3> QED  BY <1>0, <1>1, <2>3, <3>1, AnIndex
  <2>4. CASE /\ loaded[p] /\ req[p] \in Requests /\ index[p][req[p]] = None
             /\ index'[p] = [index[p] EXCEPT ![req[p]] = text[p]]
    <3>1. s.req # req[p]
      BY <1>1, <2>1, <2>4
    <3>2. index[p] \in [Requests -> Texts \cup {None}]
      BY DEF Inductive, TypeOK
    <3> QED  BY <1>1, <2>1, <2>4, <3>1, <3>2
  <2> QED  BY <1>4, <2>2, <2>3, <2>4, IndexMoves
<1> QED  BY <1>3, <1>4

LEMMA NewRepliesAreKnown ==
  ASSUME Inductive, [Next]_vars, exclusive, NEW s \in served', s \notin served
  PROVE  /\ \A p \in Procs : loaded'[p] => index'[p][s.req] = s.text
         /\ Damaged(file') \/ Said(s.req, s.text)'
<1>0. exclusive' = exclusive /\ file' \in Files
  BY FileGrows
<1>1. PICK p \in Procs :
        /\ pc'[p] = "ready" /\ loaded'[p]
        /\ index'[p][s.req] = s.text /\ s.req \in Requests
  BY RepliesMove
<1>2. ASSUME NEW q \in Procs, loaded'[q]
      PROVE  q = p
  <2>1. pc'[q] \in Running
    BY <1>2, TypeStep DEF Registers
  <2> QED  BY <1>0, <1>1, <2>1, OneAtATimeStep DEF OneAtATime, Running
<1>3. \A q \in Procs : loaded'[q] => index'[q][s.req] = s.text
  BY <1>1, <1>2
<1>4. Damaged(file') \/ Said(s.req, s.text)'
  <2>1. IndexIsFile(p)'
    BY <1>0, <1>1, IndexesAreTheFileStep DEF IndexesAreTheFile
  <2>2. Damaged(file') \/ (Readable(file') /\ index'[p] = ParsedIndex(file'))
    BY <1>1, <2>1 DEF IndexIsFile
  <2>3. CASE Readable(file') /\ index'[p] = ParsedIndex(file')
    <3>1. First(file', s.req) = s.text
      BY <1>0, <1>1, <2>3, AnIndex
    <3> QED  BY <1>0, <2>3, <3>1, PrefixItself DEF Said
  <2> QED  BY <2>2, <2>3
<1> QED  BY <1>3, <1>4

LEMMA RepliesAreKnownStep ==
  ASSUME Inductive, [Next]_vars
  PROVE  RepliesAreKnown'
  BY FileGrows, OldRepliesAreKnown, NewRepliesAreKnown DEF RepliesAreKnown

\* Whoever hands out a reply knows all that were handed out before.
LEMMA OneAnswerStep ==
  ASSUME Inductive, [Next]_vars
  PROVE  OneAnswer'
<1>1. exclusive' = exclusive
  BY FileGrows
<1>2. ASSUME exclusive, NEW s \in served', s \notin served, NEW u \in served', s.req = u.req
      PROVE  s.text = u.text
  <2>1. PICK p \in Procs : loaded'[p] /\ index'[p][s.req] = s.text
    BY <1>2, RepliesMove
  <2>2. index'[p][u.req] = u.text
    BY <1>1, <1>2, <2>1, RepliesAreKnownStep DEF RepliesAreKnown
  <2> QED  BY <1>2, <2>1, <2>2
<1>3. ASSUME exclusive, NEW s \in served, NEW u \in served, s.req = u.req
      PROVE  s.text = u.text
  BY <1>3 DEF Inductive, OneAnswer
<1> QED  BY <1>1, <1>2, <1>3 DEF OneAnswer

LEMMA InductiveStep == Inductive /\ [Next]_vars => Inductive'
  BY TypeStep, ReplayIndexesStep, ReplaysSaidStep, OneAtATimeStep, IndexesAreTheFileStep,
     RepliesAreKnownStep, OneAnswerStep DEF Inductive

\* Every reachable state of the ledger, with any number of clients.
THEOREM Invariance == Spec => []Inductive
  BY InductiveInit, InductiveStep, PTL DEF Spec

(***************************************************************************)
(* The theorems.                                                           *)
(***************************************************************************)
\* The file, the indexes and the replies have their types.
THEOREM TypeCorrect == Spec => []TypeOK
<1>1. Inductive => TypeOK
  BY DEF Inductive
<1> QED  BY <1>1, Invariance, PTL

\* A ledger held by one process at a time gives one answer per request, through
\* any chain of kills, torn records and restarts.
THEOREM OneAnswerEach == Spec => []OneAnswer
<1>1. Inductive => OneAnswer
  BY DEF Inductive
<1> QED  BY <1>1, Invariance, PTL

\* As long as the file can be read, it says what every caller was told.
THEOREM ServedStaysRecorded == Spec => []ServedIsRecorded
<1>1. ASSUME Inductive, exclusive, Readable(file), NEW s \in served
      PROVE  First(file, s.req) = s.text
  <2>1. file \in Files /\ s.text # None
    BY <1>1, RepliesAreTexts
  <2>2. Said(s.req, s.text)
    BY <1>1, <2>1, DamageIsUnreadable DEF Inductive, RepliesAreKnown
  <2> QED  BY <1>1, <2>1, <2>2, SaidIsFirst
<1>2. Inductive => ServedIsRecorded
  BY <1>1 DEF ServedIsRecorded
<1> QED  BY <1>2, Invariance, PTL

\* Two replays never disagree, however many processes write the file at once.
THEOREM ReplaysNeverDisagree == Spec => []ReplaysAgree
<1>1. ASSUME Inductive, NEW s \in served, NEW u \in served, s.req = u.req,
             s.mode = "replay", u.mode = "replay"
      PROVE  s.text = u.text
  <2>1. s.text # None /\ u.text # None /\ file \in Files
    BY <1>1, RepliesAreTexts
  <2>2. PICK d \in Files : IsPrefix(d, file) /\ Readable(d) /\ First(d, s.req) = s.text
    BY <1>1 DEF Inductive, ReplaysSaid, Said
  <2>3. PICK e \in Files : IsPrefix(e, file) /\ Readable(e) /\ First(e, s.req) = u.text
    BY <1>1 DEF Inductive, ReplaysSaid, Said
  <2>4. IsPrefix(d, e) \/ IsPrefix(e, d)
    BY <2>1, <2>2, <2>3, PrefixesNest
  <2>5. CASE IsPrefix(d, e)
    BY <2>1, <2>2, <2>3, <2>5, FirstStays
  <2>6. CASE IsPrefix(e, d)
    BY <2>1, <2>2, <2>3, <2>6, FirstStays
  <2> QED  BY <2>4, <2>5, <2>6
<1>2. Inductive => ReplaysAgree
  BY <1>1 DEF ReplaysAgree
<1> QED  BY <1>2, Invariance, PTL

(***************************************************************************)
(* The refinement: the first completed write of a request is its answer,   *)
(* even where a later write has damaged the file.                          *)
(***************************************************************************)
LEMMA WrittenIsTheLeast ==
  ASSUME NEW f \in Files, NEW r, NEW i \in WrittenAt(f, r), \A j \in WrittenAt(f, r) : i <= j
  PROVE  Written(f, r) = f[i].text
<1>1. WrittenAt(f, r) \subseteq Nat
  BY DEF WrittenAt, Files
<1>2. (CHOOSE k \in WrittenAt(f, r) : \A j \in WrittenAt(f, r) : k <= j) = i
  BY <1>1
<1> QED  BY <1>2 DEF Written

LEMMA AFirstWrite ==
  ASSUME NEW f \in Files, NEW r
  PROVE  /\ WrittenAt(f, r) = {} <=> Written(f, r) = None
         /\ Written(f, r) \in Texts \cup {None}
         /\ WrittenAt(f, r) # {} =>
              \E i \in WrittenAt(f, r) : /\ \A j \in WrittenAt(f, r) : i <= j
                                         /\ Written(f, r) = f[i].text
<1>1. WrittenAt(f, r) \subseteq 1..Len(f) /\ Len(f) \in Nat
  BY DEF WrittenAt, Files
<1>2. CASE WrittenAt(f, r) = {}
  BY <1>2 DEF Written
<1>3. CASE WrittenAt(f, r) # {}
  <2>1. PICK i \in WrittenAt(f, r) : \A j \in WrittenAt(f, r) : i <= j
    BY <1>1, <1>3, LeastOf
  <2>2. Written(f, r) = f[i].text /\ i \in 1..Len(f)
    BY <1>1, <2>1, WrittenIsTheLeast
  <2>3. f[i].text \in Texts
    BY <2>2, Pieces
  <2> QED  BY <1>3, <2>1, <2>2, <2>3
<1> QED  BY <1>2, <1>3

\* What is answered stays answered, whatever is written behind it.
LEMMA WrittenStays ==
  ASSUME NEW e \in Files, NEW f \in Files, IsPrefix(e, f), NEW r, Written(e, r) # None
  PROVE  Written(f, r) = Written(e, r)
<1>1. PICK i \in WrittenAt(e, r) : /\ \A j \in WrittenAt(e, r) : i <= j
                                   /\ Written(e, r) = e[i].text
  BY AFirstWrite
<1>2. /\ i \in 1..Len(e) /\ i \in 1..Len(f) /\ e[i].req = r /\ f[i] = e[i]
      /\ Len(e) \in Nat /\ Len(f) \in Nat
  BY DEF WrittenAt, IsPrefix, Files
<1>3. i \in WrittenAt(f, r)
  <2>1. e[i].part = "cut" => i < Len(e) /\ RestOf(e[i], e[i + 1])
    BY DEF WrittenAt
  <2>2. i < Len(e) => f[i + 1] = e[i + 1] /\ i < Len(f)
    BY <1>2 DEF IsPrefix
  <2> QED  BY <1>2, <2>1, <2>2 DEF WrittenAt, Files
<1>4. ASSUME NEW j \in WrittenAt(f, r)
      PROVE  i <= j
  <2>1. /\ j \in 1..Len(f) /\ f[j].req = r
        /\ f[j].part = "cut" => j < Len(f) /\ RestOf(f[j], f[j + 1])
    BY DEF WrittenAt, Files
  <2>2. CASE j < Len(e)
    <3>1. j \in 1..Len(e) /\ e[j] = f[j] /\ e[j + 1] = f[j + 1]
      BY <1>2, <2>1, <2>2 DEF IsPrefix
    <3>2. j \in WrittenAt(e, r)
      BY <2>1, <2>2, <3>1 DEF WrittenAt, Files
    <3> QED  BY <1>1, <3>2
  <2> QED  BY <1>2, <2>1, <2>2
<1> QED  BY <1>1, <1>2, <1>3, <1>4, WrittenIsTheLeast

\* A write answers its request, unless it is cut or the request has an answer.
LEMMA WrittenAppend ==
  ASSUME NEW f \in Files, NEW x \in Piece, NEW r
  PROVE  Written(Append(f, x), r) =
           IF Written(f, r) = None /\ x.req = r /\ x.part # "cut"
           THEN x.text ELSE Written(f, r)
<1> DEFINE g == Append(f, x)
           n == Len(f)
<1>1. /\ g \in Files /\ IsPrefix(f, g) /\ Len(g) = n + 1 /\ g[n + 1] = x /\ n \in Nat
      /\ \A i \in 1..n : g[i] = f[i]
  BY PrefixAppend DEF IsPrefix
<1> HIDE DEF g
<1>2. CASE Written(f, r) # None
  BY <1>1, <1>2, WrittenStays DEF g
<1>3. CASE Written(f, r) = None
  <2>1. WrittenAt(f, r) = {}
    BY <1>3, AFirstWrite
  <2>2. ASSUME NEW j \in WrittenAt(g, r)
        PROVE  g[j].text = x.text /\ x.req = r /\ x.part # "cut"
    <3>1. /\ j \in 1..(n + 1) /\ g[j].req = r
          /\ g[j].part = "cut" => j < n + 1 /\ RestOf(g[j], g[j + 1])
      BY <1>1 DEF WrittenAt, Files
    <3>2. CASE j = n + 1
      BY <1>1, <3>1, <3>2
    <3>3. CASE j # n + 1
      <4>1. j \in 1..n /\ j \notin WrittenAt(f, r) /\ f[j] = g[j] /\ f[j].req = r
        BY <1>1, <2>1, <3>1, <3>3
      <4>2. g[j].part = "cut" /\ ~(j < n /\ RestOf(f[j], f[j + 1]))
        BY <1>1, <4>1 DEF WrittenAt, Files
      <4>3. j = n
        <5>1. j < n => f[j + 1] = g[j + 1]
          BY <1>1, <4>1
        <5> QED  BY <1>1, <3>1, <4>1, <4>2, <5>1
      <4>4. RestOf(g[j], x)
        BY <1>1, <3>1, <4>2, <4>3
      <4> QED  BY <3>1, <4>4 DEF RestOf
    <3> QED  BY <3>2, <3>3
  <2>3. CASE x.req = r /\ x.part # "cut"
    <3>1. n + 1 \in WrittenAt(g, r)
      BY <1>1, <2>3 DEF WrittenAt, Files
    <3>2. PICK i \in WrittenAt(g, r) : Written(g, r) = g[i].text
      BY <1>1, <3>1, AFirstWrite
    <3> QED  BY <1>3, <2>2, <2>3, <3>2 DEF g
  <2>4. CASE ~(x.req = r /\ x.part # "cut")
    <3>1. WrittenAt(g, r) = {}
      BY <2>2, <2>4
    <3>2. Written(g, r) = None
      BY <1>1, <3>1, AFirstWrite
    <3> QED  BY <1>3, <2>4, <3>2 DEF g
  <2> QED  BY <2>3, <2>4
<1> QED  BY <1>2, <1>3

\* The end of a record is written behind its beginning.
Parts(f) ==
  \A j \in 1..Len(f) : f[j].part = "rest" =>
    \E i \in 1..Len(f) : i < j /\ f[i].part \in {"cut", "bare"} /\ RestOf(f[i], f[j])

LEMMA PartsOfPrefix ==
  ASSUME NEW e \in Files, NEW f \in Files, IsPrefix(e, f), Parts(f)
  PROVE  Parts(e)
<1> SUFFICES ASSUME NEW j \in 1..Len(e), e[j].part = "rest"
             PROVE  \E i \in 1..Len(e) : i < j /\ e[i].part \in {"cut", "bare"} /\ RestOf(e[i], e[j])
  BY DEF Parts
<1>1. j \in 1..Len(f) /\ f[j] = e[j] /\ Len(e) \in Nat /\ Len(f) \in Nat
  BY DEF IsPrefix, Files
<1>2. PICK i \in 1..Len(f) : i < j /\ f[i].part \in {"cut", "bare"} /\ RestOf(f[i], f[j])
  BY <1>1 DEF Parts
<1>3. i \in 1..Len(e) /\ f[i] = e[i]
  BY <1>1, <1>2 DEF IsPrefix
<1> QED  BY <1>1, <1>2, <1>3

\* As long as the file can be read, what was written is what is read.
LEMMA ReadableIsWritten ==
  ASSUME NEW f \in Files, Parts(f), Readable(f), NEW r
  PROVE  Written(f, r) = First(f, r)
<1>1. Positions(f, r) \subseteq WrittenAt(f, r)
  BY DEF Positions, WrittenAt, RecordAt
<1>2. ASSUME NEW j \in WrittenAt(f, r)
      PROVE  \E i \in Positions(f, r) : i <= j
  <2>1. j \in 1..Len(f) /\ f[j].req = r /\ Len(f) \in Nat
    BY DEF WrittenAt, Files
  <2>2. CASE f[j].part # "rest"
    <3>1. j \in Positions(f, r)
      BY <2>1, <2>2 DEF Readable, Positions, Files
    <3> QED  BY <2>1, <3>1
  <2>3. CASE f[j].part = "rest"
    <3>1. PICK i \in 1..Len(f) : i < j /\ f[i].part \in {"cut", "bare"} /\ RestOf(f[i], f[j])
      BY <2>1, <2>3 DEF Parts
    <3>2. i \in Positions(f, r)
      BY <2>1, <3>1 DEF Readable, Positions, RestOf, Files
    <3> QED  BY <2>1, <3>1, <3>2
  <2> QED  BY <2>2, <2>3
<1>3. CASE Positions(f, r) = {}
  <2>1. WrittenAt(f, r) = {}
    BY <1>2, <1>3
  <2> QED  BY <1>3, <2>1, AFirstRecord, AFirstWrite
<1>4. CASE Positions(f, r) # {}
  <2>1. PICK i \in Positions(f, r) : /\ \A j \in Positions(f, r) : i <= j
                                     /\ First(f, r) = f[i].text
    BY <1>4, AFirstRecord
  <2>2. Positions(f, r) \subseteq Nat /\ WrittenAt(f, r) \subseteq Nat
    BY DEF Positions, WrittenAt, Files
  <2>3. \A j \in WrittenAt(f, r) : i <= j
    BY <1>2, <2>1, <2>2
  <2> QED  BY <1>1, <2>1, <2>3, WrittenIsTheLeast
<1> QED  BY <1>3, <1>4

WritersHaveParts ==
  \A p \in Procs : pc[p] = "writing" =>
    \E i \in 1..Len(file) : /\ file[i].part \in {"cut", "bare"}
                            /\ RestOf(file[i], PieceOf(p, "rest"))

\* The one process' index is what was answered, but for what it is writing.
IndexesAreAnswers ==
  exclusive => \A p \in Procs : loaded[p] => \A r \in Requests :
    \/ index[p][r] = Written(file, r)
    \/ pc[p] = "writing" /\ r = req[p] /\ Written(file, r) = text[p]

Answered == Parts(file) /\ WritersHaveParts /\ IndexesAreAnswers

\* What a step writes.
LEMMA Writes ==
  ASSUME Inductive, NEW p \in Procs, NEW part \in {"line", "cut", "bare", "rest"},
         pc[p] \in {"recording", "writing"}
  PROVE  /\ PieceOf(p, part) \in Piece
         /\ PieceOf(p, part).part = part /\ PieceOf(p, part).by = p
         /\ PieceOf(p, part).req = req[p] /\ PieceOf(p, part).text = text[p]
         /\ req[p] \in Requests /\ text[p] \in Texts /\ mode[p] = "live"
         /\ loaded[p] /\ index[p][req[p]] = None
  BY DEF Inductive, Registers, PieceOf, Piece

\* A step that writes nothing.
Quiet ==
  /\ file' = file
  /\ \A p \in Procs : pc'[p] = "writing" =>
       pc[p] = "writing" /\ req'[p] = req[p] /\ text'[p] = text[p]
  /\ \A p \in Procs : pc[p] = "writing" /\ loaded'[p] =>
       pc'[p] = "writing" /\ req'[p] = req[p] /\ text'[p] = text[p]

LEMMA WritingOrQuiet ==
  ASSUME Inductive, [Next]_vars
  PROVE  \/ Quiet
         \/ \E p \in Procs : \/ AppendLine(p) \/ AppendRest(p)
                             \/ \E part \in {"cut", "bare"} : AppendPart(p, part)
<1> USE DEF Inductive, TypeOK
<1>1. ASSUME NEW p \in Procs, NEW how \in Ended, End(p, how), UNCHANGED file
      PROVE  Quiet
  BY <1>1 DEF End, Quiet, Ended
<1>2. ASSUME NEW p \in Procs, NEW r \in Requests,
             CompleteUnpinned(p, r) \/ CompleteUnreadable(p, r) \/ CompleteReplayMiss(p, r)
      PROVE  Quiet
  BY <1>1, <1>2 DEF CompleteUnpinned, CompleteUnreadable, CompleteReplayMiss, Ended
<1>3. ASSUME NEW p \in Procs, Stop(p)
      PROVE  Quiet
  BY <1>1, <1>3 DEF Stop, Ended
<1>4. ASSUME NEW p \in Procs, NEW m \in Modes, Boot(p, m)
      PROVE  Quiet
  BY <1>4 DEF Boot, Quiet, Ended
<1>5. ASSUME NEW p \in Procs, NEW r \in Requests, CompleteHit(p, r) \/ CompleteLiveMiss(p, r)
      PROVE  Quiet
  BY <1>5 DEF CompleteHit, CompleteLiveMiss, CanLookup, Quiet
<1>6. ASSUME NEW p \in Procs, NEW t \in Texts, ProviderReplies(p, t)
      PROVE  Quiet
  BY <1>6 DEF ProviderReplies, Quiet
<1>7. CASE UNCHANGED vars
  BY <1>7 DEF vars, Quiet
<1> HIDE DEF Inductive, TypeOK
<1> QED  BY <1>2, <1>3, <1>4, <1>5, <1>6, <1>7 DEF Next, Step

\* The end of a record is written by the process that wrote its beginning.
LEMMA PartsStep ==
  ASSUME Inductive, Answered, [Next]_vars
  PROVE  Parts(file)'
<1>0. file \in Files /\ file' \in Files
  BY FileGrows
<1> SUFFICES Parts(file')
  BY DEF Parts, RestOf
<1>1. ASSUME NEW x \in Piece, file' = Append(file, x),
             x.part = "rest" =>
               \E i \in 1..Len(file) : file[i].part \in {"cut", "bare"} /\ RestOf(file[i], x)
      PROVE  Parts(file')
  <2>1. /\ Len(file') = Len(file) + 1 /\ file'[Len(file) + 1] = x /\ Len(file) \in Nat
        /\ \A i \in 1..Len(file) : file'[i] = file[i]
    BY <1>0, <1>1, PrefixAppend DEF IsPrefix
  <2>2. ASSUME NEW j \in 1..Len(file'), file'[j].part = "rest"
        PROVE  \E i \in 1..Len(file') : /\ i < j /\ file'[i].part \in {"cut", "bare"}
                                        /\ RestOf(file'[i], file'[j])
    <3>1. CASE j = Len(file) + 1
      <4>1. PICK i \in 1..Len(file) : file[i].part \in {"cut", "bare"} /\ RestOf(file[i], x)
        BY <1>1, <2>1, <2>2, <3>1
      <4>2. i \in 1..Len(file') /\ i < j /\ file'[i] = file[i] /\ file'[j] = x
        BY <2>1, <3>1
      <4> QED  BY <4>1, <4>2
    <3>2. CASE j # Len(file) + 1
      <4>1. j \in 1..Len(file) /\ file'[j] = file[j]
        BY <2>1, <3>2
      <4>2. PICK i \in 1..Len(file) : /\ i < j /\ file[i].part \in {"cut", "bare"}
                                      /\ RestOf(file[i], file[j])
        BY <2>2, <4>1 DEF Answered, Parts
      <4>3. i \in 1..Len(file') /\ file'[i] = file[i]
        BY <2>1
      <4> QED  BY <4>1, <4>2, <4>3
    <3> QED  BY <3>1, <3>2
  <2> QED  BY <2>2 DEF Parts
<1>2. ASSUME Quiet PROVE Parts(file')
  BY <1>2 DEF Quiet, Answered
<1>3. ASSUME NEW p \in Procs, AppendLine(p) PROVE Parts(file')
  <2>1. file' = Append(file, PieceOf(p, "line")) /\ pc[p] = "recording"
    BY <1>3 DEF AppendLine
  <2>2. PieceOf(p, "line") \in Piece /\ PieceOf(p, "line").part # "rest"
    BY <2>1, Writes
  <2> QED  BY <1>1, <2>1, <2>2
<1>4. ASSUME NEW p \in Procs, NEW part \in {"cut", "bare"}, AppendPart(p, part)
      PROVE  Parts(file')
  <2>1. file' = Append(file, PieceOf(p, part)) /\ pc[p] = "recording"
    BY <1>4 DEF AppendPart
  <2>2. PieceOf(p, part) \in Piece /\ PieceOf(p, part).part # "rest"
    BY <2>1, Writes
  <2> QED  BY <1>1, <2>1, <2>2
<1>5. ASSUME NEW p \in Procs, AppendRest(p) PROVE Parts(file')
  <2>1. file' = Append(file, PieceOf(p, "rest")) /\ pc[p] = "writing"
    BY <1>5 DEF AppendRest
  <2>2. PieceOf(p, "rest") \in Piece
    BY <2>1, Writes
  <2>3. \E i \in 1..Len(file) : /\ file[i].part \in {"cut", "bare"}
                                /\ RestOf(file[i], PieceOf(p, "rest"))
    BY <2>1 DEF Answered, WritersHaveParts
  <2> QED  BY <1>1, <2>1, <2>2, <2>3
<1> QED  BY <1>2, <1>3, <1>4, <1>5, WritingOrQuiet

LEMMA WritersHavePartsStep ==
  ASSUME Inductive, Answered, [Next]_vars
  PROVE  WritersHaveParts'
<1>0. file \in Files /\ file' \in Files /\ IsPrefix(file, file')
  BY FileGrows
<1> SUFFICES ASSUME NEW p \in Procs, pc'[p] = "writing"
             PROVE  \E i \in 1..Len(file') : /\ file'[i].part \in {"cut", "bare"}
                                             /\ RestOf(file'[i], PieceOf(p, "rest")')
  BY DEF WritersHaveParts, RestOf
<1>1. CASE pc[p] = "writing" /\ req'[p] = req[p] /\ text'[p] = text[p]
  <2>1. PICK i \in 1..Len(file) : /\ file[i].part \in {"cut", "bare"}
                                  /\ RestOf(file[i], PieceOf(p, "rest"))
    BY <1>1 DEF Answered, WritersHaveParts
  <2>2. PieceOf(p, "rest")' = PieceOf(p, "rest")
    BY <1>1 DEF PieceOf
  <2>3. i \in 1..Len(file') /\ file'[i] = file[i]
    BY <1>0 DEF IsPrefix, Files
  <2> QED  BY <2>1, <2>2, <2>3
<1>2. ASSUME NEW part \in {"cut", "bare"}, AppendPart(p, part)
      PROVE  \E i \in 1..Len(file') : /\ file'[i].part \in {"cut", "bare"}
                                      /\ RestOf(file'[i], PieceOf(p, "rest")')
  <2>1. file' = Append(file, PieceOf(p, part)) /\ pc[p] = "recording"
        /\ req' = req /\ text' = text
    BY <1>2 DEF AppendPart
  <2>2. /\ PieceOf(p, part) \in Piece /\ PieceOf(p, part).part = part
        /\ RestOf(PieceOf(p, part), PieceOf(p, "rest"))
    BY <2>1, Writes DEF RestOf, PieceOf
  <2>3. Len(file) + 1 \in 1..Len(file') /\ file'[Len(file) + 1] = PieceOf(p, part)
    BY <1>0, <2>1, <2>2, PrefixAppend
  <2>4. PieceOf(p, "rest")' = PieceOf(p, "rest")
    BY <2>1 DEF PieceOf
  <2> QED  BY <2>2, <2>3, <2>4
<1>3. ASSUME Quiet
      PROVE  pc[p] = "writing" /\ req'[p] = req[p] /\ text'[p] = text[p]
  BY <1>3 DEF Quiet
<1>4. ASSUME NEW q \in Procs, AppendLine(q) \/ AppendRest(q)
      PROVE  pc[p] = "writing" /\ req'[p] = req[p] /\ text'[p] = text[p]
  BY <1>4 DEF AppendLine, AppendRest, Recorded, Inductive, TypeOK
<1>5. ASSUME NEW q \in Procs, q # p, NEW part \in {"cut", "bare"}, AppendPart(q, part)
      PROVE  pc[p] = "writing" /\ req'[p] = req[p] /\ text'[p] = text[p]
  BY <1>5 DEF AppendPart, Inductive, TypeOK
<1> QED  BY <1>1, <1>2, <1>3, <1>4, <1>5, WritingOrQuiet

LEMMA IndexesAreAnswersStep ==
  ASSUME Inductive, Answered, [Next]_vars
  PROVE  IndexesAreAnswers'
<1>0. file \in Files /\ file' \in Files /\ exclusive' = exclusive
  BY FileGrows
<1> SUFFICES ASSUME exclusive, NEW p \in Procs, loaded'[p], NEW r \in Requests
             PROVE  \/ index'[p][r] = Written(file', r)
                    \/ pc'[p] = "writing" /\ r = req'[p] /\ Written(file', r) = text'[p]
  BY <1>0 DEF IndexesAreAnswers, Written, WrittenAt, RestOf
<1>1. ASSUME loaded[p]
      PROVE  \/ index[p][r] = Written(file, r)
             \/ pc[p] = "writing" /\ r = req[p] /\ Written(file, r) = text[p]
  BY <1>1 DEF Answered, IndexesAreAnswers
<1>2. ASSUME NEW q \in Procs, pc[q] \in Running, loaded[p]
      PROVE  q = p
  BY <1>2 DEF Inductive, OneAtATime, Registers
<1>3. CASE loaded[p] /\ index'[p] = index[p] /\ Quiet
  BY <1>1, <1>3 DEF Quiet
<1>4. ASSUME loaded[p], index'[p] = index[p],
             NEW q \in Procs, NEW part \in {"cut", "bare"}, AppendPart(q, part)
      PROVE  \/ index'[p][r] = Written(file', r)
             \/ pc'[p] = "writing" /\ r = req'[p] /\ Written(file', r) = text'[p]
  <2>1. /\ pc[q] = "recording" /\ pc'[q] = "writing" /\ req' = req /\ text' = text
        /\ file' = Append(file, PieceOf(q, part))
    BY <1>4 DEF AppendPart, Inductive, TypeOK
  <2>2. q = p
    BY <1>2, <1>4, <2>1 DEF Running
  <2>3. /\ PieceOf(p, part) \in Piece /\ PieceOf(p, part).part = part
        /\ PieceOf(p, part).req = req[p] /\ PieceOf(p, part).text = text[p]
    BY <2>1, <2>2, Writes
  <2>4. Written(file', r) = IF Written(file, r) = None /\ req[p] = r /\ part # "cut"
                            THEN text[p] ELSE Written(file, r)
    BY <1>0, <2>1, <2>2, <2>3, WrittenAppend
  <2>5. index[p][r] = Written(file, r)
    BY <1>1, <1>4, <2>1, <2>2
  <2> QED  BY <1>4, <2>1, <2>2, <2>4, <2>5
<1>5. CASE Readable(file) /\ file' = file /\ index'[p] = ParsedIndex(file)
  BY <1>0, <1>5, AnIndex, ReadableIsWritten DEF Answered
<1>6. CASE /\ AppendLine(p) \/ AppendRest(p)
           /\ loaded[p] /\ pc[p] \in {"recording", "writing"}
           /\ index'[p] = [index[p] EXCEPT ![req[p]] = text[p]]
  <2>1. PICK part \in {"line", "rest"} : file' = Append(file, PieceOf(p, part))
    BY <1>6 DEF AppendLine, AppendRest
  <2>2. /\ PieceOf(p, part) \in Piece /\ PieceOf(p, part).part = part
        /\ PieceOf(p, part).req = req[p] /\ PieceOf(p, part).text = text[p]
        /\ index[p][req[p]] = None /\ text[p] \in Texts
    BY <1>6, <2>1, Writes
  <2>3. Written(file', r) = IF Written(file, r) = None /\ req[p] = r
                            THEN text[p] ELSE Written(file, r)
    BY <1>0, <2>1, <2>2, WrittenAppend
  <2>4. index[p] \in [Requests -> Texts \cup {None}]
    BY DEF Inductive, TypeOK
  <2>5. index'[p][r] = IF r = req[p] THEN text[p] ELSE index[p][r]
    BY <1>6, <2>4
  <2> QED  BY <1>1, <1>6, <2>2, <2>3, <2>5
<1>7. ASSUME NEW q \in Procs, AppendLine(q) \/ AppendRest(q), loaded[p], index'[p] = index[p]
      PROVE  FALSE
  <2>1. pc[q] \in {"recording", "writing"}
    BY <1>7 DEF AppendLine, AppendRest
  <2>2. q = p
    BY <1>2, <1>7, <2>1 DEF Running
  <2>3. req[p] \in Requests /\ index[p][req[p]] = None /\ text[p] \in Texts
        /\ index[p] \in [Requests -> Texts \cup {None}]
    BY <2>1, <2>2, Writes DEF Inductive, TypeOK
  <2>4. index'[p] = [index[p] EXCEPT ![req[p]] = text[p]]
    BY <1>7, <2>2, <2>3 DEF AppendLine, AppendRest, Recorded, Inductive, TypeOK
  <2> QED  BY <1>7, <2>3, <2>4
<1> QED  BY <1>3, <1>4, <1>5, <1>6, <1>7, IndexMoves, WritingOrQuiet

(***************************************************************************)
(* The steps of the store.                                                 *)
(***************************************************************************)
Answers(f) == [r \in Requests |-> Written(f, r)]

Handed(all) == {s \in all : exclusive \/ s.mode = "replay"}

LEMMA StoreInit == Init => Store!Init
<1> SUFFICES ASSUME Init PROVE Store!Init
  OBVIOUS
<1>1. \A r : Written(file, r) = None
  BY DEF Init, Written, WrittenAt
<1> QED  BY <1>1 DEF Init, Store!Init

\* The store's variables and steps, in terms of the file and the replies.
LEMMA StoreSteps ==
  ASSUME exclusive' = exclusive
  PROVE  /\ Answers(file') = Answers(file) /\ Handed(served') = Handed(served) =>
              UNCHANGED Store!vars
         /\ \A r \in Requests, t \in Texts :
              /\ Written(file, r) = None
              /\ Answers(file') = [Answers(file) EXCEPT ![r] = t]
              /\ \/ Handed(served') = Handed(served)
                 \/ Handed(served') = Handed(served) \cup
                                        {[req |-> r, text |-> t, mode |-> "live"]}
              => Store!Next
         /\ \A r \in Requests, m \in Modes :
              /\ Written(file, r) # None
              /\ Answers(file') = Answers(file)
              /\ Handed(served') = Handed(served) \cup
                                     {[req |-> r, text |-> Written(file, r), mode |-> m]}
              => Store!Next
<1> USE DEF Answers, Handed
<1>1. ASSUME Answers(file') = Answers(file), Handed(served') = Handed(served)
      PROVE  UNCHANGED Store!vars
  BY <1>1 DEF Store!vars, Written, WrittenAt, RestOf
<1>2. ASSUME NEW r \in Requests, NEW t \in Texts,
             Written(file, r) = None,
             Answers(file') = [Answers(file) EXCEPT ![r] = t],
             \/ Handed(served') = Handed(served)
             \/ Handed(served') = Handed(served) \cup
                                    {[req |-> r, text |-> t, mode |-> "live"]}
      PROVE  Store!Next
  <2>1. Store!Record(r, t)
    BY <1>2 DEF Store!Record, Written, WrittenAt, RestOf
  <2> QED  BY <2>1 DEF Store!Next
<1>3. ASSUME NEW r \in Requests, NEW m \in Modes,
             Written(file, r) # None,
             Answers(file') = Answers(file),
             Handed(served') = Handed(served) \cup
                                 {[req |-> r, text |-> Written(file, r), mode |-> m]}
      PROVE  Store!Next
  <2>1. Store!Serve(r, m)
    BY <1>3 DEF Store!Serve, Written, WrittenAt, RestOf
  <2> QED  BY <2>1 DEF Store!Next
<1> QED  BY <1>1, <1>2, <1>3

\* A hit hands out the answer, if anybody may rely on it.
LEMMA HitServes ==
  ASSUME Inductive, Answered, [Next]_vars, NEW p \in Procs, NEW r \in Requests, CompleteHit(p, r),
         exclusive \/ mode[p] = "replay"
  PROVE  IndexOf(p)[r] = Written(file, r) /\ Written(file, r) # None
<1>0. file \in Files /\ IndexOf(p)[r] # None /\ pc[p] = "ready"
  BY FileGrows DEF CompleteHit, CanLookup
<1>1. CASE ~loaded[p]
  <2>1. IndexOf(p) = ParsedIndex(file) /\ Readable(file)
    BY <1>1 DEF IndexOf, CompleteHit, CanLookup
  <2> QED  BY <1>0, <2>1, AnIndex, ReadableIsWritten DEF Answered
<1>2. CASE loaded[p] /\ exclusive
  BY <1>0, <1>2 DEF IndexOf, Answered, IndexesAreAnswers
<1>3. CASE loaded[p] /\ mode[p] = "replay"
  <2>1. PICK e \in Files : IsPrefix(e, file) /\ Readable(e) /\ index[p] = ParsedIndex(e)
    BY <1>3 DEF Inductive, ReplayIndexes
  <2>2. Parts(e)
    BY <1>0, <2>1, PartsOfPrefix DEF Answered
  <2>3. IndexOf(p)[r] = Written(e, r)
    BY <1>3, <2>1, <2>2, AnIndex, ReadableIsWritten DEF IndexOf
  <2> QED  BY <1>0, <2>1, <2>3, WrittenStays
<1> QED  BY <1>1, <1>2, <1>3

\* The end of a record makes it the answer, unless it has one; a caller that
\* may rely on it is told the answer.
LEMMA RecordedIsAStoreStep ==
  ASSUME Inductive, Answered, [Next]_vars, NEW p \in Procs, NEW part \in {"line", "rest"},
         pc[p] = IF part = "line" THEN "recording" ELSE "writing",
         file' = Append(file, PieceOf(p, part)), Recorded(p)
  PROVE  Store!Next \/ UNCHANGED Store!vars
<1> DEFINE r == req[p]
           t == text[p]
           reply == [req |-> r, text |-> t, mode |-> "live"]
<1>0. file \in Files /\ file' \in Files /\ exclusive' = exclusive
  BY FileGrows
<1>1. /\ PieceOf(p, part) \in Piece /\ PieceOf(p, part).part = part
      /\ PieceOf(p, part).req = r /\ PieceOf(p, part).text = t
      /\ r \in Requests /\ t \in Texts /\ mode[p] = "live"
      /\ loaded[p] /\ index[p][r] = None
  BY Writes
<1>2. \A q : Written(file', q) = IF Written(file, q) = None /\ r = q THEN t ELSE Written(file, q)
  BY <1>0, <1>1, WrittenAppend
<1>3. served' = served \cup {reply}
  BY <1>1 DEF Recorded
<1>4. Handed(served') = IF exclusive THEN Handed(served) \cup {reply} ELSE Handed(served)
  BY <1>3 DEF Handed
<1>5. exclusive => Written(file, r) \in {None, t}
  BY <1>1 DEF Answered, IndexesAreAnswers
<1> HIDE DEF reply
<1>6. CASE Written(file, r) = None
  <2>1. Answers(file') = [Answers(file) EXCEPT ![r] = t]
    BY <1>2, <1>6 DEF Answers
  <2>2. \/ Handed(served') = Handed(served)
        \/ Handed(served') = Handed(served) \cup {[req |-> r, text |-> t, mode |-> "live"]}
    BY <1>4 DEF reply
  <2> QED  BY <1>0, <1>1, <1>6, <2>1, <2>2, StoreSteps
<1>7. CASE Written(file, r) # None
  <2>1. Answers(file') = Answers(file)
    BY <1>2, <1>7 DEF Answers
  <2>2. CASE ~exclusive
    BY <1>0, <1>4, <2>1, <2>2, StoreSteps
  <2>3. CASE exclusive
    <3>1. Written(file, r) = t
      BY <1>5, <1>7, <2>3
    <3>2. Handed(served') = Handed(served) \cup
                              {[req |-> r, text |-> Written(file, r), mode |-> "live"]}
      BY <1>4, <2>3, <3>1 DEF reply
    <3>3. "live" \in Modes
      BY DEF Modes
    <3> QED  BY <1>0, <1>1, <1>7, <2>1, <3>2, <3>3, StoreSteps
  <2> QED  BY <2>2, <2>3
<1> QED  BY <1>6, <1>7

LEMMA StoreStep ==
  ASSUME Inductive, Answered, [Next]_vars
  PROVE  Store!Next \/ UNCHANGED Store!vars
<1>0. file \in Files /\ file' \in Files /\ exclusive' = exclusive
  BY FileGrows
<1>1. ASSUME NEW p \in Procs, NEW r \in Requests, CompleteHit(p, r)
      PROVE  Store!Next \/ UNCHANGED Store!vars
  <2> DEFINE reply == [req |-> r, text |-> IndexOf(p)[r], mode |-> mode[p]]
  <2>1. file' = file /\ served' = served \cup {reply} /\ mode[p] \in Modes
    BY <1>1 DEF CompleteHit, Inductive, TypeOK
  <2>2. reply.mode = mode[p]
    OBVIOUS
  <2> HIDE DEF reply
  <2>3. CASE exclusive \/ mode[p] = "replay"
    <3>1. Handed(served') = Handed(served) \cup {reply}
      BY <2>1, <2>2, <2>3 DEF Handed
    <3>2. /\ reply = [req |-> r, text |-> Written(file, r), mode |-> mode[p]]
          /\ Written(file, r) # None
      BY <1>1, <2>3, HitServes DEF reply
    <3> QED  BY <1>0, <2>1, <3>1, <3>2, StoreSteps
  <2>4. CASE ~(exclusive \/ mode[p] = "replay")
    <3>1. Handed(served') = Handed(served)
      BY <2>1, <2>2, <2>4 DEF Handed
    <3> QED  BY <1>0, <2>1, <3>1, StoreSteps
  <2> QED  BY <2>3, <2>4
<1>2. ASSUME NEW p \in Procs, AppendLine(p)
      PROVE  Store!Next \/ UNCHANGED Store!vars
  <2>1. pc[p] = "recording" /\ file' = Append(file, PieceOf(p, "line")) /\ Recorded(p)
    BY <1>2 DEF AppendLine
  <2> QED  BY <2>1, RecordedIsAStoreStep
<1>3. ASSUME NEW p \in Procs, AppendRest(p)
      PROVE  Store!Next \/ UNCHANGED Store!vars
  <2>1. pc[p] = "writing" /\ file' = Append(file, PieceOf(p, "rest")) /\ Recorded(p)
    BY <1>3 DEF AppendRest
  <2> QED  BY <2>1, RecordedIsAStoreStep
<1>4. ASSUME NEW p \in Procs, NEW part \in {"cut", "bare"}, AppendPart(p, part)
      PROVE  Store!Next \/ UNCHANGED Store!vars
  <2>1. /\ pc[p] = "recording" /\ file' = Append(file, PieceOf(p, part)) /\ served' = served
    BY <1>4 DEF AppendPart
  <2>2. /\ PieceOf(p, part) \in Piece /\ PieceOf(p, part).part = part
        /\ PieceOf(p, part).req = req[p] /\ PieceOf(p, part).text = text[p]
        /\ req[p] \in Requests /\ text[p] \in Texts
    BY <2>1, Writes
  <2>3. \A q : Written(file', q) = IF Written(file, q) = None /\ req[p] = q /\ part # "cut"
                                   THEN text[p] ELSE Written(file, q)
    BY <1>0, <2>1, <2>2, WrittenAppend
  <2>4. Handed(served') = Handed(served)
    BY <2>1
  <2>5. CASE Written(file, req[p]) = None /\ part # "cut"
    <3>1. Answers(file') = [Answers(file) EXCEPT ![req[p]] = text[p]]
      BY <2>3, <2>5 DEF Answers
    <3> QED  BY <1>0, <2>2, <2>4, <2>5, <3>1, StoreSteps
  <2>6. CASE ~(Written(file, req[p]) = None /\ part # "cut")
    <3>1. Answers(file') = Answers(file)
      BY <2>3, <2>6 DEF Answers
    <3> QED  BY <1>0, <2>4, <3>1, StoreSteps
  <2> QED  BY <2>5, <2>6
<1>5. CASE ~\E p \in Procs : \/ AppendLine(p) \/ AppendRest(p)
                             \/ \E part \in {"cut", "bare"} : AppendPart(p, part)
                             \/ \E r \in Requests : CompleteHit(p, r)
  <2>1. file' = file /\ served' = served
    BY <1>5 DEF Next, Step, vars, Boot, CompleteUnpinned, CompleteUnreadable,
                CompleteReplayMiss, CompleteLiveMiss, ProviderReplies, Stop
  <2> QED  BY <1>0, <2>1, StoreSteps
<1> QED  BY <1>1, <1>2, <1>3, <1>4, <1>5

\* The ledger is a replay store: the first completed write of a request is its
\* answer for ever, and every reply is that answer: every one when one process
\* at a time holds the ledger, and those of replays when several do (ledger.py:
\* "entries are never rewritten").
THEOREM LedgerImplementsStore == Spec => ImplementsStore
<1>1. Init => Answered
  BY DEF Init, Answered, Parts, WritersHaveParts, IndexesAreAnswers
<1>2. Inductive /\ Answered /\ [Next]_vars => Answered'
  BY PartsStep, WritersHavePartsStep, IndexesAreAnswersStep DEF Answered
<1>3. Inductive /\ Answered /\ [Next]_vars => [Store!Next]_(Store!vars)
  BY StoreStep
<1> QED  BY <1>1, <1>2, <1>3, StoreInit, Invariance, PTL
            DEF Spec, ImplementsStore, Store!Spec
===============================================================================
