----------------------------- MODULE ReplayStore -----------------------------
(***************************************************************************)
(* What the call ledger promises to the code above it (llm/ledger.py,      *)
(* module comment: "a request hash maps to the response that was recorded  *)
(* for it; entries are never rewritten").  A request gets one answer, once *)
(* and for all; every reply a caller ever sees is that answer.             *)
(***************************************************************************)
CONSTANTS
  Requests,   \* request hashes
  Texts,      \* response texts
  Modes,      \* how a client may be opened ("live", "replay")
  NoText      \* "no response recorded"

VARIABLES
  answer,     \* the recorded response of each request
  served      \* every reply handed to a caller: request, text, client mode

vars == <<answer, served>>

Reply == [req: Requests, text: Texts, mode: Modes]

Init ==
  /\ answer = [r \in Requests |-> NoText]
  /\ served = {}

(* A response is recorded; the caller that paid for it may or may not live *)
(* long enough to receive it.                                              *)
Record(r, t) ==
  /\ answer[r] = NoText
  /\ answer' = [answer EXCEPT ![r] = t]
  /\ served' \in {served, served \cup {[req |-> r, text |-> t, mode |-> "live"]}}

(* A recorded response is handed out, as often as anyone asks.             *)
Serve(r, m) ==
  /\ answer[r] # NoText
  /\ served' = served \cup {[req |-> r, text |-> answer[r], mode |-> m]}
  /\ UNCHANGED answer

Next ==
  \/ \E r \in Requests, t \in Texts : Record(r, t)
  \/ \E r \in Requests, m \in Modes : Serve(r, m)

Spec == Init /\ [][Next]_vars
==============================================================================
