----------------------------- MODULE MCCallLedger -----------------------------
(* TLC instances of CallLedger.                                            *)
EXTENDS CallLedger
==============================================================================
