------------------------------ MODULE MCOutbox -------------------------------
(* Instances of Outbox for TLC.                                                *)
EXTENDS Outbox

\* Tokens never run out: every row and every dispatcher may remember one.
ASSUME EnoughTokens == Cardinality(Token) >= Cardinality(Event) + Cardinality(Dispatcher)
=============================================================================
