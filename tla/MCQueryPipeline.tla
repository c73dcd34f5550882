--------------------------- MODULE MCQueryPipeline ---------------------------
(* Instances of QueryPipeline for TLC.                                         *)
EXTENDS QueryPipeline

CONSTANTS m1, m2, j1, j2

\* One message per job, as the outbox publishes.
OneJob == [m \in Message |-> j1]
TwoJobs == [m \in Message |-> IF m = m1 THEN j1 ELSE j2]

\* Tokens never run out: every row and every worker may remember one.
ASSUME EnoughTokens == Cardinality(Token) >= Cardinality(Message) + Cardinality(Worker)
=============================================================================
