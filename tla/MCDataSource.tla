---------------------------- MODULE MCDataSource -----------------------------
(* Instances of DataSource for TLC.                                            *)
EXTENDS DataSource, TLC

\* Requests are interchangeable, and so are settings.
Symmetry == Permutations(Request) \union Permutations(Setting)
=============================================================================
