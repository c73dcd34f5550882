-------------------------- MODULE MCSourceSession --------------------------
(* Instances of SourceSession for TLC.  Numbers range over both sides of the  *)
(* widths given in the .cfg.                                                  *)
EXTENDS SourceSession, TLC

MCValue == (-20..20) \union Text

\* Two strings that are not UTF-8 may become the same one.
Repairing == LET t == CHOOSE u \in Text : u \notin Malformed IN [u \in Malformed |-> t]

Symmetric == Permutations(Name) \union Permutations(Session)
=============================================================================
