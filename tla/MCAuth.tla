------------------------------- MODULE MCAuth -------------------------------
(* Small instances of Auth for TLC.                                        *)
EXTENDS Auth, TLC

CONSTANTS u1, u2, r1, r2, f1, f2

\* Requests are alike, and so are the spellings of a token: no definition
\* chooses among them.
Alike == Permutations(Reqs) \union Permutations(Spellings)
=============================================================================
