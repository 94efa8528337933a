----------------------------- MODULE MCDualWrite -----------------------------
(* A small instance of DualWrite for TLC: a chain of three skills. *)
EXTENDS DualWrite

\* IDs, addresses and writers are interchangeable.
Interchangeable == Permutations(Users) \cup Permutations(Profiles)
                       \cup Permutations(Emails) \cup Permutations(Writers)

\* "b" needs "a" and "c" needs both; "a" and "b" are A1.
MCSkills  == {"a", "b", "c"}
MCLevel   == [s \in MCSkills |-> IF s = "c" THEN 2 ELSE 1]
MCPrereqs == [a |-> {}, b |-> {"a"}, c |-> {"a", "b"}]
=============================================================================
