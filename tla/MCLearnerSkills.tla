--------------------------- MODULE MCLearnerSkills ---------------------------
(* A small instance of LearnerSkills for TLC: two skills on two levels.   *)
EXTENDS LearnerSkills

CONSTANTS a, b

MCSkills == {a, b}
MCOrder  == <<a, b>>
MCLevel  == (a :> 1) @@ (b :> 2)
MCPrereqs == (a :> {}) @@ (b :> {a})

Stage(ss, l, min) == [skills |-> ss, level |-> l, minPass |-> min, maxItems |-> 2]
MCStages == <<Stage(<<a>>, 1, 1), Stage(<<b>>, 2, 1)>>
MCStageLevels == <<1, 2>>

\* A plan of both skills finds one atom on level 1, and two for b on level 2.
Atom(i, ss, l) == [id |-> i, skills |-> ss, level |-> l, diff |-> 40, quality |-> i]
MCContent == {Atom(1, <<a>>, 1), Atom(2, <<b>>, 2), Atom(3, <<b>>, 2)}

Right(err) == [right |-> TRUE, hints |-> 0, slow |-> FALSE, err |-> err]
Wrong(err) == [right |-> FALSE, hints |-> 0, slow |-> FALSE, err |-> err]
MCAttempts == {Right("none"), Right("avoidance"), Wrong("transfer")}

\* Requests are interchangeable.
RequestSymmetry == Permutations(Requests)
=============================================================================
