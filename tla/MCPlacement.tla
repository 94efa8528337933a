----------------------------- MODULE MCPlacement -----------------------------
(* Placement with the stage table of handler/placement.go. *)
EXTENDS Placement

Stage(ss, l, min) == [skills |-> ss, level |-> l, minPass |-> min, maxItems |-> 3]

\* Skills are numbered in the order of the table.
RealStages ==
    << Stage(<<1>>, 1, 2), Stage(<<2, 3>>, 1, 2), Stage(<<4, 5>>, 1, 1),
       Stage(<<6, 7, 8>>, 1, 2), Stage(<<9, 10, 11>>, 2, 2), Stage(<<12, 13, 14>>, 3, 2) >>
RealStageLevels == <<1, 1, 1, 2, 2, 3>>
AllSkills == 1..14
=============================================================================
