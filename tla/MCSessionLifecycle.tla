------------------------- MODULE MCSessionLifecycle -------------------------
(* Small instances of SessionLifecycle for TLC.                            *)
EXTENDS SessionRefinement

CONSTANTS s1, s2, r1, r2

\* A wrong answer earns 3 or 5 XP, a right one 10 or 15: the bonuses for
\* weak skills and streaks.
FixedXP == [b \in BOOLEAN |-> IF b THEN {10} ELSE {3}]
BonusXP == [b \in BOOLEAN |-> IF b THEN {10, 15} ELSE {3, 5}]

\* Thresholds low enough for a session of two answers to change the level.
Thresholds == [l \in 2..4 |-> 12 * (l - 1)]
=============================================================================
