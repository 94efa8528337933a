--------------------------- MODULE MCRateLimiter ---------------------------
(* Small instances of RateLimiter for TLC.                                 *)
EXTENDS RateLimiter

\* Ivan has a free account and upgrades; Olga's family account counts as free.
Tiers == [u \in {"ivan", "olga"} |-> IF u = "ivan" THEN {"free", "premium"} ELSE {"family"}]
OneFree == [u \in {"ivan"} |-> {"free"}]
=============================================================================
