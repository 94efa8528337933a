-------------------------- MODULE SessionRefinement --------------------------
(***************************************************************************)
(* One request at a time and with no statement failing, SessionLifecycle   *)
(* implements SessionLedger.  CompleteSession and RecordActivity are two   *)
(* statements: from the first on, the XP it wrote is owed to the learner.  *)
(* With the learner_streaks that StreakStore expects every completion is   *)
(* credited; with the one the migrations leave (StreaksUsable = FALSE)     *)
(* RecordActivity errs, nothing is ever owed, and no completion is.        *)
(***************************************************************************)
EXTENDS SessionLifecycle

Learner == "learner"

\* The XP of a session that is completed and not yet credited (at most one
\* request is in flight).
Crediting == {r \in Reqs : req[r].at = "record"}
Uncredited == IF ~StreaksUsable \/ Crediting = {} THEN 0 ELSE req[CHOOSE r \in Crediting : TRUE].row.xp

Ledger == INSTANCE SessionLedger WITH
    Learners <- {Learner},
    Gains    <- XpOf[TRUE] \cup XpOf[FALSE],
    Credits  <- StreaksUsable,
    owner    <- [s \in Sessions |-> IF sess[s].status = "none" THEN "nobody" ELSE Learner],
    status   <- [s \in Sessions |-> sess[s].status],
    progress <- [s \in Sessions |-> [n |-> sess[s].idx, xp |-> sess[s].xp]],
    credit   <- [l \in {Learner} |-> streak.xp + Uncredited]

\* Every answer moves its session once, and the learner is credited exactly
\* what a session has earned when it is completed, although six statements of
\* three tables are in between; or, where learner_streaks lacks the columns
\* those statements name, nothing.
KeepsLedger == Ledger!Spec
=============================================================================
