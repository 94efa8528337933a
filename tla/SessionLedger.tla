---------------------------- MODULE SessionLedger ----------------------------
(***************************************************************************)
(* What a backend of the learning app promises about practice sessions and *)
(* the XP they earn: a session belongs to one learner, every answer adds   *)
(* one to its progress and something to its XP, and completing it credits  *)
(* its learner with all it has earned.  A completed session may be         *)
(* answered further and completed again, which credits it again.  A        *)
(* backend that cannot store credit keeps the rest of the promise.         *)
(* SessionLifecycle implements it (SessionRefinement).                     *)
(***************************************************************************)
EXTENDS Integers

CONSTANTS
    Sessions, Learners,
    Gains,     \* the XP an answer may earn
    Credits    \* whether completions are credited

VARIABLES
    owner,     \* owner[s]: the learner of a session that was started
    status,    \* "none", "active", "completed"
    progress,  \* progress[s]: answers counted and XP earned
    credit     \* credit[l]: XP credited to a learner

ledger == <<owner, status, progress, credit>>

Zero == [n |-> 0, xp |-> 0]

Init ==
    /\ owner = [s \in Sessions |-> "nobody"]
    /\ status = [s \in Sessions |-> "none"]
    /\ progress = [s \in Sessions |-> Zero]
    /\ credit = [l \in Learners |-> 0]

Start(s, l) ==
    /\ status[s] = "none"
    /\ status' = [status EXCEPT ![s] = "active"]
    /\ owner' = [owner EXCEPT ![s] = l]
    /\ UNCHANGED <<progress, credit>>

Answer(s, xp) ==
    /\ status[s] # "none"
    /\ progress' = [progress EXCEPT ![s] = [n |-> @.n + 1, xp |-> @.xp + xp]]
    /\ UNCHANGED <<owner, status, credit>>

Complete(s) ==
    /\ status[s] # "none"
    /\ status' = [status EXCEPT ![s] = "completed"]
    /\ credit' = IF Credits
                 THEN [credit EXCEPT ![owner[s]] = @ + progress[s].xp] ELSE credit
    /\ UNCHANGED <<owner, progress>>

Next ==
    \/ \E s \in Sessions, l \in Learners : Start(s, l)
    \/ \E s \in Sessions, xp \in Gains : Answer(s, xp)
    \/ \E s \in Sessions : Complete(s)

Spec == Init /\ [][Next]_ledger
=============================================================================
