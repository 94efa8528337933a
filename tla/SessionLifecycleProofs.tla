----------------------- MODULE SessionLifecycleProofs -----------------------
(***************************************************************************)
(* What holds of SessionLifecycle.  First, for every set of sessions and   *)
(* requests, every bound and every table of XP values: types, that indices *)
(* and attempts never overcount, that a completed session stays completed. *)
(* Then, when one request runs at a time: progress, summaries, streaks and *)
(* levels are exact, and SessionLedger is implemented.  Overlapping        *)
(* requests break that: two that read the same row lose an answer          *)
(* (SessionLostUpdate.cfg).                                                *)
(***************************************************************************)
EXTENDS SessionRefinement, FiniteSetTheorems, TLAPS

----------------------------------------------------------------------------
(* Accuracy arithmetic.                                                    *)

\* Integer division by a positive number lies between its bounds.
LEMMA DivBounds ==
    ASSUME NEW x \in Nat, NEW y \in Nat \ {0}, NEW k \in Nat, x < y * (k + 1)
    PROVE  x \div y \in 0..k
<1>1. x \div y \in Int /\ x % y \in 0..(y - 1) /\ x = y * (x \div y) + (x % y)
  BY SMT
<1> DEFINE q == x \div y
<1>2. q \in Int /\ y * q <= x /\ x < y * (q + 1)
  BY <1>1, SMT
<1> HIDE DEF q
<1>3. q < k + 1
  <2> SUFFICES ASSUME q >= k + 1 PROVE FALSE  BY <1>2
  <2>1. y * q >= y * (k + 1)  BY <1>2, SMT
  <2> QED  BY <2>1, <1>2, SMT
<1>4. q >= 0
  <2> SUFFICES ASSUME q + 1 <= 0 PROVE FALSE  BY <1>2
  <2>1. y * (q + 1) <= 0  BY <1>2, SMT
  <2> QED  BY <2>1, <1>2, SMT
<1> QED  BY <1>2, <1>3, <1>4 DEF q

\* The unit of accuracy, whose value is not used below.
LEMMA UnitNat == Unit \in Nat
BY DEF Unit

\* A mean of accuracies is an accuracy, rounding included.
LEMMA RoundedRange ==
    ASSUME NEW num \in Nat, NEW den \in Nat \ {0}, num <= Unit * den
    PROVE  Rounded(num, den) \in 0..Unit
<1>1. 2 * num + den \in Nat /\ 2 * den \in Nat \ {0}  OBVIOUS
<1>2. \A k \in Nat : num <= k * den => 2 * num + den < (2 * den) * (k + 1)  BY SMT
<1>3. 2 * num + den < (2 * den) * (Unit + 1)  BY <1>2, UnitNat
<1> QED  BY <1>1, <1>3, UnitNat, DivBounds DEF Rounded

\* The counters Submit computes from a well-typed row are well typed.
LEMMA AdvancedType ==
    ASSUME NEW row \in Row, NEW right \in BOOLEAN, NEW gain \in Nat
    PROVE  /\ Advanced(row, right, gain).idx \in Nat
           /\ Advanced(row, right, gain).xp \in Nat
           /\ Advanced(row, right, gain).acc \in 0..Unit
<1> DEFINE m == row.acc * row.idx
           num == m + (IF right THEN Unit ELSE 0)
           den == row.idx + 1
<1>1. row.idx \in Nat /\ row.xp \in Nat /\ row.acc \in 0..Unit  BY DEF Row
<1>2. \A u \in Nat : \A a \in 0..u, i \in Nat : a * i \in Nat /\ a * i <= u * i
  BY SMT
<1>3. m \in Nat /\ m <= Unit * row.idx  BY <1>1, <1>2, UnitNat
<1> HIDE DEF m
<1>4. num \in Nat /\ den \in Nat \ {0} /\ num <= Unit * den  BY <1>1, <1>3, UnitNat
<1> HIDE DEF num, den
<1>5. Rounded(num, den) \in 0..Unit  BY <1>4, RoundedRange
<1>6. Advanced(row, right, gain) =
        [idx |-> row.idx + 1, xp |-> row.xp + gain, acc |-> Rounded(num, den)]
  BY DEF Advanced, num, m, den
<1> QED  BY <1>1, <1>5, <1>6

\* A level is a number.
LEMMA LevelType == \A total : LevelFromXP(total) \in Nat
<1> TAKE total
<1> DEFINE S == {l \in DOMAIN XPForLevel : XPForLevel[l] <= total}
<1>1. IsFiniteSet(S)  BY BoundsAssumption, FS_Subset
<1>2. Cardinality(S) \in Nat  BY <1>1, FS_CardinalityType
<1> QED  BY <1>2 DEF LevelFromXP

\* The streak row RecordActivity writes is well typed.
LEMMA RecordedType ==
    ASSUME NEW st \in StreakRow, NEW today \in Nat, NEW xp \in Nat
    PROVE  Recorded(st, today, xp) \in StreakRow
<1>1. /\ st.cur \in Nat /\ st.longest \in Nat /\ st.last \in Nat
      /\ st.sessions \in Nat /\ st.xp \in Nat /\ st.level \in Nat
  BY DEF StreakRow
<1> QED  BY <1>1 DEF Recorded, StreakRow

----------------------------------------------------------------------------
(* Types.                                                                  *)

\* A request that ended, and the row of a session that does not exist.
LEMMA IdleType == Idle \in ReqState /\ None \in Row /\ NoStreak \in StreakRow
BY UnitNat DEF Idle, ReqState, None, Row, NoStreak, StreakRow

\* Initially every variable has its type.
LEMMA TypeInit == Init => TypeOK
<1> SUFFICES ASSUME Init PROVE TypeOK  OBVIOUS
<1>1. \A r \in Reqs : req[r].at = "idle"  BY DEF Init, Idle
<1> QED  BY <1>1, IdleType DEF Init, TypeOK

\* The requests keep their type: a step moves one of them, or ends them all.
LEMMA ReqStep ==
    ASSUME TypeOK, Next
    PROVE  /\ req' \in [Reqs -> ReqState]
           /\ \A r \in Reqs : req'[r].at # "idle" => req'[r].s \in Sessions
<1> USE IdleType
<1> DEFINE Goal == /\ req' \in [Reqs -> ReqState]
                   /\ \A r \in Reqs : req'[r].at # "idle" => req'[r].s \in Sessions
<1>0. ASSUME NEW r \in Reqs, NEW v \in ReqState, req' = [req EXCEPT ![r] = v],
             v.at = "idle" \/ v.s \in Sessions
      PROVE  Goal
  BY <1>0 DEF TypeOK
<1>a. ASSUME NEW r \in Reqs, req' = [req EXCEPT ![r] = Idle] PROVE Goal
  BY <1>a, <1>0 DEF Idle
<1> HIDE DEF Goal
<1>1. ASSUME NEW r \in Reqs, NEW s \in Sessions, GenerateBegin(r, s) PROVE Goal
  <2> DEFINE v == [Idle EXCEPT !.at = "create", !.s = s]
  <2>1. v \in ReqState /\ v.s = s  BY DEF Idle, ReqState
  <2> QED  BY <2>1, <1>0, <1>1 DEF GenerateBegin
<1>2. ASSUME NEW r \in Reqs, GenerateCreate(r) PROVE Goal
  <2> DEFINE v == [req[r] EXCEPT !.at = "items"]
  <2>1. v \in ReqState /\ v.s \in Sessions  BY <1>2 DEF GenerateCreate, TypeOK, ReqState
  <2>2. req' = [req EXCEPT ![r] = v] \/ req' = [req EXCEPT ![r] = Idle]
    BY <1>2 DEF GenerateCreate, TypeOK
  <2> QED  BY <2>1, <2>2, <1>0, <1>a
<1>3. ASSUME NEW r \in Reqs, GenerateItems(r) PROVE Goal
  BY <1>3, <1>a DEF GenerateItems
<1>4. ASSUME NEW r \in Reqs, NEW s \in Sessions, NEW b \in BOOLEAN, SubmitBegin(r, s, b)
      PROVE Goal
  <2> PICK at \in {"upsert", "save"}, x \in XpOf[b] :
        req' = [req EXCEPT ![r] = [Idle EXCEPT !.at = at, !.s = s, !.gain = x,
                                       !.right = b, !.n = attempts]]
    BY <1>4 DEF SubmitBegin
  <2> DEFINE v == [Idle EXCEPT !.at = at, !.s = s, !.gain = x, !.right = b, !.n = attempts]
  <2>1. x \in Nat /\ attempts \in Nat  BY BoundsAssumption DEF TypeOK
  <2>2. v \in ReqState /\ v.s = s  BY <2>1 DEF Idle, ReqState
  <2> QED  BY <2>2, <1>0
<1>5. ASSUME NEW r \in Reqs, SubmitUpsert(r) PROVE Goal
  <2> DEFINE v == [req[r] EXCEPT !.at = "save"]
  <2>1. v \in ReqState /\ v.s \in Sessions  BY <1>5 DEF SubmitUpsert, TypeOK, ReqState
  <2>2. req' = [req EXCEPT ![r] = v]  BY <1>5 DEF SubmitUpsert, TypeOK
  <2> QED  BY <2>1, <2>2, <1>0
<1>6. ASSUME NEW r \in Reqs, SubmitSave(r) PROVE Goal
  <2> DEFINE v == [req[r] EXCEPT !.at = "refetch"]
  <2>1. v \in ReqState /\ v.s \in Sessions  BY <1>6 DEF SubmitSave, TypeOK, ReqState
  <2>2. req' = [req EXCEPT ![r] = v] \/ req' = [req EXCEPT ![r] = Idle]
    BY <1>6 DEF SubmitSave, TypeOK
  <2> QED  BY <2>1, <2>2, <1>0, <1>a
<1>7. ASSUME NEW r \in Reqs, SubmitRefetch(r) PROVE Goal
  <2> DEFINE v == [req[r] EXCEPT !.at = "update", !.row = sess[req[r].s]]
  <2>1. v \in ReqState /\ v.s \in Sessions  BY <1>7 DEF SubmitRefetch, TypeOK, ReqState
  <2>2. req' = [req EXCEPT ![r] = v] \/ req' = [req EXCEPT ![r] = Idle]
    BY <1>7 DEF SubmitRefetch, TypeOK
  <2> QED  BY <2>1, <2>2, <1>0, <1>a
<1>8. ASSUME NEW r \in Reqs, SubmitUpdate(r) PROVE Goal
  BY <1>8, <1>a DEF SubmitUpdate
<1>9. ASSUME NEW r \in Reqs, NEW s \in Sessions, CompleteBegin(r, s) PROVE Goal
  <2> DEFINE v == [Idle EXCEPT !.at = "complete", !.s = s, !.row = sess[s]]
  <2>1. v \in ReqState /\ v.s = s  BY DEF Idle, ReqState, TypeOK
  <2> QED  BY <2>1, <1>0, <1>9 DEF CompleteBegin
<1>10. ASSUME NEW r \in Reqs, CompleteWrite(r) PROVE Goal
  <2> DEFINE v == [req[r] EXCEPT !.at = "record", !.today = day]
  <2>1. v \in ReqState /\ v.s \in Sessions  BY <1>10 DEF CompleteWrite, TypeOK, ReqState
  <2>2. req' = [req EXCEPT ![r] = v] \/ req' = [req EXCEPT ![r] = Idle]
    BY <1>10 DEF CompleteWrite, TypeOK
  <2> QED  BY <2>1, <2>2, <1>0, <1>a
<1>11. ASSUME NEW r \in Reqs, CompleteRecord(r) PROVE Goal
  <2> DEFINE v == [req[r] EXCEPT !.at = "stats"]
  <2>1. v \in ReqState /\ v.s \in Sessions  BY <1>11 DEF CompleteRecord, TypeOK, ReqState
  <2>2. req' = [req EXCEPT ![r] = v]  BY <1>11 DEF CompleteRecord, TypeOK
  <2> QED  BY <2>1, <2>2, <1>0
<1>12. ASSUME NEW r \in Reqs, CompleteStats(r) PROVE Goal
  <2> PICK n \in Nat : req' = [req EXCEPT ![r] = [req[r] EXCEPT !.at = "level", !.total = n]]
    BY <1>12 DEF CompleteStats, TypeOK, StreakRow
  <2> DEFINE v == [req[r] EXCEPT !.at = "level", !.total = n]
  <2>1. v \in ReqState /\ v.s \in Sessions  BY <1>12 DEF CompleteStats, TypeOK, ReqState
  <2> QED  BY <2>1, <1>0
<1>13. ASSUME NEW r \in Reqs, CompleteLevel(r) PROVE Goal
  BY <1>13, <1>a DEF CompleteLevel
<1>14. ASSUME NextDay PROVE Goal
  BY <1>14 DEF NextDay, TypeOK, Goal
<1>15. ASSUME Stop PROVE Goal
  BY <1>15 DEF Stop, TypeOK, Idle, Goal
<1>16. Goal
  BY <1>1, <1>2, <1>3, <1>4, <1>5, <1>6, <1>7, <1>8, <1>9, <1>10, <1>11,
     <1>12, <1>13, <1>14, <1>15, Zenon DEF Next
<1> QED  BY <1>16 DEF Goal

\* So do the session rows: Submit and Complete write fields of rows they read.
LEMMA SessStep ==
    ASSUME TypeOK, Next
    PROVE  sess' \in [Sessions -> Row]
<1>1. ASSUME NEW r \in Reqs, GenerateCreate(r) PROVE sess' \in [Sessions -> Row]
  <2>1. [None EXCEPT !.status = "active"] \in Row  BY UnitNat DEF None, Row
  <2> QED  BY <2>1, <1>1 DEF GenerateCreate, TypeOK
<1>2. ASSUME NEW r \in Reqs, SubmitUpdate(r) PROVE sess' \in [Sessions -> Row]
  <2> DEFINE new == Advanced(req[r].row, req[r].right, req[r].gain)
  <2>1. req[r].row \in Row /\ req[r].right \in BOOLEAN /\ req[r].gain \in Nat
    BY DEF TypeOK, ReqState
  <2>2. new.idx \in Nat /\ new.xp \in Nat /\ new.acc \in 0..Unit
    BY <2>1, AdvancedType
  <2>3. req[r].s \in Sessions  BY <1>2 DEF SubmitUpdate, TypeOK
  <2>4. \/ sess' = sess
        \/ sess' = [sess EXCEPT ![req[r].s].idx = new.idx, ![req[r].s].xp = new.xp,
                                ![req[r].s].acc = new.acc]
    BY <1>2 DEF SubmitUpdate
  <2> DEFINE v == [status |-> sess[req[r].s].status, idx |-> new.idx, xp |-> new.xp,
                   acc |-> new.acc]
  <2> HIDE DEF new
  <2>5. sess' = sess \/ sess' = [sess EXCEPT ![req[r].s] = v]
    BY <2>3, <2>4 DEF TypeOK, Row
  <2>6. v \in Row  BY <2>2, <2>3 DEF TypeOK, Row
  <2> HIDE DEF v
  <2> QED  BY <2>3, <2>5, <2>6 DEF TypeOK
<1>3. ASSUME NEW r \in Reqs, CompleteWrite(r) PROVE sess' \in [Sessions -> Row]
  <2>1. req[r].row.xp \in Nat /\ req[r].row.acc \in 0..Unit
    BY DEF TypeOK, ReqState, Row
  <2> QED  BY <2>1, <1>3 DEF CompleteWrite, TypeOK, Row
<1>4. CASE UNCHANGED sess
  BY <1>4 DEF TypeOK
<1> QED
  BY <1>1, <1>2, <1>3, <1>4 DEF Next, dbVars, GenerateBegin, GenerateItems,
     SubmitBegin, SubmitUpsert, SubmitSave, SubmitRefetch, CompleteBegin,
     CompleteRecord, CompleteStats, CompleteLevel, NextDay, Stop

\* Every step keeps the types.
LEMMA TypeStep == TypeOK /\ [Next]_vars => TypeOK'
<1> SUFFICES ASSUME TypeOK, Next PROVE TypeOK'
  BY DEF TypeOK, vars
<1>0. req' \in [Reqs -> ReqState] /\ sess' \in [Sessions -> Row]
  BY ReqStep, SessStep
<1>1. \A r \in Reqs : req'[r].at # "idle" => req'[r].s \in Sessions
  BY ReqStep
<1> DEFINE Rest == /\ items' \in [Sessions -> Nat]
                   /\ results' \in [Sessions -> [n : Nat, right : Nat, xp : Nat]]
                   /\ attempts' \in Nat /\ streak' \in StreakRow /\ day' \in Nat
                   /\ calls' \in [submit : Nat, complete : Nat]
                   /\ faults' \in Nat /\ active' \subseteq Nat
<1>2. ASSUME NEW r \in Reqs, SubmitSave(r) PROVE Rest
  <2>1. req[r].gain \in Nat  BY DEF TypeOK, ReqState
  <2> QED  BY <2>1, <1>2 DEF SubmitSave, TypeOK, Fault
<1>3. ASSUME NEW r \in Reqs, CompleteRecord(r) PROVE Rest
  <2>1. req[r].today \in Nat /\ req[r].row.xp \in Nat  BY DEF TypeOK, ReqState, Row
  <2>2. Recorded(streak, req[r].today, req[r].row.xp) \in StreakRow
    BY <2>1, RecordedType DEF TypeOK
  <2> QED  BY <2>1, <2>2, <1>3 DEF CompleteRecord, TypeOK, Fault
<1>4. ASSUME NEW r \in Reqs, CompleteLevel(r) PROVE Rest
  <2>1. LevelFromXP(req[r].total) \in Nat  BY LevelType
  <2>2. streak' \in StreakRow  BY <2>1, <1>4 DEF CompleteLevel, TypeOK, StreakRow
  <2> QED  BY <2>2, <1>4 DEF CompleteLevel, TypeOK, Fault
<1>5. ASSUME NEW r \in Reqs, SubmitUpsert(r) PROVE Rest
  <2>1. req[r].n \in Nat  BY DEF TypeOK, ReqState
  <2> QED  BY <2>1, <1>5 DEF SubmitUpsert, TypeOK, Fault
<1>6. ASSUME NEW r \in Reqs,
             \/ GenerateCreate(r) \/ SubmitRefetch(r)
             \/ SubmitUpdate(r) \/ CompleteWrite(r) \/ CompleteStats(r)
      PROVE  Rest
  <2>1. UNCHANGED <<items, results, attempts, streak, day, calls, active>>
    BY <1>6 DEF GenerateCreate, SubmitRefetch, SubmitUpdate, CompleteWrite,
       CompleteStats, dbVars
  <2>2. faults' = faults \/ faults' = faults + 1
    BY <1>6 DEF GenerateCreate, SubmitRefetch, SubmitUpdate, CompleteWrite,
       CompleteStats, Fault
  <2> QED  BY <2>1, <2>2 DEF TypeOK
<1>11. ASSUME NEW r \in Reqs, GenerateItems(r) PROVE Rest
  <2>1. items' = items \/ \E n \in Nat : items' = [items EXCEPT ![req[r].s] = n]
    BY <1>11, BoundsAssumption DEF GenerateItems
  <2> QED  BY <2>1, <1>11 DEF GenerateItems, TypeOK, Fault
<1>7. ASSUME NEW r \in Reqs, NEW s \in Sessions,
             \/ GenerateBegin(r, s) \/ CompleteBegin(r, s)
             \/ \E b \in BOOLEAN : SubmitBegin(r, s, b)
      PROVE  Rest
  <2>1. \/ calls' = calls
        \/ calls' = [calls EXCEPT !.submit = @ + 1]
        \/ calls' = [calls EXCEPT !.complete = @ + 1]
    BY <1>7 DEF GenerateBegin, SubmitBegin, CompleteBegin
  <2>3. calls' \in [submit : Nat, complete : Nat]
    BY <2>1 DEF TypeOK
  <2>2. UNCHANGED <<dbVars, day, faults, active>>
    BY <1>7 DEF GenerateBegin, SubmitBegin, CompleteBegin
  <2> QED  BY <2>3, <2>2 DEF TypeOK, dbVars
<1>8. ASSUME NextDay PROVE Rest
  BY <1>8 DEF NextDay, TypeOK, dbVars
<1>10. ASSUME Stop PROVE Rest
  BY <1>10 DEF Stop, TypeOK, dbVars, Fault
<1> HIDE DEF Rest
<1>9. Rest
  BY <1>2, <1>3, <1>4, <1>5, <1>6, <1>7, <1>8, <1>10, <1>11, Zenon DEF Next
<1> QED  BY <1>0, <1>1, <1>9 DEF TypeOK, Rest

\* The rows and the requests keep their types whatever overlaps or fails; in
\* particular no lost update drives the accuracy out of its range.
THEOREM TypeCorrect == Spec => []TypeOK
<1>1. Init => TypeOK  BY TypeInit
<1>2. TypeOK /\ [Next]_vars => TypeOK'  BY TypeStep
<1> QED  BY <1>1, <1>2, PTL DEF Spec

----------------------------------------------------------------------------
(* NeverOvercounts.  A Submit that saved its result and has not yet written *)
(* the counters is owed to the session's index; the rows such requests hold *)
(* and the stored row stay below the results by the number of those owed.   *)

\* Requests whose result is saved and whose counters are not written yet.
Owed(s) == {r \in Reqs : req[r].at \in {"refetch", "update"} /\ req[r].s = s}

\* Requests that read the skill row and have not written it back.
Practising == {r \in Reqs : req[r].at = "upsert"}

IndexInv ==
    \A s \in Sessions :
        /\ sess[s].idx + Cardinality(Owed(s)) <= results[s].n
        /\ \A r \in Owed(s) : req[r].at = "update" =>
             req[r].row.idx + Cardinality(Owed(s)) <= results[s].n

AttemptInv ==
    /\ attempts + Cardinality(Practising) <= calls.submit
    /\ \A r \in Practising : req[r].n + Cardinality(Practising) <= calls.submit

\* Sets of requests are finite; adding or removing one changes the size by one.
LEMMA ReqSets ==
    ASSUME NEW S \in SUBSET Reqs
    PROVE  /\ IsFiniteSet(S) /\ Cardinality(S) \in Nat
           /\ \A r \in Reqs \ S : Cardinality(S \union {r}) = Cardinality(S) + 1
           /\ \A r \in S : Cardinality(S \ {r}) = Cardinality(S) - 1
<1>1. IsFiniteSet(S)  BY BoundsAssumption, FS_Subset
<1>2. Cardinality(S) \in Nat  BY <1>1, FS_CardinalityType
<1>3. \A r \in Reqs \ S : Cardinality(S \union {r}) = Cardinality(S) + 1
  BY <1>1, FS_AddElement
<1>4. \A r \in S : Cardinality(S \ {r}) = Cardinality(S) - 1
  BY <1>1, FS_RemoveElement
<1> QED  BY <1>1, <1>2, <1>3, <1>4

\* Nothing is owed initially.
LEMMA CountsInit == Init => IndexInv /\ AttemptInv
<1> SUFFICES ASSUME Init PROVE IndexInv /\ AttemptInv  OBVIOUS
<1>1. \A r \in Reqs : req[r].at = "idle"  BY DEF Init, Idle
<1>2. Practising = {} /\ \A s \in Sessions : Owed(s) = {}
  BY <1>1 DEF Practising, Owed
<1>3. Cardinality({}) = 0  BY FS_EmptySet
<1> QED  BY <1>2, <1>3, SMTT(30) DEF Init, IndexInv, AttemptInv, None

\* A step that leaves rows, results and the owed requests alone, or only
\* drops some of these, keeps IndexInv.
LEMMA IndexKept ==
    ASSUME TypeOK, IndexInv,
           \A s \in Sessions : sess'[s].idx = sess[s].idx,
           UNCHANGED results,
           \A s \in Sessions : Owed(s)' = Owed(s) \/ \E r \in Owed(s) : Owed(s)' = Owed(s) \ {r}
                               \/ Owed(s)' = {},
           \A r \in Reqs : req'[r].at = "update" =>
               req[r].at = "update" /\ req'[r].row = req[r].row
    PROVE  IndexInv'
<1> SUFFICES ASSUME NEW s \in Sessions
             PROVE  /\ sess'[s].idx + Cardinality(Owed(s)') <= results'[s].n
                    /\ \A r \in Owed(s)' : req'[r].at = "update" =>
                         req'[r].row.idx + Cardinality(Owed(s)') <= results'[s].n
  BY DEF IndexInv
<1>1. Owed(s) \subseteq Reqs  BY DEF Owed
<1>2. Cardinality({}) = 0  BY FS_EmptySet
<1> DEFINE O == Owed(s)
           P == Owed(s)'
<1>a. P = O \/ (\E r \in O : P = O \ {r}) \/ P = {}  OBVIOUS
<1> HIDE DEF O, P
<1>b. Cardinality(O) \in Nat /\ \A r \in O : Cardinality(O \ {r}) = Cardinality(O) - 1
  <2>1. O \in SUBSET Reqs  BY <1>1 DEF O
  <2> QED  BY <2>1, ReqSets
<1>c. P \in SUBSET Reqs  BY <1>1, <1>a DEF O
<1>d. Cardinality(P) \in Nat  BY <1>c, ReqSets
<1>3. /\ Cardinality(Owed(s)) \in Nat /\ Cardinality(Owed(s)') \in Nat
      /\ Cardinality(Owed(s)') <= Cardinality(Owed(s))
  <2>a. ASSUME NEW r \in O, P = O \ {r} PROVE Cardinality(P) <= Cardinality(O)
    <3>1. Cardinality(P) = Cardinality(O) - 1  BY <2>a, <1>b
    <3> QED  BY <3>1, <1>b
  <2>b. ASSUME P = {} PROVE Cardinality(P) <= Cardinality(O)  BY <2>b, <1>b, <1>2
  <2>c. ASSUME P = O PROVE Cardinality(P) <= Cardinality(O)  BY <2>c, <1>b
  <2>1. Cardinality(P) <= Cardinality(O)  BY <1>a, <2>a, <2>b, <2>c
  <2> QED  BY <2>1, <1>b, <1>d DEF O, P
<1>4. Owed(s)' \subseteq Owed(s)  OBVIOUS
<1>5. sess[s].idx \in Nat /\ results[s].n \in Nat /\ \A r \in Reqs : req[r].row.idx \in Nat
  BY DEF TypeOK, Row, ReqState
<1>6. sess'[s].idx + Cardinality(Owed(s)') <= results'[s].n
  BY <1>3, <1>5 DEF IndexInv
<1>7. ASSUME NEW r \in Owed(s)', req'[r].at = "update"
      PROVE  req'[r].row.idx + Cardinality(Owed(s)') <= results'[s].n
  <2>1. r \in Reqs /\ r \in Owed(s) /\ req[r].at = "update" /\ req'[r].row = req[r].row
    BY <1>4, <1>7, <1>1
  <2>2. req[r].row.idx + Cardinality(Owed(s)) <= results[s].n
    BY <2>1 DEF IndexInv
  <2> QED  BY <2>1, <2>2, <1>3, <1>5
<1> QED  BY <1>6, <1>7

----------------------------------------------------------------------------
(* Rows come into being once: only the Generate that created the ID can     *)
(* insert its row, and everyone else works on rows that exist.              *)

LifeInv ==
    /\ \A s \in Sessions : sess[s].status = "none" => sess[s] = None
    /\ \A r \in Reqs : req[r].at = "create" =>
         /\ sess[req[r].s].status = "none"
         /\ \A q \in Reqs : (req[q].at = "create" /\ req[q].s = req[r].s) => q = r
    /\ \A r \in Reqs : req[r].at \notin {"idle", "create"} =>
         sess[req[r].s].status # "none"

\* Initially there are no rows and no requests.
LEMMA LifeInit == Init => LifeInv
<1> SUFFICES ASSUME Init PROVE LifeInv  OBVIOUS
<1>1. \A r \in Reqs : req[r].at = "idle"  BY DEF Init, Idle
<1> QED  BY <1>1 DEF Init, LifeInv

\* What a step does to the rows: at most one is inserted where there was none,
\* by the request that owns the ID, and no step turns a status back.
LEMMA RowStep ==
    ASSUME TypeOK, LifeInv, [Next]_vars
    PROVE  \A s \in Sessions :
             \/ sess'[s] = sess[s]
             \/ /\ sess[s] = None
                /\ sess'[s] = [None EXCEPT !.status = "active"]
                /\ \E r \in Reqs : GenerateCreate(r) /\ req[r].s = s
             \/ /\ sess[s].status # "none"
                /\ sess'[s].status \in {sess[s].status, "completed"}
<1> DEFINE Goal ==
      \A s \in Sessions :
             \/ sess'[s] = sess[s]
             \/ /\ sess[s] = None
                /\ sess'[s] = [None EXCEPT !.status = "active"]
                /\ \E r \in Reqs : GenerateCreate(r) /\ req[r].s = s
             \/ /\ sess[s].status # "none"
                /\ sess'[s].status \in {sess[s].status, "completed"}
<1>1. ASSUME NEW r \in Reqs, GenerateCreate(r) PROVE Goal
  <2>1. sess' = sess \/ sess' = [sess EXCEPT ![req[r].s] = [None EXCEPT !.status = "active"]]
    BY <1>1 DEF GenerateCreate
  <2>2. req[r].at = "create" /\ req[r].s \in Sessions  BY <1>1 DEF GenerateCreate, TypeOK
  <2>3. sess[req[r].s] = None  BY <2>2 DEF LifeInv
  <2> QED  BY <1>1, <2>1, <2>2, <2>3 DEF TypeOK
<1>2. ASSUME NEW r \in Reqs, SubmitUpdate(r) PROVE Goal
  <2>1. req[r].at = "update"  BY <1>2 DEF SubmitUpdate
  <2>2. sess[req[r].s].status # "none" /\ req[r].s \in Sessions  BY <2>1 DEF LifeInv, TypeOK
  <2>3. \A s \in Sessions : sess'[s].status = sess[s].status /\ (s # req[r].s => sess'[s] = sess[s])
    BY <1>2, <2>2 DEF SubmitUpdate, TypeOK, Row
  <2> QED  BY <2>2, <2>3
<1>3. ASSUME NEW r \in Reqs, CompleteWrite(r) PROVE Goal
  <2>1. req[r].at = "complete"  BY <1>3 DEF CompleteWrite
  <2>2. sess[req[r].s].status # "none" /\ req[r].s \in Sessions  BY <2>1 DEF LifeInv, TypeOK
  <2>3. \A s \in Sessions : s # req[r].s => sess'[s] = sess[s]
    BY <1>3, <2>2 DEF CompleteWrite, TypeOK
  <2>4. sess'[req[r].s].status \in {sess[req[r].s].status, "completed"}
    BY <1>3, <2>2 DEF CompleteWrite, TypeOK, Row
  <2> QED  BY <2>2, <2>3, <2>4
<1>4. ASSUME UNCHANGED sess PROVE Goal
  BY <1>4
<1> HIDE DEF Goal
<1>5. \/ UNCHANGED sess
      \/ \E r \in Reqs : GenerateCreate(r) \/ SubmitUpdate(r) \/ CompleteWrite(r)
  BY DEF Next, vars, dbVars, GenerateBegin, GenerateItems, SubmitBegin,
     SubmitUpsert, SubmitSave, SubmitRefetch, CompleteBegin, CompleteRecord,
     CompleteStats, CompleteLevel, NextDay, Stop
<1>6. Goal  BY <1>1, <1>2, <1>3, <1>4, <1>5
<1> QED  BY <1>6 DEF Goal

\* What a step does to the requests: it begins one, moves or ends one, or
\* ends them all.
LEMMA ReqMoves ==
    ASSUME TypeOK, [Next]_vars
    PROVE  \/ \A q \in Reqs : req'[q] = req[q] \/ req'[q].at = "idle"
           \/ \E r \in Reqs :
                /\ \A q \in Reqs : q # r => req'[q] = req[q]
                /\ \/ \E s \in Sessions : GenerateBegin(r, s)
                   \/ /\ req[r].at = "idle"
                      /\ req'[r].at \notin {"idle", "create"}
                      /\ sess[req'[r].s].status # "none"
                      /\ UNCHANGED sess
                   \/ /\ GenerateCreate(r)
                      /\ sess' = [sess EXCEPT ![req[r].s] = [None EXCEPT !.status = "active"]]
                      /\ req'[r].at = "items" /\ req'[r].s = req[r].s
                   \/ /\ req[r].at \notin {"idle", "create"}
                      /\ req'[r].at \notin {"idle", "create"}
                      /\ req'[r].s = req[r].s
<1> DEFINE Goal(r) ==
                /\ \A q \in Reqs : q # r => req'[q] = req[q]
                /\ \/ \E s \in Sessions : GenerateBegin(r, s)
                   \/ /\ req[r].at = "idle"
                      /\ req'[r].at \notin {"idle", "create"}
                      /\ sess[req'[r].s].status # "none"
                      /\ UNCHANGED sess
                   \/ /\ GenerateCreate(r)
                      /\ sess' = [sess EXCEPT ![req[r].s] = [None EXCEPT !.status = "active"]]
                      /\ req'[r].at = "items" /\ req'[r].s = req[r].s
                   \/ /\ req[r].at \notin {"idle", "create"}
                      /\ req'[r].at \notin {"idle", "create"}
                      /\ req'[r].s = req[r].s
           Ends == \A q \in Reqs : req'[q] = req[q] \/ req'[q].at = "idle"
<1>a. ASSUME NEW r \in Reqs, req' = [req EXCEPT ![r] = Idle] PROVE Ends
  BY <1>a DEF TypeOK, Idle
<1>b. ASSUME UNCHANGED req PROVE Ends
  BY <1>b
<1>1. ASSUME NEW r \in Reqs, NEW s \in Sessions, GenerateBegin(r, s) PROVE Goal(r)
  BY <1>1 DEF GenerateBegin, TypeOK
<1>2. ASSUME NEW r \in Reqs, GenerateCreate(r) PROVE Ends \/ Goal(r)
  BY <1>2, <1>a DEF GenerateCreate, TypeOK, ReqState
<1>3. ASSUME NEW r \in Reqs, GenerateItems(r) PROVE Ends
  BY <1>3, <1>a DEF GenerateItems
<1>4. ASSUME NEW r \in Reqs, NEW s \in Sessions, NEW b \in BOOLEAN, SubmitBegin(r, s, b)
      PROVE Goal(r)
  BY <1>4 DEF SubmitBegin, TypeOK, ReqState, Idle, dbVars
<1>5. ASSUME NEW r \in Reqs, NEW s \in Sessions, CompleteBegin(r, s) PROVE Goal(r)
  BY <1>5 DEF CompleteBegin, TypeOK, ReqState, Idle, dbVars
<1>6. ASSUME NEW r \in Reqs, SubmitUpsert(r) PROVE Goal(r)
  BY <1>6 DEF SubmitUpsert, TypeOK, ReqState
<1>7. ASSUME NEW r \in Reqs, SubmitSave(r) PROVE Ends \/ Goal(r)
  BY <1>7, <1>a DEF SubmitSave, TypeOK, ReqState
<1>8. ASSUME NEW r \in Reqs, SubmitRefetch(r) PROVE Ends \/ Goal(r)
  BY <1>8, <1>a DEF SubmitRefetch, TypeOK, ReqState
<1>9. ASSUME NEW r \in Reqs, SubmitUpdate(r) PROVE Ends
  BY <1>9, <1>a DEF SubmitUpdate
<1>10. ASSUME NEW r \in Reqs, CompleteWrite(r) PROVE Ends \/ Goal(r)
  BY <1>10, <1>a DEF CompleteWrite, TypeOK, ReqState
<1>11. ASSUME NEW r \in Reqs, CompleteRecord(r) PROVE Goal(r)
  BY <1>11 DEF CompleteRecord, TypeOK, ReqState
<1>12. ASSUME NEW r \in Reqs, CompleteStats(r) PROVE Goal(r)
  BY <1>12 DEF CompleteStats, TypeOK, ReqState
<1>13. ASSUME NEW r \in Reqs, CompleteLevel(r) PROVE Ends
  BY <1>13, <1>a DEF CompleteLevel
<1>14. ASSUME NextDay PROVE Ends
  BY <1>14 DEF NextDay
<1>15. ASSUME Stop PROVE Ends
  BY <1>15 DEF Stop, Idle
<1>16. ASSUME UNCHANGED vars PROVE Ends
  BY <1>16 DEF vars
<1> HIDE DEF Goal, Ends
<1>17. Ends \/ \E r \in Reqs : Goal(r)
  BY <1>1, <1>2, <1>3, <1>4, <1>5, <1>6, <1>7, <1>8, <1>9, <1>10, <1>11,
     <1>12, <1>13, <1>14, <1>15, <1>16, Zenon DEF Next
<1> QED  BY <1>17, Zenon DEF Goal, Ends

\* Every step keeps the ownership of rows.
LEMMA LifeStep == TypeOK /\ TypeOK' /\ LifeInv /\ [Next]_vars => LifeInv'
<1> SUFFICES ASSUME TypeOK, TypeOK', LifeInv, [Next]_vars PROVE LifeInv'  OBVIOUS
<1> DEFINE Started(s) ==
      /\ sess[s] = None
      /\ sess'[s] = [None EXCEPT !.status = "active"]
      /\ \E r \in Reqs : GenerateCreate(r) /\ req[r].s = s
<1>1. \A s \in Sessions :
        \/ sess'[s] = sess[s]
        \/ Started(s)
        \/ sess[s].status # "none" /\ sess'[s].status \in {sess[s].status, "completed"}
  BY RowStep
<1>2. \A s \in Sessions : Started(s) => sess'[s].status # "none"
  BY DEF None
<1>3. \A s \in Sessions : sess[s].status # "none" => sess'[s].status # "none"
  BY <1>1, <1>2
<1>4. \A s \in Sessions : sess'[s].status = "none" => sess'[s] = None
  BY <1>1, <1>2 DEF LifeInv
<1>5. ASSUME NEW r \in Reqs, req'[r].at = "create"
      PROVE  /\ sess'[req'[r].s].status = "none"
             /\ \A q \in Reqs : (req'[q].at = "create" /\ req'[q].s = req'[r].s) => q = r
  <2>1. CASE \A q \in Reqs : req'[q] = req[q] \/ req'[q].at = "idle"
    <3>1. \A q \in Reqs : req'[q].at = "create" => req'[q] = req[q]  BY <2>1
    <3>2. req'[r] = req[r] /\ req[r].s \in Sessions  BY <3>1, <1>5 DEF TypeOK
    <3>3. ~Started(req[r].s)
      <4>1. ASSUME NEW p \in Reqs, GenerateCreate(p), req[p].s = req[r].s PROVE p = r
        BY <4>1, <3>2, <1>5 DEF LifeInv, GenerateCreate
      <4>2. ASSUME GenerateCreate(r) PROVE FALSE
        <5>1. req'[r].at # "create"  BY <4>2 DEF GenerateCreate, TypeOK, ReqState, Idle
        <5> QED  BY <5>1, <1>5
      <4> QED  BY <4>1, <4>2
    <3>4. sess'[req[r].s].status = "none"  BY <3>2, <3>3, <1>1, <1>5 DEF LifeInv
    <3> QED  BY <3>1, <3>2, <3>4, <1>5 DEF LifeInv
  <2>2. CASE \E p \in Reqs :
                /\ \A q \in Reqs : q # p => req'[q] = req[q]
                /\ \E s \in Sessions : GenerateBegin(p, s)
    <3> PICK p \in Reqs, s \in Sessions :
          (\A q \in Reqs : q # p => req'[q] = req[q]) /\ GenerateBegin(p, s)
      BY <2>2
    <3>1. sess' = sess /\ sess[s].status = "none" /\ req'[p].s = s
          /\ \A q \in Reqs : req[q].at = "create" => req[q].s # s
      BY DEF GenerateBegin, dbVars, TypeOK, Idle
    <3>2. CASE r = p
      BY <3>1, <3>2
    <3>3. CASE r # p
      <4>1. req'[r] = req[r]  BY <3>3
      <4>2. req[r].s # s  BY <3>1, <4>1, <1>5
      <4> QED  BY <3>1, <3>3, <4>1, <4>2, <1>5 DEF LifeInv
    <3> QED  BY <3>2, <3>3
  <2>3. CASE \E p \in Reqs :
                /\ \A q \in Reqs : q # p => req'[q] = req[q]
                /\ req'[p].at # "create"
                /\ GenerateCreate(p) \/ req[p].at # "create"
    <3> PICK p \in Reqs :
                /\ \A q \in Reqs : q # p => req'[q] = req[q]
                /\ req'[p].at # "create"
                /\ GenerateCreate(p) \/ req[p].at # "create"
      BY <2>3
    <3>1. r # p /\ req'[r] = req[r] /\ req[r].s \in Sessions  BY <1>5 DEF TypeOK
    <3>2. \A q \in Reqs : req'[q].at = "create" => req'[q] = req[q] /\ q # p  OBVIOUS
    <3>3. ~Started(req[r].s)
      <4>1. ASSUME NEW o \in Reqs, GenerateCreate(o), req[o].s = req[r].s PROVE FALSE
        <5>1. o = r  BY <4>1, <3>1, <1>5 DEF LifeInv, GenerateCreate
        <5>2. req'[r].at # "create"  BY <4>1, <5>1 DEF GenerateCreate, TypeOK, ReqState, Idle
        <5> QED  BY <5>2, <1>5
      <4> QED  BY <4>1
    <3>4. sess'[req[r].s].status = "none"  BY <3>1, <3>3, <1>1, <1>5 DEF LifeInv
    <3> QED  BY <3>1, <3>2, <3>4, <1>5 DEF LifeInv
  <2> QED  BY <2>1, <2>2, <2>3, ReqMoves
<1>6. ASSUME NEW r \in Reqs, req'[r].at \notin {"idle", "create"}
      PROVE  sess'[req'[r].s].status # "none"
  <2>1. CASE req'[r] = req[r]
    <3>1. req[r].s \in Sessions  BY <2>1, <1>6 DEF TypeOK
    <3> QED  BY <2>1, <3>1, <1>3, <1>6 DEF LifeInv
  <2>2. CASE /\ req[r].at \notin {"idle", "create"}
             /\ req'[r].s = req[r].s
    <3>1. req[r].s \in Sessions  BY <2>2 DEF TypeOK
    <3> QED  BY <2>2, <3>1, <1>3 DEF LifeInv
  <2>3. CASE sess[req'[r].s].status # "none" /\ UNCHANGED sess
    BY <2>3
  <2>4. CASE /\ GenerateCreate(r) /\ req'[r].s = req[r].s
             /\ sess' = [sess EXCEPT ![req[r].s] = [None EXCEPT !.status = "active"]]
    <3>1. req[r].s \in Sessions  BY <2>4 DEF GenerateCreate, TypeOK
    <3>2. sess'[req[r].s].status = "active"  BY <3>1, <2>4 DEF TypeOK, None
    <3> QED  BY <3>2, <2>4
  <2>5. ASSUME NEW s \in Sessions, GenerateBegin(r, s) PROVE FALSE
    <3>1. req'[r].at = "create"  BY <2>5 DEF GenerateBegin, TypeOK, Idle
    <3> QED  BY <3>1, <1>6
  <2> QED  BY <2>1, <2>2, <2>3, <2>4, <2>5, <1>6, ReqMoves
<1> QED  BY <1>4, <1>5, <1>6 DEF LifeInv

\* A completed session stays completed: Submit and Complete never check the
\* status, but only Complete writes it, and no ID gets a second row.
THEOREM CompletedForever == Spec => CompletedStays
<1>1. Init => TypeOK /\ LifeInv  BY TypeInit, LifeInit
<1>2. (TypeOK /\ LifeInv) /\ [Next]_vars => (TypeOK /\ LifeInv)'
  BY TypeStep, LifeStep
<1>3. ASSUME TypeOK, LifeInv, [Next]_vars
      PROVE  [\A s \in Sessions : sess[s].status = "completed" =>
                sess'[s].status = "completed"]_vars
  BY <1>3, RowStep DEF None
<1> QED  BY <1>1, <1>2, <1>3, PTL DEF Spec, CompletedStays

----------------------------------------------------------------------------
(* The two counts, step by step.                                            *)

\* What IndexKept asks of the owed requests holds when one request leaves.
LEMMA OwedLeave ==
    ASSUME NEW r \in Reqs, TypeOK, \A q \in Reqs : q # r => req'[q] = req[q],
           req'[r].at \notin {"refetch", "update"}
    PROVE  \A s \in Sessions : Owed(s)' = Owed(s) \/ Owed(s)' = Owed(s) \ {r}
<1> TAKE s \in Sessions
<1>1. \A q \in Reqs : q # r => (q \in Owed(s)' <=> q \in Owed(s))  BY DEF Owed
<1>2. r \notin Owed(s)'  BY DEF Owed
<1>3. Owed(s) \subseteq Reqs /\ Owed(s)' \subseteq Reqs  BY DEF Owed
<1>4. Owed(s)' = Owed(s) \ {r}  BY <1>1, <1>2, <1>3
<1> QED  BY <1>4

\* Every step keeps IndexInv.
LEMMA IndexStep ==
    ASSUME TypeOK, TypeOK', LifeInv, IndexInv, Next
    PROVE  IndexInv'
<1>1. ASSUME NEW r \in Reqs, SubmitSave(r), results' # results PROVE IndexInv'
  <2> DEFINE v == [req[r] EXCEPT !.at = "refetch"]
  <2>1. req' = [req EXCEPT ![r].at = "refetch"] /\ req[r].at = "save" /\ req[r].s \in Sessions
        /\ sess' = sess
    BY <1>1 DEF SubmitSave, TypeOK
  <2>2. \A s \in Sessions : results'[s].n =
           IF s = req[r].s THEN results[s].n + 1 ELSE results[s].n
    BY <1>1, <2>1 DEF SubmitSave, TypeOK
  <2>3. req'[r].at = "refetch" /\ req'[r].s = req[r].s /\ \A q \in Reqs : q # r => req'[q] = req[q]
    BY <2>1 DEF TypeOK, ReqState
  <2> SUFFICES ASSUME NEW s \in Sessions
               PROVE  /\ sess'[s].idx + Cardinality(Owed(s)') <= results'[s].n
                      /\ \A q \in Owed(s)' : req'[q].at = "update" =>
                           req'[q].row.idx + Cardinality(Owed(s)') <= results'[s].n
    BY DEF IndexInv
  <2>4. Owed(s) \subseteq Reqs /\ r \notin Owed(s)  BY <2>1 DEF Owed
  <2>5. Cardinality(Owed(s)) \in Nat
        /\ Cardinality(Owed(s) \union {r}) = Cardinality(Owed(s)) + 1
    BY <2>4, ReqSets
  <2>6. Owed(s)' = IF s = req[r].s THEN Owed(s) \union {r} ELSE Owed(s)
    <3>1. \A q \in Reqs : q \in Owed(s)' <=> (q \in Owed(s) \/ (q = r /\ s = req[r].s))
      BY <2>1, <2>3 DEF Owed
    <3>2. Owed(s)' \subseteq Reqs  BY DEF Owed
    <3> QED  BY <3>1, <3>2, <2>4
  <2>7. sess[s].idx \in Nat /\ results[s].n \in Nat /\ \A q \in Reqs : req[q].row.idx \in Nat
    BY DEF TypeOK, Row, ReqState
  <2>8. sess'[s].idx + Cardinality(Owed(s)') <= results'[s].n
    BY <2>1, <2>2, <2>5, <2>6, <2>7 DEF IndexInv
  <2>9. ASSUME NEW q \in Owed(s)', req'[q].at = "update"
        PROVE  req'[q].row.idx + Cardinality(Owed(s)') <= results'[s].n
    <3>1. q # r /\ q \in Owed(s) /\ req'[q] = req[q] /\ q \in Reqs
      BY <2>9, <2>3, <2>4, <2>6
    <3>2. req[q].row.idx + Cardinality(Owed(s)) <= results[s].n
      BY <3>1, <2>9 DEF IndexInv
    <3> QED  BY <3>1, <3>2, <2>2, <2>5, <2>6, <2>7
  <2> QED  BY <2>8, <2>9
<1>2. ASSUME NEW r \in Reqs, SubmitRefetch(r), req'[r].at = "update" PROVE IndexInv'
  <2>1. /\ req' = [req EXCEPT ![r].at = "update", ![r].row = sess[req[r].s]]
        /\ req[r].at = "refetch" /\ req[r].s \in Sessions
        /\ sess' = sess /\ results' = results
    BY <1>2 DEF SubmitRefetch, TypeOK, dbVars, Idle
  <2>2. /\ req'[r].row = sess[req[r].s] /\ req'[r].s = req[r].s
        /\ \A q \in Reqs : q # r => req'[q] = req[q]
    BY <2>1 DEF TypeOK, ReqState
  <2>3. \A s \in Sessions : Owed(s)' = Owed(s)
    <3> TAKE s \in Sessions
    <3>1. \A q \in Reqs : q \in Owed(s)' <=> q \in Owed(s)  BY <1>2, <2>1, <2>2 DEF Owed
    <3> QED  BY <3>1 DEF Owed
  <2> SUFFICES ASSUME NEW s \in Sessions
               PROVE  /\ sess'[s].idx + Cardinality(Owed(s)') <= results'[s].n
                      /\ \A q \in Owed(s)' : req'[q].at = "update" =>
                           req'[q].row.idx + Cardinality(Owed(s)') <= results'[s].n
    BY DEF IndexInv
  <2>4. sess'[s].idx + Cardinality(Owed(s)') <= results'[s].n
    BY <2>1, <2>3 DEF IndexInv
  <2>5. ASSUME NEW q \in Owed(s)', req'[q].at = "update"
        PROVE  req'[q].row.idx + Cardinality(Owed(s)') <= results'[s].n
    <3>1. q \in Reqs /\ req'[q].s = s /\ q \in Owed(s)  BY <2>3 DEF Owed
    <3>2. CASE q = r  BY <3>1, <3>2, <2>1, <2>2, <2>3 DEF IndexInv
    <3>3. CASE q # r  BY <3>1, <3>3, <2>1, <2>2, <2>3, <2>5 DEF IndexInv
    <3> QED  BY <3>2, <3>3
  <2> QED  BY <2>4, <2>5
<1>3. ASSUME NEW r \in Reqs, SubmitUpdate(r) PROVE IndexInv'
  <2> DEFINE new == Advanced(req[r].row, req[r].right, req[r].gain)
  <2>1. /\ req' = [req EXCEPT ![r] = Idle] /\ req[r].at = "update"
        /\ req[r].s \in Sessions /\ results' = results
        /\ \/ sess' = sess
           \/ sess' = [sess EXCEPT ![req[r].s].idx = new.idx, ![req[r].s].xp = new.xp,
                                   ![req[r].s].acc = new.acc]
    BY <1>3 DEF SubmitUpdate, TypeOK
  <2>2. new.idx = req[r].row.idx + 1  BY DEF Advanced
  <2> HIDE DEF new
  <2>3. \A s \in Sessions : \/ sess'[s].idx = sess[s].idx
                            \/ s = req[r].s /\ sess'[s].idx = req[r].row.idx + 1
    BY <2>1, <2>2 DEF TypeOK, Row
  <2>4. req'[r].at = "idle" /\ \A q \in Reqs : q # r => req'[q] = req[q]
    BY <2>1 DEF TypeOK, Idle
  <2> SUFFICES ASSUME NEW s \in Sessions
               PROVE  /\ sess'[s].idx + Cardinality(Owed(s)') <= results'[s].n
                      /\ \A q \in Owed(s)' : req'[q].at = "update" =>
                           req'[q].row.idx + Cardinality(Owed(s)') <= results'[s].n
    BY DEF IndexInv
  <2>5. Owed(s) \subseteq Reqs /\ (r \in Owed(s) <=> s = req[r].s)  BY <2>1 DEF Owed
  <2>6. Cardinality(Owed(s)) \in Nat
        /\ (r \in Owed(s) => Cardinality(Owed(s) \ {r}) = Cardinality(Owed(s)) - 1)
    BY <2>5, ReqSets
  <2>7. Owed(s)' = Owed(s) \ {r}
    <3>1. \A q \in Reqs : q \in Owed(s)' <=> (q \in Owed(s) /\ q # r)
      BY <2>1, <2>4 DEF Owed
    <3>2. Owed(s)' \subseteq Reqs  BY DEF Owed
    <3> QED  BY <3>1, <3>2, <2>5
  <2>8. Cardinality(Owed(s)') \in Nat
        /\ Cardinality(Owed(s)') = IF s = req[r].s THEN Cardinality(Owed(s)) - 1
                                   ELSE Cardinality(Owed(s))
    <3>1. Owed(s)' \in SUBSET Reqs  BY <2>5, <2>7
    <3>2. Cardinality(Owed(s)') \in Nat  BY <3>1, ReqSets
    <3>3. CASE s = req[r].s  BY <3>2, <3>3, <2>5, <2>6, <2>7
    <3>4. CASE s # req[r].s
      <4>1. Owed(s)' = Owed(s)  BY <3>4, <2>5, <2>7
      <4> QED  BY <4>1, <3>2, <3>4
    <3> QED  BY <3>3, <3>4
  <2>9. sess[s].idx \in Nat /\ results[s].n \in Nat /\ \A q \in Reqs : req[q].row.idx \in Nat
    BY DEF TypeOK, Row, ReqState
  <2>10. s = req[r].s => req[r].row.idx + Cardinality(Owed(s)) <= results[s].n
    BY <2>1, <2>5 DEF IndexInv
  <2>11. sess[s].idx + Cardinality(Owed(s)) <= results[s].n
    BY DEF IndexInv
  <2>12. sess'[s].idx + Cardinality(Owed(s)') <= results'[s].n
    BY <2>1, <2>3, <2>6, <2>8, <2>9, <2>10, <2>11
  <2>13. ASSUME NEW q \in Owed(s)', req'[q].at = "update"
         PROVE  req'[q].row.idx + Cardinality(Owed(s)') <= results'[s].n
    <3>1. q \in Owed(s) /\ q # r /\ q \in Reqs /\ req'[q] = req[q]  BY <2>4, <2>5, <2>7
    <3>2. req[q].row.idx + Cardinality(Owed(s)) <= results[s].n
      BY <3>1, <2>13 DEF IndexInv
    <3> QED  BY <3>1, <3>2, <2>1, <2>6, <2>8, <2>9
  <2> QED  BY <2>12, <2>13
<1> DEFINE Quietly ==
      /\ \A s \in Sessions : sess'[s].idx = sess[s].idx
      /\ UNCHANGED results
<1>4. ASSUME NEW r \in Reqs, Quietly, \A q \in Reqs : q # r => req'[q] = req[q],
             req'[r].at \notin {"refetch", "update"}
      PROVE  IndexInv'
  <2>1. \A s \in Sessions : Owed(s)' = Owed(s) \/ \E q \in Owed(s) : Owed(s)' = Owed(s) \ {q}
                               \/ Owed(s)' = {}
    BY <1>4, OwedLeave
  <2>2. \A q \in Reqs : req'[q].at = "update" =>
               req[q].at = "update" /\ req'[q].row = req[q].row
    BY <1>4
  <2> QED  BY <2>1, <2>2, <1>4, IndexKept
<1>5. ASSUME NEW r \in Reqs, GenerateCreate(r) PROVE IndexInv'
  <2>1. req[r].at = "create" /\ req[r].s \in Sessions  BY <1>5 DEF GenerateCreate, TypeOK
  <2>2. sess[req[r].s] = None  BY <2>1 DEF LifeInv
  <2>3. Quietly
    BY <1>5, <2>1, <2>2 DEF GenerateCreate, TypeOK, None
  <2>4. (\A q \in Reqs : q # r => req'[q] = req[q]) /\ req'[r].at \in {"items", "idle"}
    BY <1>5 DEF GenerateCreate, TypeOK, ReqState, Idle
  <2> QED  BY <2>3, <2>4, <1>4
<1>6. ASSUME NEW r \in Reqs, CompleteWrite(r) PROVE IndexInv'
  <2>1. req[r].s \in Sessions  BY <1>6 DEF CompleteWrite, TypeOK
  <2>2. Quietly
    BY <1>6, <2>1, SMTT(30) DEF CompleteWrite, TypeOK, Row
  <2>3. (\A q \in Reqs : q # r => req'[q] = req[q]) /\ req'[r].at \in {"record", "idle"}
    BY <1>6 DEF CompleteWrite, TypeOK, ReqState, Idle
  <2> QED  BY <2>2, <2>3, <1>4
<1>7. ASSUME NEW r \in Reqs, UNCHANGED <<sess, results>>,
             \/ \E s \in Sessions : GenerateBegin(r, s) \/ CompleteBegin(r, s)
             \/ GenerateItems(r) \/ CompleteRecord(r) \/ CompleteStats(r) \/ CompleteLevel(r)
             \/ SubmitUpsert(r) \/ SubmitSave(r)
             \/ SubmitRefetch(r) /\ req'[r].at # "update"
             \/ \E s \in Sessions, b \in BOOLEAN : SubmitBegin(r, s, b)
      PROVE  IndexInv'
  <2>1. Quietly  BY <1>7
  <2>2. \A q \in Reqs : q # r => req'[q] = req[q]
    BY <1>7 DEF GenerateBegin, CompleteBegin, GenerateItems, CompleteRecord, CompleteStats,
       CompleteLevel, SubmitUpsert, SubmitSave, SubmitRefetch, SubmitBegin, TypeOK
  <2>3. req'[r].at \notin {"refetch", "update"}
    <3>1. ASSUME SubmitSave(r) PROVE req'[r] = Idle
      <4>1. req[r].s \in Sessions  BY <3>1 DEF SubmitSave, TypeOK
      <4>2. results'[req[r].s].n # results[req[r].s].n + 1  BY <1>7, <4>1 DEF TypeOK
      <4>3. req' = [req EXCEPT ![r] = Idle]  BY <3>1, <4>1, <4>2 DEF SubmitSave, TypeOK
      <4> QED  BY <4>3 DEF TypeOK
    <3>2. ASSUME CompleteRecord(r) \/ CompleteStats(r) \/ SubmitUpsert(r)
                 \/ (SubmitRefetch(r) /\ req'[r].at # "update")
          PROVE  req'[r].at \notin {"refetch", "update"}
      BY <3>2 DEF CompleteRecord, CompleteStats, SubmitUpsert, SubmitRefetch, TypeOK,
         ReqState, Idle
    <3>3. ASSUME NEW s \in Sessions, GenerateBegin(r, s) \/ CompleteBegin(r, s)
                                     \/ \E b \in BOOLEAN : SubmitBegin(r, s, b)
          PROVE  req'[r].at \notin {"refetch", "update"}
      <4>1. CASE GenerateBegin(r, s)  BY <4>1 DEF GenerateBegin, TypeOK, Idle
      <4>2. CASE CompleteBegin(r, s)  BY <4>2 DEF CompleteBegin, TypeOK, Idle
      <4>3. CASE \E b \in BOOLEAN : SubmitBegin(r, s, b)
        BY <4>3 DEF SubmitBegin, TypeOK, Idle
      <4> QED  BY <3>3, <4>1, <4>2, <4>3
    <3>4. ASSUME GenerateItems(r) \/ CompleteLevel(r) \/ req'[r] = Idle
          PROVE  req'[r].at \notin {"refetch", "update"}
      BY <3>4 DEF GenerateItems, CompleteLevel, TypeOK, Idle
    <3> QED  BY <3>1, <3>2, <3>3, <3>4, <1>7
  <2> QED  BY <2>1, <2>2, <2>3, <1>4
<1>8. ASSUME NextDay \/ Stop PROVE IndexInv'
  <2>1. Quietly  BY <1>8 DEF NextDay, Stop, dbVars
  <2>2. (\A s \in Sessions : Owed(s)' = Owed(s)) \/ (\A s \in Sessions : Owed(s)' = {})
    BY <1>8 DEF NextDay, Stop, Owed, Idle
  <2>3. \A q \in Reqs : req'[q].at = "update" =>
               req[q].at = "update" /\ req'[q].row = req[q].row
    BY <1>8 DEF NextDay, Stop, Idle
  <2> QED  BY <2>1, <2>2, <2>3, IndexKept
<1> QED
  <2>1. ASSUME NEW r \in Reqs, GenerateItems(r) \/ CompleteRecord(r) \/ CompleteStats(r)
               \/ CompleteLevel(r) \/ SubmitUpsert(r) \/ SubmitRefetch(r)
        PROVE  UNCHANGED <<sess, results>>
    BY <2>1 DEF dbVars, GenerateItems, CompleteRecord, CompleteStats, CompleteLevel,
       SubmitUpsert, SubmitRefetch
  <2>2. ASSUME NEW r \in Reqs, NEW s \in Sessions, GenerateBegin(r, s) \/ CompleteBegin(r, s)
                \/ \E b \in BOOLEAN : SubmitBegin(r, s, b)
        PROVE  UNCHANGED <<sess, results>>
    BY <2>2 DEF dbVars, GenerateBegin, CompleteBegin, SubmitBegin
  <2>3. ASSUME NEW r \in Reqs, SubmitSave(r), results' = results
        PROVE  UNCHANGED <<sess, results>>
    BY <2>3 DEF SubmitSave
  <2> QED  BY <2>1, <2>2, <2>3, <1>1, <1>2, <1>3, <1>5, <1>6, <1>7, <1>8 DEF Next

\* Every step keeps AttemptInv.
LEMMA AttemptStep ==
    ASSUME TypeOK, TypeOK', AttemptInv, Next
    PROVE  AttemptInv'
<1> DEFINE K == Cardinality(Practising)
<1>a. /\ Practising \in SUBSET Reqs /\ Practising' \in SUBSET Reqs
      /\ K \in Nat /\ K' \in Nat
      /\ \A q \in Reqs : req[q].n \in Nat
      /\ attempts \in Nat /\ calls.submit \in Nat
  <2>1. Practising \in SUBSET Reqs /\ Practising' \in SUBSET Reqs  BY DEF Practising
  <2> QED  BY <2>1, ReqSets DEF TypeOK, ReqState
<1>1. ASSUME NEW r \in Reqs, NEW s \in Sessions, NEW b \in BOOLEAN, SubmitBegin(r, s, b)
      PROVE  AttemptInv'
  <2> PICK at \in {"upsert", "save"}, x \in XpOf[b] :
        req' = [req EXCEPT ![r] = [Idle EXCEPT !.at = at, !.s = s, !.gain = x,
                                       !.right = b, !.n = attempts]]
    BY <1>1 DEF SubmitBegin
  <2>1. /\ req[r].at = "idle" /\ calls'.submit = calls.submit + 1 /\ attempts' = attempts
        /\ \A q \in Reqs : q # r => req'[q] = req[q]
        /\ req'[r].at = at /\ req'[r].n = attempts
    BY <1>1 DEF SubmitBegin, TypeOK, dbVars, Idle
  <2>2. r \notin Practising  BY <2>1 DEF Practising
  <2>3. Practising' = IF at = "upsert" THEN Practising \union {r} ELSE Practising
    <3>1. \A q \in Reqs : q \in Practising' <=> (q \in Practising \/ (q = r /\ at = "upsert"))
      BY <2>1 DEF Practising
    <3> QED  BY <3>1, <1>a
  <2>4. Cardinality(Practising \union {r}) = K + 1  BY <2>2, <1>a, ReqSets
  <2>5. K' <= K + 1  BY <2>3, <2>4, <1>a
  <2>6. attempts' + K' <= calls'.submit  BY <2>1, <2>5, <1>a DEF AttemptInv
  <2>7. ASSUME NEW q \in Practising' PROVE req'[q].n + K' <= calls'.submit
    <3>1. CASE q = r
      <4>1. attempts + K <= calls.submit  BY DEF AttemptInv
      <4>2. req'[q].n = attempts  BY <3>1, <2>1
      <4> QED  BY <4>1, <4>2, <2>1, <2>5, <1>a
    <3>2. CASE q # r
      <4>1. q \in Practising /\ req'[q] = req[q] /\ q \in Reqs  BY <3>2, <2>1, <2>3, <1>a
      <4>2. req[q].n + K <= calls.submit  BY <4>1 DEF AttemptInv
      <4>3. req[q].n \in Nat /\ req'[q].n = req[q].n /\ calls'.submit = calls.submit + 1
        BY <4>1, <2>1, <1>a
      <4>4. K \in Nat /\ K' \in Nat /\ K' <= K + 1 /\ calls.submit \in Nat  BY <2>5, <1>a
      <4> HIDE DEF K
      <4> QED  BY <4>2, <4>3, <4>4
    <3> QED  BY <3>1, <3>2
  <2> QED  BY <2>6, <2>7 DEF AttemptInv
<1>2. ASSUME NEW r \in Reqs, SubmitUpsert(r) PROVE AttemptInv'
  <2>1. /\ req[r].at = "upsert" /\ calls' = calls
        /\ attempts' = req[r].n + 1 \/ attempts' = attempts
        /\ \A q \in Reqs : q # r => req'[q] = req[q]
        /\ req'[r].at = "save"
    BY <1>2 DEF SubmitUpsert, TypeOK, ReqState
  <2>2. r \in Practising  BY <2>1 DEF Practising
  <2>3. Practising' = Practising \ {r}
    <3>1. \A q \in Reqs : q \in Practising' <=> (q \in Practising /\ q # r)
      BY <2>1 DEF Practising
    <3> QED  BY <3>1, <1>a
  <2>4. K' = K - 1  BY <2>2, <2>3, <1>a, ReqSets
  <2>5. req[r].n + K <= calls.submit  BY <2>2 DEF AttemptInv
  <2>6. attempts' + K' <= calls'.submit  BY <2>1, <2>4, <2>5, <1>a DEF AttemptInv
  <2>7. ASSUME NEW q \in Practising' PROVE req'[q].n + K' <= calls'.submit
    <3>1. q \in Practising /\ q # r /\ req'[q] = req[q] /\ q \in Reqs  BY <2>1, <2>3, <1>a
    <3>2. req[q].n + K <= calls.submit  BY <3>1 DEF AttemptInv
    <3>3. req[q].n \in Nat /\ req'[q].n = req[q].n /\ calls'.submit = calls.submit
      BY <3>1, <2>1, <1>a
    <3>4. K \in Nat /\ K' = K - 1 /\ calls.submit \in Nat  BY <2>4, <1>a
    <3> HIDE DEF K
    <3> QED  BY <3>2, <3>3, <3>4
  <2> QED  BY <2>6, <2>7 DEF AttemptInv
<1>3. ASSUME attempts' = attempts, calls'.submit = calls.submit,
             Practising' = Practising, \A q \in Practising : req'[q].n = req[q].n
      PROVE  AttemptInv'
  BY <1>3 DEF AttemptInv
<1>4. ASSUME NEW r \in Reqs, NEW s \in Sessions, GenerateBegin(r, s) \/ CompleteBegin(r, s)
      PROVE  AttemptInv'
  <2>1. /\ attempts' = attempts /\ calls'.submit = calls.submit /\ req[r].at = "idle"
        /\ req'[r].at # "upsert" /\ \A q \in Reqs : q # r => req'[q] = req[q]
    <3>1. CASE GenerateBegin(r, s)  BY <3>1 DEF GenerateBegin, TypeOK, dbVars, Idle
    <3>2. CASE CompleteBegin(r, s)  BY <3>2 DEF CompleteBegin, TypeOK, dbVars, Idle
    <3> QED  BY <1>4, <3>1, <3>2
  <2>2. \A q \in Reqs : q \in Practising' <=> q \in Practising  BY <2>1 DEF Practising
  <2>3. Practising' = Practising  BY <2>2, <1>a
  <2>4. \A q \in Practising : req'[q].n = req[q].n  BY <2>1 DEF Practising
  <2> QED  BY <2>1, <2>3, <2>4, <1>3
<1>5. ASSUME NEW r \in Reqs,
             \/ GenerateCreate(r) \/ GenerateItems(r) \/ SubmitSave(r) \/ SubmitRefetch(r)
             \/ SubmitUpdate(r) \/ CompleteWrite(r) \/ CompleteRecord(r)
             \/ CompleteStats(r) \/ CompleteLevel(r)
      PROVE  AttemptInv'
  <2>1. attempts' = attempts /\ calls' = calls /\ req[r].at # "upsert"
    BY <1>5 DEF GenerateCreate, GenerateItems, SubmitSave, SubmitRefetch, SubmitUpdate,
       CompleteWrite, CompleteRecord, CompleteStats, CompleteLevel, dbVars
  <2>a. ASSUME req' = [req EXCEPT ![r] = Idle]
        PROVE  req'[r].at # "upsert" /\ \A q \in Reqs : q # r => req'[q] = req[q]
    BY <2>a DEF TypeOK, Idle
  <2>b. ASSUME GenerateCreate(r) \/ SubmitSave(r) \/ CompleteWrite(r) \/ SubmitRefetch(r)
        PROVE  req'[r].at # "upsert" /\ \A q \in Reqs : q # r => req'[q] = req[q]
    BY <2>a, <2>b DEF GenerateCreate, SubmitSave, SubmitRefetch, CompleteWrite, TypeOK, ReqState
  <2>c. ASSUME GenerateItems(r) \/ SubmitUpdate(r) \/ CompleteLevel(r)
        PROVE  req'[r].at # "upsert" /\ \A q \in Reqs : q # r => req'[q] = req[q]
    BY <2>a, <2>c DEF GenerateItems, SubmitUpdate, CompleteLevel
  <2>d. ASSUME CompleteRecord(r) \/ CompleteStats(r)
        PROVE  req'[r].at # "upsert" /\ \A q \in Reqs : q # r => req'[q] = req[q]
    BY <2>d DEF CompleteRecord, CompleteStats, TypeOK, ReqState
  <2>2. req'[r].at # "upsert" /\ \A q \in Reqs : q # r => req'[q] = req[q]
    BY <1>5, <2>b, <2>c, <2>d
  <2>3. \A q \in Reqs : q \in Practising' <=> q \in Practising  BY <2>1, <2>2 DEF Practising
  <2>4. Practising' = Practising  BY <2>3, <1>a
  <2>5. \A q \in Practising : req'[q].n = req[q].n  BY <2>1, <2>2 DEF Practising
  <2> QED  BY <2>1, <2>4, <2>5, <1>3
<1>6. ASSUME NextDay PROVE AttemptInv'
  BY <1>6, <1>3 DEF NextDay, Practising, dbVars
<1>7. ASSUME Stop PROVE AttemptInv'
  <2>1. Practising' = {} /\ attempts' = attempts /\ calls' = calls
    BY <1>7 DEF Stop, Practising, Idle, dbVars
  <2>2. K' = 0  BY <2>1, FS_EmptySet
  <2> QED  BY <2>1, <2>2, <1>a DEF AttemptInv
<1> QED  BY <1>1, <1>2, <1>4, <1>5, <1>6, <1>7 DEF Next

\* No step invents progress: neither a session's index nor a skill's attempts
\* ever exceed what was answered, whatever overlaps, fails or is cut off.
THEOREM NothingOvercounted == Spec => []NeverOvercounts
<1> DEFINE Inv == TypeOK /\ LifeInv /\ IndexInv /\ AttemptInv
<1>1. Init => Inv  BY TypeInit, LifeInit, CountsInit
<1>2. Inv /\ [Next]_vars => Inv'
  <2> SUFFICES ASSUME Inv, [Next]_vars PROVE Inv'  OBVIOUS
  <2>1. TypeOK' /\ LifeInv'  BY TypeStep, LifeStep
  <2>2. CASE Next
    <3>1. IndexInv'  BY <2>1, <2>2, IndexStep
    <3>2. AttemptInv'  BY <2>1, <2>2, AttemptStep
    <3> QED  BY <2>1, <3>1, <3>2
  <2>3. CASE UNCHANGED vars
    BY <2>1, <2>3 DEF vars, IndexInv, AttemptInv, Owed, Practising
  <2> QED  BY <2>2, <2>3
<1>3. Inv => NeverOvercounts
  <2> SUFFICES ASSUME Inv PROVE NeverOvercounts  OBVIOUS
  <2>1. Practising \in SUBSET Reqs /\ \A s \in Sessions : Owed(s) \in SUBSET Reqs
    BY DEF Practising, Owed
  <2>2. Cardinality(Practising) \in Nat /\ \A s \in Sessions : Cardinality(Owed(s)) \in Nat
    BY <2>1, ReqSets
  <2>3. \A s \in Sessions : sess[s].idx <= results[s].n
    BY <2>2 DEF IndexInv, TypeOK, Row
  <2>4. attempts <= calls.submit  BY <2>2 DEF AttemptInv, TypeOK
  <2> QED  BY <2>3, <2>4 DEF NeverOvercounts
<1> QED  BY <1>1, <1>2, <1>3, PTL DEF Spec

----------------------------------------------------------------------------
(* XPNeverOvercounts.  As with the index, the XP of the answers saved and  *)
(* not yet counted is owed to the session.  What several requests owe is a *)
(* sum over a set of requests, stated as the size of a pile that holds one *)
(* element for every point of XP.                                          *)

\* One pair <<r, i>> for each of the g[r] points of each request in O.
Pile(O, g) == UNION {{r} \X (1..g[r]) : r \in O}

\* A request's share of the pile.
LEMMA ShareSize ==
    ASSUME NEW r, NEW n \in Nat
    PROVE  IsFiniteSet({r} \X (1..n)) /\ Cardinality({r} \X (1..n)) = n
<1>1. IsFiniteSet({r}) /\ Cardinality({r}) = 1  BY FS_Singleton
<1>2. IsFiniteSet(1..n) /\ Cardinality(1..n) = n  BY FS_Interval
<1> DEFINE A == {r}
           B == 1..n
<1>3. IsFiniteSet(A) /\ Cardinality(A) = 1 /\ IsFiniteSet(B) /\ Cardinality(B) = n
  BY <1>1, <1>2
<1> HIDE DEF A, B
<1>4. IsFiniteSet(A \X B) /\ Cardinality(A \X B) = Cardinality(A) * Cardinality(B)
  BY <1>3, FS_Product
<1>5. Cardinality(A \X B) = n  BY <1>3, <1>4
<1> QED  BY <1>4, <1>5 DEF A, B

\* The pile's size is the sum of the shares: adding a request adds its share.
LEMMA PileSize ==
    ASSUME NEW O \in SUBSET Reqs, NEW g \in [Reqs -> Nat]
    PROVE  /\ IsFiniteSet(Pile(O, g)) /\ Cardinality(Pile(O, g)) \in Nat
           /\ \A r \in Reqs \ O :
                Cardinality(Pile(O \union {r}, g)) = Cardinality(Pile(O, g)) + g[r]
<1> DEFINE Shares == {{r} \X (1..g[r]) : r \in O}
           f == [r \in O |-> {r} \X (1..g[r])]
<1>1. IsFiniteSet(O)  BY BoundsAssumption, FS_Subset
<1>2. f \in Surjection(O, Shares)  BY DEF Surjection
<1>3. IsFiniteSet(Shares)
  <2> HIDE DEF f, Shares
  <2> QED  BY <1>1, <1>2, FS_Surjection
<1>4. \A T \in Shares : IsFiniteSet(T)
  <2> SUFFICES ASSUME NEW r \in O PROVE IsFiniteSet({r} \X (1..g[r]))  OBVIOUS
  <2>1. g[r] \in Nat  OBVIOUS
  <2> QED  BY <2>1, ShareSize
<1>5. IsFiniteSet(Pile(O, g))
  <2>1. Pile(O, g) = UNION Shares  BY DEF Pile
  <2> HIDE DEF Shares
  <2> QED  BY <2>1, <1>3, <1>4, FS_UNION
<1>6. Cardinality(Pile(O, g)) \in Nat  BY <1>5, FS_CardinalityType
<1>7. ASSUME NEW r \in Reqs \ O
      PROVE  Cardinality(Pile(O \union {r}, g)) = Cardinality(Pile(O, g)) + g[r]
  <2> DEFINE S == {r} \X (1..g[r])
             P == Pile(O, g)
  <2>1. g[r] \in Nat  OBVIOUS
  <2>2. IsFiniteSet(S) /\ Cardinality(S) = g[r]  BY <2>1, ShareSize
  <2>3. Pile(O \union {r}, g) = P \union S  BY Zenon DEF Pile
  <2>4. P \cap S = {}
    <3> SUFFICES ASSUME NEW p \in P, p \in S PROVE FALSE  OBVIOUS
    <3>1. PICK q \in O : p \in {q} \X (1..g[q])  BY DEF Pile
    <3>2. p[1] = q /\ p[1] = r  BY <3>1
    <3> QED  BY <3>2
  <2> HIDE DEF P, S
  <2>5. Cardinality(P \union S) = Cardinality(P) + Cardinality(S) - Cardinality(P \cap S)
    BY <1>5, <2>2, FS_Union DEF P
  <2>6. Cardinality(P \cap S) = 0  BY <2>4, FS_EmptySet
  <2>7. Cardinality(P) \in Nat  BY <1>6 DEF P
  <2>8. Cardinality(P \union S) = Cardinality(P) + g[r]
    BY <2>1, <2>2, <2>5, <2>6, <2>7
  <2> QED  BY <2>3, <2>8 DEF P
<1> QED  BY <1>5, <1>6, <1>7

\* Fewer requests owe no more.
LEMMA PileSubset ==
    ASSUME NEW O \in SUBSET Reqs, NEW g \in [Reqs -> Nat],
           NEW Q \in SUBSET O, NEW h \in [Reqs -> Nat], \A r \in Q : h[r] = g[r]
    PROVE  /\ Cardinality(Pile(Q, h)) \in Nat
           /\ Cardinality(Pile(Q, h)) <= Cardinality(Pile(O, g))
<1>1. Pile(Q, h) \subseteq Pile(O, g)  BY DEF Pile
<1>2. IsFiniteSet(Pile(O, g))  BY PileSize
<1>3. Q \in SUBSET Reqs  OBVIOUS
<1> QED  BY <1>1, <1>2, <1>3, FS_Subset, PileSize

Gain == [r \in Reqs |-> req[r].gain]

\* The XP saved with a session's results and not yet added to its total.
Due(s) == Cardinality(Pile(Owed(s), Gain))

\* The stored total, and every total a request read and may write back, leave
\* room for what is due.  A request at "update" adds its own share, which is
\* due; one at "complete" writes back what it read.
XPInv ==
    \A s \in Sessions :
        /\ sess[s].xp + Due(s) <= results[s].xp
        /\ \A r \in Reqs : (req[r].at \in {"update", "complete"} /\ req[r].s = s) =>
             req[r].row.xp + Due(s) <= results[s].xp

\* What is due is a number, in every state.
LEMMA DueType ==
    ASSUME TypeOK, NEW s
    PROVE  /\ Owed(s) \in SUBSET Reqs /\ Gain \in [Reqs -> Nat] /\ Due(s) \in Nat
           /\ \A r \in Reqs : Gain[r] = req[r].gain
<1>1. Owed(s) \in SUBSET Reqs /\ Gain \in [Reqs -> Nat]
  BY DEF Owed, Gain, TypeOK, ReqState
<1>2. Due(s) \in Nat  BY <1>1, PileSize DEF Due
<1> QED  BY <1>1, <1>2 DEF Gain

\* The numbers XPInv adds.
LEMMA XPTypes ==
    ASSUME TypeOK
    PROVE  /\ \A s \in Sessions : sess[s].xp \in Nat /\ results[s].xp \in Nat
           /\ \A r \in Reqs : req[r].gain \in Nat /\ req[r].row.xp \in Nat
           /\ \A r \in Reqs : req[r].at # "idle" => req[r].s \in Sessions
BY DEF TypeOK, Row, ReqState

\* Nothing is due initially.
LEMMA XPInit == Init => XPInv
<1> SUFFICES ASSUME Init PROVE XPInv  OBVIOUS
<1>1. \A r \in Reqs : req[r].at = "idle"  BY DEF Init, Idle
<1>2. \A s \in Sessions : Owed(s) = {}  BY <1>1 DEF Owed
<1>3. Pile({}, Gain) = {}  BY DEF Pile
<1>4. \A s \in Sessions : Due(s) = 0  BY <1>2, <1>3, FS_EmptySet DEF Due
<1> QED  BY <1>1, <1>4 DEF Init, XPInv, None

\* A step in which no request comes to owe anything makes no more due.
LEMMA DueShrinks ==
    ASSUME TypeOK, TypeOK', NEW s,
           \A q \in Reqs : req'[q].at \in {"refetch", "update"} =>
              /\ req[q].at \in {"refetch", "update"}
              /\ req'[q].s = req[q].s /\ req'[q].gain = req[q].gain
    PROVE  Due(s)' <= Due(s)
<1> DEFINE O == Owed(s)
           Q == Owed(s)'
           g == Gain
           h == Gain'
<1>1. O \in SUBSET Reqs /\ g \in [Reqs -> Nat] /\ h \in [Reqs -> Nat]
  BY DEF TypeOK, ReqState, Owed, Gain
<1>2. Q \in SUBSET O  BY DEF Owed
<1>3. \A r \in Q : h[r] = g[r]  BY DEF Owed, Gain
<1>4. Due(s) = Cardinality(Pile(O, g)) /\ Due(s)' = Cardinality(Pile(Q, h))
  BY DEF Due, Pile
<1> HIDE DEF O, Q, g, h
<1>5. Cardinality(Pile(Q, h)) <= Cardinality(Pile(O, g))
  BY <1>1, <1>2, <1>3, PileSubset
<1> QED  BY <1>4, <1>5

\* A step that saves no answer and writes no total other than one that was
\* stored or read keeps XPInv.
LEMMA XPKept ==
    ASSUME TypeOK, TypeOK', XPInv, UNCHANGED results,
           \A s \in Sessions :
              \/ sess'[s].xp = sess[s].xp
              \/ \E r \in Reqs : /\ req[r].at = "complete" /\ req[r].s = s
                                 /\ sess'[s].xp = req[r].row.xp,
           \A q \in Reqs : req'[q].at \in {"refetch", "update"} =>
              /\ req[q].at \in {"refetch", "update"}
              /\ req'[q].s = req[q].s /\ req'[q].gain = req[q].gain,
           \A q \in Reqs : req'[q].at \in {"update", "complete"} =>
              \/ /\ req[q].at = req'[q].at
                 /\ req'[q].s = req[q].s /\ req'[q].row = req[q].row
              \/ req'[q].row = sess[req'[q].s]
    PROVE  XPInv'
<1>1. \A s : Due(s)' <= Due(s) /\ Due(s) \in Nat /\ Due(s)' \in Nat
  <2> TAKE s
  <2>1. Due(s)' <= Due(s)  BY DueShrinks
  <2>2. Due(s) \in Nat  BY DueType
  <2>3. Due(s)' \in Nat
    <3> DEFINE Q == Owed(s)'
               h == Gain'
    <3>1. Q \in SUBSET Reqs /\ h \in [Reqs -> Nat]  BY DEF TypeOK, ReqState, Owed, Gain
    <3>2. Due(s)' = Cardinality(Pile(Q, h))  BY DEF Due, Pile
    <3> HIDE DEF Q, h
    <3> QED  BY <3>1, <3>2, PileSize
  <2> QED  BY <2>1, <2>2, <2>3
<1>2. ASSUME NEW s \in Sessions PROVE sess'[s].xp + Due(s)' <= results'[s].xp
  <2>1. Due(s)' <= Due(s) /\ Due(s) \in Nat /\ Due(s)' \in Nat  BY <1>1
  <2>2. sess[s].xp \in Nat /\ results[s].xp \in Nat  BY XPTypes
  <2>3. CASE sess'[s].xp = sess[s].xp
    <3>1. sess[s].xp + Due(s) <= results[s].xp  BY DEF XPInv
    <3> QED  BY <2>1, <2>2, <2>3, <3>1
  <2>4. ASSUME NEW r \in Reqs, req[r].at = "complete", req[r].s = s,
               sess'[s].xp = req[r].row.xp
        PROVE  sess'[s].xp + Due(s)' <= results'[s].xp
    <3>1. req[r].row.xp + Due(s) <= results[s].xp /\ req[r].row.xp \in Nat
      BY <2>4, XPTypes DEF XPInv
    <3> QED  BY <2>1, <2>2, <2>4, <3>1
  <2> QED  BY <2>3, <2>4
<1>3. ASSUME NEW s \in Sessions, NEW q \in Reqs,
             req'[q].at \in {"update", "complete"}, req'[q].s = s
      PROVE  req'[q].row.xp + Due(s)' <= results'[s].xp
  <2>1. Due(s)' <= Due(s) /\ Due(s) \in Nat /\ Due(s)' \in Nat  BY <1>1
  <2>2. sess[s].xp \in Nat /\ results[s].xp \in Nat /\ req[q].row.xp \in Nat  BY XPTypes
  <2>3. CASE req[q].at = req'[q].at /\ req[q].s = s /\ req'[q].row = req[q].row
    <3>1. req[q].row.xp + Due(s) <= results[s].xp  BY <1>3, <2>3 DEF XPInv
    <3> QED  BY <2>1, <2>2, <2>3, <3>1
  <2>4. CASE req'[q].row = sess[s]
    <3>1. sess[s].xp + Due(s) <= results[s].xp  BY DEF XPInv
    <3> QED  BY <2>1, <2>2, <2>4, <3>1
  <2> QED  BY <1>3, <2>3, <2>4
<1> QED  BY <1>2, <1>3 DEF XPInv

\* Saving an answer makes its XP due, and the results hold it.
LEMMA XPSaved ==
    ASSUME TypeOK, TypeOK', XPInv, NEW r \in Reqs, SubmitSave(r), results' # results
    PROVE  XPInv'
<1> DEFINE z == req[r].s
<1>1. /\ req' = [req EXCEPT ![r].at = "refetch"] /\ req[r].at = "save" /\ z \in Sessions
      /\ sess' = sess
      /\ \A s \in Sessions : results'[s].xp =
           IF s = z THEN results[s].xp + req[r].gain ELSE results[s].xp
  BY DEF SubmitSave, TypeOK
<1>2. /\ req'[r].at = "refetch" /\ req'[r].s = z /\ req'[r].gain = req[r].gain
      /\ \A q \in Reqs : q # r => req'[q] = req[q]
  BY <1>1 DEF TypeOK, ReqState
<1>3. \A s : Due(s) \in Nat /\ Due(s)' = IF s = z THEN Due(s) + req[r].gain ELSE Due(s)
  <2> TAKE s
  <2> DEFINE O == Owed(s)
             g == Gain
             Q == Owed(s)'
             h == Gain'
  <2>1. O \in SUBSET Reqs /\ g \in [Reqs -> Nat] /\ g[r] = req[r].gain /\ Due(s) \in Nat
    BY DueType
  <2>2. r \notin O  BY <1>1 DEF Owed
  <2>3. Q = IF s = z THEN O \union {r} ELSE O
    <3>1. \A q \in Reqs : q \in Q <=> (q \in O \/ (q = r /\ s = z))
      BY <1>1, <1>2 DEF Owed
    <3>2. Q \subseteq Reqs  BY DEF Owed
    <3> QED  BY <2>1, <3>1, <3>2
  <2>4. h = g  BY <1>2 DEF Gain
  <2>5. Due(s) = Cardinality(Pile(O, g)) /\ Due(s)' = Cardinality(Pile(Q, h))
    BY DEF Due, Pile
  <2> HIDE DEF O, Q, g, h
  <2>6. Cardinality(Pile(O \union {r}, g)) = Cardinality(Pile(O, g)) + g[r]
    BY <2>1, <2>2, PileSize
  <2> QED  BY <2>1, <2>3, <2>4, <2>5, <2>6
<1> HIDE DEF z
<1>4. ASSUME NEW s \in Sessions PROVE sess'[s].xp + Due(s)' <= results'[s].xp
  <2>1. sess[s].xp + Due(s) <= results[s].xp  BY DEF XPInv
  <2> QED  BY <1>1, <1>3, <2>1, XPTypes
<1>5. ASSUME NEW s \in Sessions, NEW q \in Reqs,
             req'[q].at \in {"update", "complete"}, req'[q].s = s
      PROVE  req'[q].row.xp + Due(s)' <= results'[s].xp
  <2>1. q # r /\ req'[q] = req[q]  BY <1>2, <1>5
  <2>2. req[q].row.xp + Due(s) <= results[s].xp  BY <1>5, <2>1 DEF XPInv
  <2> QED  BY <1>1, <1>3, <2>1, <2>2, XPTypes
<1> QED  BY <1>4, <1>5 DEF XPInv

\* Writing the counters pays the answer's XP into the total that was read.
LEMMA XPPaid ==
    ASSUME TypeOK, TypeOK', XPInv, NEW r \in Reqs, SubmitUpdate(r)
    PROVE  XPInv'
<1> DEFINE z == req[r].s
           new == Advanced(req[r].row, req[r].right, req[r].gain)
<1>1. /\ req' = [req EXCEPT ![r] = Idle] /\ req[r].at = "update"
      /\ z \in Sessions /\ results' = results
      /\ \/ sess' = sess
         \/ sess' = [sess EXCEPT ![z].idx = new.idx, ![z].xp = new.xp, ![z].acc = new.acc]
  BY DEF SubmitUpdate, TypeOK
<1>2. new.xp = req[r].row.xp + req[r].gain  BY DEF Advanced
<1> HIDE DEF new
<1>3. \A s \in Sessions : \/ sess'[s].xp = sess[s].xp
                          \/ s = z /\ sess'[s].xp = req[r].row.xp + req[r].gain
  BY <1>1, <1>2 DEF TypeOK, Row
<1>4. req'[r].at = "idle" /\ \A q \in Reqs : q # r => req'[q] = req[q]
  BY <1>1 DEF TypeOK, Idle
<1>5. \A s : /\ Due(s) \in Nat /\ Due(s)' \in Nat
             /\ Due(s) = IF s = z THEN Due(s)' + req[r].gain ELSE Due(s)'
  <2> TAKE s
  <2> DEFINE O == Owed(s)
             g == Gain
             Q == Owed(s)'
             h == Gain'
  <2>1. O \in SUBSET Reqs /\ g \in [Reqs -> Nat] /\ g[r] = req[r].gain /\ Due(s) \in Nat
    BY DueType
  <2>2. Q \in SUBSET Reqs /\ h \in [Reqs -> Nat]  BY DEF TypeOK, ReqState, Owed, Gain
  <2>3. r \notin Q /\ O = IF s = z THEN Q \union {r} ELSE Q
    <3>1. \A q \in Reqs : q \in O <=> (q \in Q \/ (q = r /\ s = z))
      BY <1>1, <1>4 DEF Owed
    <3>2. r \notin Q  BY <1>4 DEF Owed
    <3> QED  BY <2>1, <2>2, <3>1, <3>2
  <2>4. \A q \in Q : h[q] = g[q]  BY <1>4, <2>3 DEF Gain, Owed
  <2>5. Due(s) = Cardinality(Pile(O, g)) /\ Due(s)' = Cardinality(Pile(Q, h))
    BY DEF Due, Pile
  <2> HIDE DEF O, Q, g, h
  <2>6. Pile(Q, h) = Pile(Q, g)  BY <2>4 DEF Pile
  <2>7. Cardinality(Pile(Q \union {r}, g)) = Cardinality(Pile(Q, g)) + g[r]
        /\ Cardinality(Pile(Q, h)) \in Nat
    BY <2>1, <2>2, <2>3, PileSize
  <2> QED  BY <2>1, <2>3, <2>5, <2>6, <2>7
<1> HIDE DEF z
<1>6. ASSUME NEW s \in Sessions PROVE sess'[s].xp + Due(s)' <= results'[s].xp
  <2>1. sess[s].xp + Due(s) <= results[s].xp  BY DEF XPInv
  <2>2. s = z => req[r].row.xp + Due(s) <= results[s].xp  BY <1>1 DEF XPInv, z
  <2>3. Due(s) \in Nat /\ Due(s)' \in Nat
        /\ Due(s) = IF s = z THEN Due(s)' + req[r].gain ELSE Due(s)'
    BY <1>5
  <2>4. sess[s].xp \in Nat /\ results[s].xp \in Nat /\ req[r].gain \in Nat
        /\ req[r].row.xp \in Nat
    BY XPTypes
  <2>5. CASE sess'[s].xp = sess[s].xp
    BY <1>1, <2>1, <2>3, <2>4, <2>5
  <2>6. CASE s = z /\ sess'[s].xp = req[r].row.xp + req[r].gain
    BY <1>1, <2>2, <2>3, <2>4, <2>6
  <2> QED  BY <1>3, <2>5, <2>6
<1>7. ASSUME NEW s \in Sessions, NEW q \in Reqs,
             req'[q].at \in {"update", "complete"}, req'[q].s = s
      PROVE  req'[q].row.xp + Due(s)' <= results'[s].xp
  <2>1. q # r /\ req'[q] = req[q]  BY <1>4, <1>7
  <2>2. req[q].row.xp + Due(s) <= results[s].xp  BY <1>7, <2>1 DEF XPInv
  <2>3. Due(s) \in Nat /\ Due(s)' \in Nat
        /\ Due(s) = IF s = z THEN Due(s)' + req[r].gain ELSE Due(s)'
    BY <1>5
  <2>4. results[s].xp \in Nat /\ req[r].gain \in Nat /\ req[q].row.xp \in Nat
    BY XPTypes
  <2> QED  BY <1>1, <2>1, <2>2, <2>3, <2>4
<1> QED  BY <1>6, <1>7 DEF XPInv

\* Every step keeps XPInv.
LEMMA XPStep ==
    ASSUME TypeOK, TypeOK', LifeInv, XPInv, Next
    PROVE  XPInv'
<1> DEFINE Rows ==
      \A s \in Sessions :
         \/ sess'[s].xp = sess[s].xp
         \/ \E r \in Reqs : /\ req[r].at = "complete" /\ req[r].s = s
                            /\ sess'[s].xp = req[r].row.xp
<1>0. ASSUME NEW r \in Reqs, UNCHANGED results, Rows,
             \A q \in Reqs : q # r => req'[q] = req[q],
             req'[r].at \in {"refetch", "update"} =>
                /\ req[r].at \in {"refetch", "update"}
                /\ req'[r].s = req[r].s /\ req'[r].gain = req[r].gain,
             req'[r].at \in {"update", "complete"} => req'[r].row = sess[req'[r].s]
      PROVE  XPInv'
  <2>1. \A q \in Reqs : req'[q].at \in {"refetch", "update"} =>
              /\ req[q].at \in {"refetch", "update"}
              /\ req'[q].s = req[q].s /\ req'[q].gain = req[q].gain
    BY <1>0
  <2>2. \A q \in Reqs : req'[q].at \in {"update", "complete"} =>
              \/ /\ req[q].at = req'[q].at
                 /\ req'[q].s = req[q].s /\ req'[q].row = req[q].row
              \/ req'[q].row = sess[req'[q].s]
    BY <1>0
  <2> QED  BY <1>0, <2>1, <2>2, XPKept
<1>1. ASSUME NEW r \in Reqs, NEW s \in Sessions, GenerateBegin(r, s) PROVE XPInv'
  <2>1. /\ UNCHANGED <<results, sess>> /\ req'[r].at = "create"
        /\ \A q \in Reqs : q # r => req'[q] = req[q]
    BY <1>1 DEF GenerateBegin, dbVars, TypeOK, Idle
  <2> QED  BY <2>1, <1>0
<1>2. ASSUME NEW r \in Reqs, GenerateCreate(r) PROVE XPInv'
  <2>1. req[r].at = "create" /\ req[r].s \in Sessions  BY <1>2 DEF GenerateCreate, TypeOK
  <2>2. sess[req[r].s] = None  BY <2>1 DEF LifeInv
  <2>3. Rows  BY <1>2, <2>1, <2>2 DEF GenerateCreate, TypeOK, None
  <2>4. /\ UNCHANGED results /\ req'[r].at \in {"items", "idle"}
        /\ \A q \in Reqs : q # r => req'[q] = req[q]
    BY <1>2 DEF GenerateCreate, TypeOK, ReqState, Idle
  <2> QED  BY <2>3, <2>4, <1>0
<1>3. ASSUME NEW r \in Reqs, GenerateItems(r) \/ CompleteLevel(r) PROVE XPInv'
  <2>1. /\ UNCHANGED <<results, sess>> /\ req'[r].at = "idle"
        /\ \A q \in Reqs : q # r => req'[q] = req[q]
    BY <1>3 DEF GenerateItems, CompleteLevel, TypeOK, Idle
  <2> QED  BY <2>1, <1>0
<1>4. ASSUME NEW r \in Reqs, NEW s \in Sessions, NEW b \in BOOLEAN, SubmitBegin(r, s, b)
      PROVE  XPInv'
  <2>1. /\ UNCHANGED <<results, sess>> /\ req'[r].at \in {"upsert", "save"}
        /\ \A q \in Reqs : q # r => req'[q] = req[q]
    BY <1>4 DEF SubmitBegin, dbVars, TypeOK, Idle
  <2> QED  BY <2>1, <1>0
<1>5. ASSUME NEW r \in Reqs,
             SubmitUpsert(r) \/ CompleteRecord(r) \/ CompleteStats(r)
      PROVE  XPInv'
  <2>1. /\ UNCHANGED <<results, sess>> /\ req'[r].at \in {"save", "stats", "level"}
        /\ \A q \in Reqs : q # r => req'[q] = req[q]
    BY <1>5 DEF SubmitUpsert, CompleteRecord, CompleteStats, dbVars, TypeOK, ReqState
  <2> QED  BY <2>1, <1>0
<1>6. ASSUME NEW r \in Reqs, SubmitSave(r) PROVE XPInv'
  <2>1. CASE results' # results
    BY <1>6, <2>1, XPSaved
  <2>2. CASE UNCHANGED results
    <3>1. req[r].s \in Sessions  BY <1>6 DEF SubmitSave, TypeOK
    <3>2. results[req[r].s].n # results[req[r].s].n + 1  BY <3>1 DEF TypeOK
    <3>3. req' = [req EXCEPT ![r] = Idle]  BY <1>6, <2>2, <3>1, <3>2 DEF SubmitSave, TypeOK
    <3>4. /\ UNCHANGED sess /\ req'[r].at = "idle"
          /\ \A q \in Reqs : q # r => req'[q] = req[q]
      BY <1>6, <3>3 DEF SubmitSave, TypeOK, Idle
    <3> QED  BY <2>2, <3>4, <1>0
  <2> QED  BY <2>1, <2>2
<1>7. ASSUME NEW r \in Reqs, SubmitRefetch(r) PROVE XPInv'
  <2>1. UNCHANGED <<results, sess>> /\ req[r].at = "refetch" /\ req[r].s \in Sessions
    BY <1>7 DEF SubmitRefetch, dbVars, TypeOK
  <2>2. CASE req' = [req EXCEPT ![r] = Idle]
    <3>1. req'[r].at = "idle" /\ \A q \in Reqs : q # r => req'[q] = req[q]
      BY <2>2 DEF TypeOK, Idle
    <3> QED  BY <2>1, <3>1, <1>0
  <2>3. CASE req' = [req EXCEPT ![r].at = "update", ![r].row = sess[req[r].s]]
    <3>1. /\ req'[r].at = "update" /\ req'[r].s = req[r].s /\ req'[r].gain = req[r].gain
          /\ req'[r].row = sess[req[r].s]
          /\ \A q \in Reqs : q # r => req'[q] = req[q]
      BY <2>3 DEF TypeOK, ReqState
    <3> QED  BY <2>1, <3>1, <1>0
  <2> QED  BY <1>7, <2>2, <2>3 DEF SubmitRefetch
<1>8. ASSUME NEW r \in Reqs, SubmitUpdate(r) PROVE XPInv'
  BY <1>8, XPPaid
<1>9. ASSUME NEW r \in Reqs, NEW s \in Sessions, CompleteBegin(r, s) PROVE XPInv'
  <2>1. /\ UNCHANGED <<results, sess>> /\ req'[r].at = "complete"
        /\ req'[r].s = s /\ req'[r].row = sess[s]
        /\ \A q \in Reqs : q # r => req'[q] = req[q]
    BY <1>9 DEF CompleteBegin, dbVars, TypeOK, Idle
  <2> QED  BY <2>1, <1>0
<1>10. ASSUME NEW r \in Reqs, CompleteWrite(r) PROVE XPInv'
  <2>1. req[r].at = "complete" /\ req[r].s \in Sessions  BY <1>10 DEF CompleteWrite, TypeOK
  <2>2. Rows  BY <1>10, <2>1 DEF CompleteWrite, TypeOK, Row
  <2>3. /\ UNCHANGED results /\ req'[r].at \in {"record", "idle"}
        /\ \A q \in Reqs : q # r => req'[q] = req[q]
    BY <1>10 DEF CompleteWrite, TypeOK, ReqState, Idle
  <2> QED  BY <2>2, <2>3, <1>0
<1>11. ASSUME NextDay \/ Stop PROVE XPInv'
  <2>1. UNCHANGED <<results, sess>> /\ \A q \in Reqs : req'[q] = req[q] \/ req'[q].at = "idle"
    BY <1>11 DEF NextDay, Stop, dbVars, Idle
  <2>2. \A q \in Reqs : req'[q].at \in {"refetch", "update"} =>
              /\ req[q].at \in {"refetch", "update"}
              /\ req'[q].s = req[q].s /\ req'[q].gain = req[q].gain
    BY <2>1
  <2>3. \A q \in Reqs : req'[q].at \in {"update", "complete"} =>
              \/ /\ req[q].at = req'[q].at
                 /\ req'[q].s = req[q].s /\ req'[q].row = req[q].row
              \/ req'[q].row = sess[req'[q].s]
    BY <2>1
  <2> QED  BY <2>1, <2>2, <2>3, XPKept
<1> QED
  BY <1>1, <1>2, <1>3, <1>4, <1>5, <1>6, <1>7, <1>8, <1>9, <1>10, <1>11 DEF Next

\* No step invents XP: a session's total never exceeds what its saved answers
\* earned, however many requests overlap, lose each other's updates, fail or
\* are cut off, and whatever XP an answer may earn.
THEOREM XPNeverInvented == Spec => []XPNeverOvercounts
<1> DEFINE Inv == TypeOK /\ LifeInv /\ XPInv
<1>1. Init => Inv  BY TypeInit, LifeInit, XPInit
<1>2. Inv /\ [Next]_vars => Inv'
  <2> SUFFICES ASSUME Inv, [Next]_vars PROVE Inv'  OBVIOUS
  <2>1. TypeOK' /\ LifeInv'  BY TypeStep, LifeStep
  <2>2. CASE Next  BY <2>1, <2>2, XPStep
  <2>3. CASE UNCHANGED vars
    BY <2>1, <2>3 DEF vars, XPInv, Due, Owed, Gain, Pile
  <2> QED  BY <2>2, <2>3
<1>3. Inv => XPNeverOvercounts
  <2> SUFFICES ASSUME TypeOK, XPInv, NEW s \in Sessions PROVE sess[s].xp <= results[s].xp
    BY DEF XPNeverOvercounts
  <2>1. sess[s].xp + Due(s) <= results[s].xp  BY DEF XPInv
  <2>2. Due(s) \in Nat  BY DueType
  <2> QED  BY <2>1, <2>2, XPTypes
<1> QED  BY <1>1, <1>2, <1>3, PTL DEF Spec

-----------------------------------------------------------------------------
(* One request at a time                                                   *)

\* The HTTP server handles one request at a time.
OneRequest == \A q, r \in Reqs : q = r

\* No statement fails and the process does not stop.
NoFaults == MaxFaults = 0

\* A session is short enough for the roundings of its accuracy not to add up
\* to a whole answer: up to 62 items.
ShortSessions == \A n \in ItemCounts : n * (n + 1) < 4 * Unit

\* Level 2 is not reached with no XP at all.
LevelsEarned == \A l \in DOMAIN XPForLevel : XPForLevel[l] \in Nat \ {0}

----------------------------------------------------------------------------
(* Invariants.                                                             *)

\* The accuracy is within the roundings of n writes of right / n.
Near(acc, n, right) ==
    /\ 4 * (acc * n - Unit * right) <= n * (n + 1)
    /\ -(n * (n + 1)) <= 4 * (acc * n - Unit * right)

\* A row's counters are those of its results.
Exact(row, res) == row.idx = res.n /\ row.xp = res.xp /\ Near(row.acc, res.n, res.right)

\* A Submit between saving its answer and writing the counters.
Pending(r) == req[r].at \in {"refetch", "update"}

\* A request that goes on to use the row it read.
Holding(r) == req[r].at \in {"update", "complete", "record", "stats", "level"}

\* ProgressExact is not inductive: while a Submit is pending, the row is one
\* answer behind, and what Advanced makes of it is exact.
RowsInv ==
    /\ \A s \in Sessions :
         (\A r \in Reqs : Pending(r) => req[r].s # s) => Exact(sess[s], results[s])
    /\ \A r \in Reqs : Pending(r) =>
         Exact(Advanced(sess[req[r].s], req[r].right, req[r].gain), results[req[r].s])
    /\ \A r \in Reqs : Holding(r) =>
         LET row == sess[req[r].s] IN
         req[r].row.idx = row.idx /\ req[r].row.xp = row.xp /\ req[r].row.acc = row.acc
    /\ \A s \in Sessions : items[s] \in ItemCounts \union {0}

\* The streak's last day is the last active one, and a request about to record
\* its day is not earlier than that.
StreakInv ==
    /\ day >= 1 /\ active \subseteq 1..day
    /\ streak.last \in active \union {0}
    /\ \A d \in active : d <= streak.last
    /\ \A r \in Reqs : req[r].at = "record" =>
         req[r].today >= 1 /\ streak.last <= req[r].today /\ req[r].today <= day
    /\ StreakHonest

\* The level is that of the XP, except between RecordActivity and UpdateLevel,
\* whose request holds the total it will store the level of.
LevelInv ==
    /\ \A r \in Reqs : (StreaksUsable /\ req[r].at \in {"stats", "level"}) =>
         streak.last # 0
    /\ \A r \in Reqs : (StreaksUsable /\ req[r].at = "level") => req[r].total = streak.xp
    /\ (\A r \in Reqs : req[r].at \notin {"stats", "level"}) =>
         streak.level = LevelFromXP(streak.xp)
    /\ ~StreaksUsable => streak = NoStreak

\* XP is credited with a day, and an answer in flight earns what one may earn.
CreditInv ==
    /\ streak.last = 0 => streak.xp = 0
    /\ \A r \in Reqs : req[r].at \in {"upsert", "save", "refetch", "update"} =>
         req[r].gain \in XpOf[TRUE] \union XpOf[FALSE]

----------------------------------------------------------------------------
(* Accuracy arithmetic.                                                    *)

\* Rounding moves a quotient by half a unit at most.
LEMMA RoundedClose ==
    ASSUME NEW num \in Nat, NEW den \in Nat \ {0}
    PROVE  /\ Rounded(num, den) \in Int
           /\ 2 * (Rounded(num, den) * den - num) <= den
           /\ -den <= 2 * (Rounded(num, den) * den - num)
<1> DEFINE x == 2 * num + den
           y == 2 * den
           q == x \div y
<1>1. q \in Int /\ x % y \in 0..(y - 1) /\ x = y * q + (x % y)
  BY SMT
<1>2. Rounded(num, den) = q  BY DEF Rounded
<1> HIDE DEF q
<1>3. \A a, b \in Int : (2 * a) * b = 2 * (b * a) /\ b * a \in Int  BY SMT
<1>4. y * q = 2 * (q * den) /\ q * den \in Int /\ q \in Int  BY <1>1, <1>3
<1> QED  BY <1>1, <1>2, <1>3, <1>4

\* The error allowed for one answer more.
LEMMA NextTriangle == \A n \in Nat : (n + 1) * (n + 2) = n * (n + 1) + 2 * (n + 1)
BY SMT

\* Counting an answer keeps the accuracy within the roundings.
LEMMA NearStep ==
    ASSUME NEW acc \in Nat, NEW n \in Nat, NEW right \in Nat, Near(acc, n, right),
           NEW b \in {0, 1}
    PROVE  Near(Rounded(acc * n + (IF b = 1 THEN Unit ELSE 0), n + 1), n + 1, right + b)
<1> DEFINE m == acc * n
           num == m + (IF b = 1 THEN Unit ELSE 0)
           q == Rounded(num, n + 1)
           t == n * (n + 1)
           w == q * (n + 1)
           u == Unit * right
<1>1. m \in Nat /\ t \in Nat /\ u \in Nat  BY UnitNat, SMT
<1>2. num \in Nat  BY <1>1, UnitNat
<1>3. q \in Int /\ 2 * (w - num) <= n + 1 /\ -(n + 1) <= 2 * (w - num)
  <2> HIDE DEF num
  <2> QED  BY <1>2, RoundedClose
<1>4. w \in Int  BY <1>3, SMT
<1>5. 4 * (m - u) <= t /\ -t <= 4 * (m - u)  BY DEF Near
<1>6. (n + 1) * (n + 1 + 1) = t + 2 * (n + 1)  BY NextTriangle
<1>7. Unit * (right + b) = u + (IF b = 1 THEN Unit ELSE 0)
  <2>1. CASE b = 0  BY <2>1, UnitNat
  <2>2. CASE b = 1
    <3>1. Unit * (right + 1) = Unit * right + Unit  BY UnitNat, SMT
    <3> QED  BY <2>2, <3>1
  <2> QED  BY <2>1, <2>2
<1> DEFINE e == IF b = 1 THEN Unit ELSE 0
<1>8. e \in Nat /\ num = m + e /\ Unit * (right + b) = u + e  BY <1>7, UnitNat
<1>9. 4 * (w - (u + e)) <= t + 2 * (n + 1) /\ -(t + 2 * (n + 1)) <= 4 * (w - (u + e))
  <2> HIDE DEF m, num, q, t, w, u, e
  <2> QED  BY <1>1, <1>3, <1>4, <1>5, <1>8
<1>10. Near(q, n + 1, right + b)
  <2> HIDE DEF e, q
  <2> QED  BY <1>6, <1>8, <1>9 DEF Near
<1> QED  BY <1>10

\* The counters computed from an exact row are exact for the results with the
\* answer.
LEMMA AdvancedExact ==
    ASSUME NEW row \in Row, NEW res \in [n : Nat, right : Nat, xp : Nat],
           NEW new \in [n : Nat, right : Nat, xp : Nat],
           NEW b \in BOOLEAN, NEW x \in Nat, Exact(row, res),
           new.n = res.n + 1, new.xp = res.xp + x,
           new.right = res.right + (IF b THEN 1 ELSE 0)
    PROVE  Exact(Advanced(row, b, x), new)
<1> DEFINE k == IF b THEN 1 ELSE 0
           a == Rounded(row.acc * row.idx + (IF b THEN Unit ELSE 0), row.idx + 1)
<1>1. row.acc \in Nat /\ row.idx \in Nat /\ row.xp \in Nat  BY UnitNat DEF Row
<1>2. Near(row.acc, row.idx, res.right) /\ res.right \in Nat  BY DEF Exact
<1>3. k \in {0, 1} /\ (k = 1 <=> b)  OBVIOUS
<1>4. Near(Rounded(row.acc * row.idx + (IF k = 1 THEN Unit ELSE 0), row.idx + 1),
           row.idx + 1, res.right + k)
  <2> HIDE DEF k
  <2> QED  BY <1>1, <1>2, <1>3, NearStep
<1>5. Near(a, row.idx + 1, res.right + k)  BY <1>3, <1>4
<1>6. Advanced(row, b, x) = [idx |-> row.idx + 1, xp |-> row.xp + x, acc |-> a]
  BY DEF Advanced
<1> HIDE DEF a
<1> QED  BY <1>5, <1>6 DEF Exact

----------------------------------------------------------------------------
(* Progress, step by step.                                                 *)

\* Initially there are neither answers nor counters.
LEMMA RowsInit == Init => RowsInv
<1> SUFFICES ASSUME Init PROVE RowsInv  OBVIOUS
<1>1. \A r \in Reqs : ~Pending(r) /\ ~Holding(r)  BY DEF Init, Idle, Pending, Holding
<1>2. Near(0, 0, 0)  BY UnitNat, SMT DEF Near
<1> QED  BY <1>1, <1>2 DEF Init, RowsInv, Exact, None

\* A step that leaves the counters and the results alone, in which no request
\* starts or ends to be pending, and whose request either goes on holding the
\* row it read or reads it now.
LEMMA RowsKept ==
    ASSUME TypeOK, TypeOK', RowsInv, UNCHANGED results,
           \A s \in Sessions : /\ sess'[s].idx = sess[s].idx /\ sess'[s].xp = sess[s].xp
                               /\ sess'[s].acc = sess[s].acc,
           \A r \in Reqs : Pending(r)' <=> Pending(r),
           \A r \in Reqs : Pending(r) =>
              req'[r].s = req[r].s /\ req'[r].right = req[r].right /\ req'[r].gain = req[r].gain,
           \A r \in Reqs : Holding(r)' =>
              \/ Holding(r) /\ req'[r].s = req[r].s /\ req'[r].row = req[r].row
              \/ req'[r].s \in Sessions /\ req'[r].row = sess[req'[r].s],
           \A s \in Sessions : items'[s] = items[s] \/ items'[s] \in ItemCounts
    PROVE  RowsInv'
<1>1. \A r \in Reqs : req[r].at # "idle" => req[r].s \in Sessions  BY DEF TypeOK
<1>2. \A s \in Sessions : Exact(sess[s], results[s]) => Exact(sess'[s], results'[s])
  BY DEF Exact
<1>3. \A s \in Sessions :
        (\A r \in Reqs : Pending(r)' => req'[r].s # s) => Exact(sess'[s], results'[s])
  BY <1>2 DEF RowsInv
<1>4. ASSUME NEW r \in Reqs, Pending(r)'
      PROVE  Exact(Advanced(sess'[req'[r].s], req'[r].right, req'[r].gain), results'[req'[r].s])
  <2>1. Exact(Advanced(sess[req[r].s], req[r].right, req[r].gain), results[req[r].s])
    BY <1>4 DEF RowsInv
  <2>2. req[r].s \in Sessions  BY <1>1, <1>4 DEF Pending
  <2>3. Advanced(sess'[req[r].s], req[r].right, req[r].gain)
          = Advanced(sess[req[r].s], req[r].right, req[r].gain)
    BY <2>2 DEF Advanced
  <2> QED  BY <1>4, <2>1, <2>2, <2>3 DEF Exact
<1>5. ASSUME NEW r \in Reqs, Holding(r)'
      PROVE  LET row == sess'[req'[r].s] IN
             req'[r].row.idx = row.idx /\ req'[r].row.xp = row.xp /\ req'[r].row.acc = row.acc
  BY <1>1, <1>5 DEF RowsInv, Holding
<1> QED  BY <1>3, <1>4, <1>5 DEF RowsInv, Exact, Advanced

\* Saving an answer leaves the row one answer behind the results.
LEMMA RowsSaved ==
    ASSUME OneRequest, TypeOK, TypeOK', RowsInv, NEW r \in Reqs, SubmitSave(r), ~Fault
    PROVE  RowsInv'
<1> DEFINE z == req[r].s
<1>1. /\ req[r].at = "save" /\ z \in Sessions /\ sess' = sess /\ items' = items
      /\ req' = [req EXCEPT ![r].at = "refetch"]
      /\ results' = [results EXCEPT
                ![z].n = @ + 1,
                ![z].right = @ + (IF req[r].right THEN 1 ELSE 0),
                ![z].xp = @ + req[r].gain]
  BY DEF SubmitSave, TypeOK
<1>2. \A q \in Reqs : q = r  BY DEF OneRequest
<1>3. /\ req'[r].at = "refetch" /\ req'[r].s = z /\ req'[r].right = req[r].right
      /\ req'[r].gain = req[r].gain
  <2>1. req \in [Reqs -> ReqState]  BY DEF TypeOK
  <2>2. req'[r] = [req[r] EXCEPT !.at = "refetch"]  BY <1>1, <2>1
  <2>3. req[r] \in ReqState  BY <2>1
  <2> QED  BY <2>2, <2>3 DEF ReqState
<1>4. \A s \in Sessions : Exact(sess[s], results[s])
  BY <1>1, <1>2 DEF RowsInv, Pending
<1>5. /\ results[z] \in [n : Nat, right : Nat, xp : Nat]
      /\ results'[z] \in [n : Nat, right : Nat, xp : Nat]
      /\ sess[z] \in Row /\ req[r].right \in BOOLEAN /\ req[r].gain \in Nat
  BY <1>1 DEF TypeOK, ReqState
<1>6. /\ results'[z].n = results[z].n + 1
      /\ results'[z].right = results[z].right + (IF req[r].right THEN 1 ELSE 0)
      /\ results'[z].xp = results[z].xp + req[r].gain
      /\ \A s \in Sessions \ {z} : results'[s] = results[s]
  BY <1>1 DEF TypeOK
<1>7. Exact(Advanced(sess[z], req[r].right, req[r].gain), results'[z])
  <2>1. Exact(sess[z], results[z])  BY <1>1, <1>4
  <2> HIDE DEF z
  <2> QED  BY <2>1, <1>5, <1>6, AdvancedExact
<1> HIDE DEF z
<1>8. Pending(r)' /\ ~Holding(r)'  BY <1>3 DEF Pending, Holding
<1>9. ASSUME NEW s \in Sessions, \A q \in Reqs : Pending(q)' => req'[q].s # s
      PROVE  Exact(sess'[s], results'[s])
  <2>1. s # z  BY <1>3, <1>8, <1>9
  <2> QED  BY <2>1, <1>1, <1>4, <1>6
<1>10. ASSUME NEW q \in Reqs, Pending(q)'
       PROVE  Exact(Advanced(sess'[req'[q].s], req'[q].right, req'[q].gain), results'[req'[q].s])
  BY <1>1, <1>2, <1>3, <1>7
<1>11. \A q \in Reqs : ~Holding(q)'  BY <1>2, <1>8
<1>12. \A s \in Sessions : items'[s] \in ItemCounts \union {0}  BY <1>1 DEF RowsInv
<1> QED  BY <1>9, <1>10, <1>11, <1>12 DEF RowsInv, Exact, Advanced

\* Writing the counters brings the row up to the results again.
LEMMA RowsUpdated ==
    ASSUME OneRequest, TypeOK, TypeOK', RowsInv, NEW r \in Reqs, SubmitUpdate(r), ~Fault
    PROVE  RowsInv'
<1> DEFINE z == req[r].s
           new == Advanced(req[r].row, req[r].right, req[r].gain)
<1>1. /\ req[r].at = "update" /\ z \in Sessions /\ results' = results /\ items' = items
      /\ req' = [req EXCEPT ![r] = Idle]
      /\ sess' = [sess EXCEPT ![z].idx = new.idx, ![z].xp = new.xp, ![z].acc = new.acc]
  BY DEF SubmitUpdate, TypeOK
<1>2. \A q \in Reqs : q = r  BY DEF OneRequest
<1>3. Pending(r) /\ Holding(r)  BY <1>1 DEF Pending, Holding
<1>4. new = Advanced(sess[z], req[r].right, req[r].gain)
  BY <1>3 DEF RowsInv, Advanced
<1>5. Exact(new, results[z])  BY <1>3, <1>4 DEF RowsInv
<1> HIDE DEF new
<1>6. /\ sess'[z].idx = new.idx /\ sess'[z].xp = new.xp /\ sess'[z].acc = new.acc
      /\ \A s \in Sessions \ {z} : sess'[s] = sess[s]
  BY <1>1 DEF TypeOK, Row
<1>7. \A q \in Reqs : ~Pending(q)' /\ ~Holding(q)'
  <2>1. req'[r].at = "idle"  BY <1>1 DEF TypeOK, Idle
  <2> QED  BY <1>2, <2>1 DEF Pending, Holding
<1>8. ASSUME NEW s \in Sessions PROVE Exact(sess'[s], results'[s])
  <2>1. CASE s = z  BY <1>1, <1>5, <1>6, <2>1 DEF Exact
  <2>2. CASE s # z
    <3>1. Exact(sess[s], results[s])  BY <1>2, <2>2 DEF RowsInv
    <3> QED  BY <1>1, <1>6, <2>2, <3>1
  <2> QED  BY <2>1, <2>2
<1>9. \A s \in Sessions : items'[s] \in ItemCounts \union {0}  BY <1>1 DEF RowsInv
<1> QED  BY <1>7, <1>8, <1>9 DEF RowsInv, Exact

\* Nothing fails: no statement and no stop counts as a fault.
LEMMA FaultFree == ASSUME NoFaults, TypeOK PROVE ~Fault
BY DEF NoFaults, TypeOK, Fault

\* Every step keeps RowsInv.
LEMMA RowsStep ==
    ASSUME OneRequest, NoFaults, TypeOK, TypeOK', LifeInv, RowsInv, Next
    PROVE  RowsInv'
<1>0. ~Fault  BY FaultFree
<1>a. ASSUME NEW r \in Reqs, UNCHANGED results,
             \A s \in Sessions : /\ sess'[s].idx = sess[s].idx /\ sess'[s].xp = sess[s].xp
                                 /\ sess'[s].acc = sess[s].acc,
             Pending(r)' <=> Pending(r),
             Pending(r) =>
               req'[r].s = req[r].s /\ req'[r].right = req[r].right /\ req'[r].gain = req[r].gain,
             Holding(r)' =>
               \/ Holding(r) /\ req'[r].s = req[r].s /\ req'[r].row = req[r].row
               \/ req'[r].s \in Sessions /\ req'[r].row = sess[req'[r].s],
             \A s \in Sessions : items'[s] = items[s] \/ items'[s] \in ItemCounts
      PROVE  RowsInv'
  <2>1. \A q \in Reqs : q = r  BY DEF OneRequest
  <2>2. \A q \in Reqs : Pending(q)' <=> Pending(q)  BY <1>a, <2>1
  <2>3. \A q \in Reqs : Pending(q) =>
          req'[q].s = req[q].s /\ req'[q].right = req[q].right /\ req'[q].gain = req[q].gain
    BY <1>a, <2>1
  <2>4. \A q \in Reqs : Holding(q)' =>
          \/ Holding(q) /\ req'[q].s = req[q].s /\ req'[q].row = req[q].row
          \/ req'[q].s \in Sessions /\ req'[q].row = sess[req'[q].s]
    BY <1>a, <2>1
  <2> QED  BY <1>a, <2>2, <2>3, <2>4, RowsKept
<1> USE DEF Pending, Holding
<1>1. ASSUME NEW r \in Reqs, NEW s \in Sessions, GenerateBegin(r, s) PROVE RowsInv'
  <2>1. UNCHANGED dbVars /\ req[r].at = "idle" /\ req'[r].at = "create"
    BY <1>1 DEF GenerateBegin, TypeOK, Idle
  <2> QED  BY <2>1, <1>a DEF dbVars
<1>2. ASSUME NEW r \in Reqs, GenerateCreate(r) PROVE RowsInv'
  <2>1. /\ req[r].at = "create" /\ req[r].s \in Sessions /\ sess[req[r].s] = None
        /\ req'[r].at = "items" /\ UNCHANGED <<results, items>>
        /\ sess' = [sess EXCEPT ![req[r].s] = [None EXCEPT !.status = "active"]]
    BY <1>0, <1>2 DEF GenerateCreate, TypeOK, LifeInv, ReqState
  <2>2. \A s \in Sessions : /\ sess'[s].idx = sess[s].idx /\ sess'[s].xp = sess[s].xp
                            /\ sess'[s].acc = sess[s].acc
    BY <2>1 DEF TypeOK, None
  <2> QED  BY <2>1, <2>2, <1>a
<1>3. ASSUME NEW r \in Reqs, GenerateItems(r) PROVE RowsInv'
  <2>1. /\ req[r].at = "items" /\ req'[r].at = "idle" /\ UNCHANGED <<results, sess>>
        /\ \E n \in ItemCounts : items' = [items EXCEPT ![req[r].s] = n]
    BY <1>0, <1>3 DEF GenerateItems, TypeOK, Idle
  <2>2. \A s \in Sessions : items'[s] = items[s] \/ items'[s] \in ItemCounts
    BY <2>1 DEF TypeOK
  <2> QED  BY <2>1, <2>2, <1>a
<1>4. ASSUME NEW r \in Reqs, NEW s \in Sessions, NEW b \in BOOLEAN, SubmitBegin(r, s, b)
      PROVE  RowsInv'
  <2>1. UNCHANGED dbVars /\ req[r].at = "idle" /\ req'[r].at \in {"upsert", "save"}
    BY <1>4 DEF SubmitBegin, TypeOK, Idle
  <2> QED  BY <2>1, <1>a DEF dbVars
<1>5. ASSUME NEW r \in Reqs, SubmitUpsert(r) PROVE RowsInv'
  <2>1. UNCHANGED <<results, items, sess>> /\ req[r].at = "upsert" /\ req'[r].at = "save"
    BY <1>5 DEF SubmitUpsert, TypeOK, ReqState
  <2> QED  BY <2>1, <1>a
<1>6. ASSUME NEW r \in Reqs, SubmitSave(r) PROVE RowsInv'
  BY <1>0, <1>6, RowsSaved
<1>7. ASSUME NEW r \in Reqs, SubmitRefetch(r) PROVE RowsInv'
  <2>1. /\ UNCHANGED dbVars /\ req[r].at = "refetch" /\ req[r].s \in Sessions
        /\ req' = [req EXCEPT ![r].at = "update", ![r].row = sess[req[r].s]]
    BY <1>0, <1>7 DEF SubmitRefetch, TypeOK
  <2>2. /\ req'[r].at = "update" /\ req'[r].s = req[r].s /\ req'[r].right = req[r].right
        /\ req'[r].gain = req[r].gain /\ req'[r].row = sess[req[r].s]
    BY <2>1 DEF TypeOK, ReqState
  <2> QED  BY <2>1, <2>2, <1>a DEF dbVars
<1>8. ASSUME NEW r \in Reqs, SubmitUpdate(r) PROVE RowsInv'
  BY <1>0, <1>8, RowsUpdated
<1>9. ASSUME NEW r \in Reqs, NEW s \in Sessions, CompleteBegin(r, s) PROVE RowsInv'
  <2>1. /\ UNCHANGED dbVars /\ req[r].at = "idle" /\ req'[r].at = "complete"
        /\ req'[r].s = s /\ req'[r].row = sess[s]
    BY <1>9 DEF CompleteBegin, TypeOK, Idle
  <2> QED  BY <2>1, <1>a DEF dbVars
<1>10. ASSUME NEW r \in Reqs, CompleteWrite(r) PROVE RowsInv'
  <2>1. /\ UNCHANGED <<results, items>> /\ req[r].at = "complete" /\ req[r].s \in Sessions
        /\ req' = [req EXCEPT ![r].at = "record", ![r].today = day]
        /\ sess' = [sess EXCEPT ![req[r].s].status = "completed",
                                ![req[r].s].xp = req[r].row.xp, ![req[r].s].acc = req[r].row.acc]
    BY <1>0, <1>10 DEF CompleteWrite, TypeOK
  <2>2. req[r].row.xp = sess[req[r].s].xp /\ req[r].row.acc = sess[req[r].s].acc
    BY <2>1 DEF RowsInv
  <2>3. \A s \in Sessions : /\ sess'[s].idx = sess[s].idx /\ sess'[s].xp = sess[s].xp
                            /\ sess'[s].acc = sess[s].acc
    BY <2>1, <2>2 DEF TypeOK, Row
  <2>4. req'[r].at = "record" /\ req'[r].s = req[r].s /\ req'[r].row = req[r].row
    BY <2>1 DEF TypeOK, ReqState
  <2> QED  BY <2>1, <2>3, <2>4, <1>a
<1>11. ASSUME NEW r \in Reqs, CompleteRecord(r) \/ CompleteStats(r) PROVE RowsInv'
  <2>1. /\ UNCHANGED <<results, items, sess>> /\ req[r].at \in {"record", "stats"}
        /\ req'[r].at \in {"stats", "level"}
        /\ req'[r].s = req[r].s /\ req'[r].row = req[r].row
    BY <1>11 DEF CompleteRecord, CompleteStats, dbVars, TypeOK, ReqState
  <2> QED  BY <2>1, <1>a
<1>12. ASSUME NEW r \in Reqs, CompleteLevel(r) PROVE RowsInv'
  <2>1. UNCHANGED <<results, items, sess>> /\ req[r].at = "level" /\ req'[r].at = "idle"
    BY <1>12 DEF CompleteLevel, TypeOK, Idle
  <2> QED  BY <2>1, <1>a
<1>13. ASSUME NextDay PROVE RowsInv'
  BY <1>13 DEF NextDay, dbVars, RowsInv, Exact
<1> QED
  BY <1>0, <1>1, <1>2, <1>3, <1>4, <1>5, <1>6, <1>7, <1>8, <1>9, <1>10, <1>11, <1>12,
     <1>13, Zenon DEF Next, Stop

\* The rows stay exact, one request at a time and with no statement failing.
LEMMA RowsAlways ==
    ASSUME OneRequest, NoFaults
    PROVE  Spec => [](TypeOK /\ LifeInv /\ RowsInv)
<1> DEFINE Inv == TypeOK /\ LifeInv /\ RowsInv
<1>1. Init => Inv  BY TypeInit, LifeInit, RowsInit
<1>2. Inv /\ [Next]_vars => Inv'
  <2> SUFFICES ASSUME Inv, [Next]_vars PROVE Inv'  OBVIOUS
  <2>1. TypeOK' /\ LifeInv'  BY TypeStep, LifeStep
  <2>2. CASE Next  BY <2>1, <2>2, RowsStep
  <2>3. CASE UNCHANGED vars
    BY <2>1, <2>3 DEF vars, RowsInv, Exact, Pending, Holding
  <2> QED  BY <2>2, <2>3
<1> QED  BY <1>1, <1>2, PTL DEF Spec

\* A session at rest shows its results: index and XP exactly, the accuracy up
\* to the roundings, whatever the number of answers and the XP they earn.
THEOREM ProgressIsExact ==
    ASSUME OneRequest, NoFaults
    PROVE  Spec => []ProgressExact
<1>1. TypeOK /\ RowsInv => ProgressExact
  <2> SUFFICES ASSUME TypeOK, RowsInv, NEW s \in Sessions, Quiet(s)
               PROVE  LET n == results[s].n
                          drift == sess[s].acc * n - Unit * results[s].right
                      IN /\ sess[s].idx = n
                         /\ sess[s].xp = results[s].xp
                         /\ 4 * drift <= n * (n + 1) /\ -4 * drift <= n * (n + 1)
    BY DEF ProgressExact
  <2> DEFINE n == results[s].n
             d == sess[s].acc * n - Unit * results[s].right
             t == n * (n + 1)
  <2>1. Exact(sess[s], results[s])  BY DEF Quiet, RowsInv, Pending
  <2>2. sess[s].acc \in Nat /\ n \in Nat /\ results[s].right \in Nat
    BY UnitNat DEF TypeOK, Row
  <2>3. d \in Int /\ t \in Int  BY <2>2, UnitNat, SMT
  <2>4. 4 * d <= t /\ -t <= 4 * d  BY <2>1 DEF Exact, Near
  <2>5. -4 * d = -(4 * d)
    <3> HIDE DEF d
    <3> QED  BY <2>3
  <2>6. -4 * d <= t
    <3> HIDE DEF d, t
    <3> QED  BY <2>3, <2>4, <2>5
  <2> QED  BY <2>1, <2>4, <2>6 DEF Exact
<1> QED  BY <1>1, RowsAlways, PTL

----------------------------------------------------------------------------
(* Streaks.                                                                *)

\* The first days of the unbroken runs of days of A that end on day d.
Stretch(A, d) == {k \in 1..d : \A e \in k..d : e \in A}

\* A run is as long as there are days it may start on.
LEMMA StretchFacts ==
    ASSUME NEW A, NEW d \in Nat
    PROVE  /\ IsFiniteSet(Stretch(A, d))
           /\ Cardinality(Stretch(A, d)) \in Nat
           /\ d \in A /\ d >= 1 => Cardinality(Stretch(A, d)) >= 1
           /\ d = 0 => Cardinality(Stretch(A, d)) = 0
<1> DEFINE S == Stretch(A, d)
<1>1. IsFiniteSet(1..d)  BY FS_Interval
<1>2. S \in SUBSET (1..d)  BY DEF Stretch
<1>3. d \in A /\ d >= 1 => d \in S  BY DEF Stretch
<1>4. d = 0 => S = {}  BY <1>2
<1> HIDE DEF S
<1>5. IsFiniteSet(S)  BY <1>1, <1>2, FS_Subset
<1>6. Cardinality(S) \in Nat  BY <1>5, FS_CardinalityType
<1>7. Cardinality(S) = 0 <=> S = {}  BY <1>5, FS_EmptySet
<1>8. d \in A /\ d >= 1 => Cardinality(S) # 0  BY <1>3, <1>7
<1> QED  BY <1>4, <1>5, <1>6, <1>7, <1>8 DEF S

\* Another day leaves the runs that ended before it as they are, and makes
\* the run that ends on it one day longer than the one of the day before.
LEMMA StretchGrows ==
    ASSUME NEW A, NEW t \in Nat \ {0}
    PROVE  /\ \A d \in Nat : d < t => Stretch(A \union {t}, d) = Stretch(A, d)
           /\ Cardinality(Stretch(A \union {t}, t)) =
                IF t - 1 \in A THEN Cardinality(Stretch(A, t - 1)) + 1 ELSE 1
<1>1. \A d \in Nat : d < t => Stretch(A \union {t}, d) = Stretch(A, d)  BY DEF Stretch
<1>2. ASSUME t - 1 \in A
      PROVE  Cardinality(Stretch(A \union {t}, t)) = Cardinality(Stretch(A, t - 1)) + 1
  <2> DEFINE S == Stretch(A, t - 1)
             T == Stretch(A \union {t}, t)
  <2>1. \A k : k \in T <=> k \in S \union {t}
    <3> TAKE k
    <3>1. ASSUME k \in T PROVE k \in S \union {t}
      <4>1. k \in 1..t /\ \A e \in k..t : e \in A \union {t}  BY <3>1 DEF Stretch
      <4>2. \A e \in k..(t - 1) : e \in A  BY <4>1
      <4> QED  BY <4>1, <4>2 DEF Stretch
    <3>2. ASSUME k \in S PROVE k \in T
      <4>1. k \in 1..(t - 1) /\ \A e \in k..(t - 1) : e \in A  BY <3>2 DEF Stretch
      <4>2. \A e \in k..t : e \in A \union {t}  BY <4>1
      <4> QED  BY <4>1, <4>2 DEF Stretch
    <3>3. t \in T  BY DEF Stretch
    <3> QED  BY <3>1, <3>2, <3>3
  <2>2. t \notin S  BY DEF Stretch
  <2>3. IsFiniteSet(S)  BY StretchFacts
  <2> HIDE DEF S, T
  <2>4. T = S \union {t}  BY <2>1
  <2>5. Cardinality(T) = Cardinality(S) + 1  BY <2>2, <2>3, <2>4, FS_AddElement
  <2> QED  BY <2>5 DEF S, T
<1>3. ASSUME t - 1 \notin A PROVE Cardinality(Stretch(A \union {t}, t)) = 1
  <2> DEFINE T == Stretch(A \union {t}, t)
  <2>1. \A k : k \in T <=> k = t
    <3> TAKE k
    <3>1. ASSUME k \in T PROVE k = t
      <4>1. k \in 1..t /\ \A e \in k..t : e \in A \union {t}  BY <3>1 DEF Stretch
      <4>2. k <= t - 1 => t - 1 \in k..t  BY <4>1
      <4> QED  BY <1>3, <4>1, <4>2
    <3>2. t \in T  BY DEF Stretch
    <3> QED  BY <3>1, <3>2
  <2> HIDE DEF T
  <2>2. T = {t}  BY <2>1
  <2>3. Cardinality(T) = 1  BY <2>2, FS_Singleton
  <2> QED  BY <2>3 DEF T
<1> QED  BY <1>1, <1>2, <1>3

\* RunUpTo counts the days a run may start on.
LEMMA RunIsStretch == \A d : RunUpTo(d) = Cardinality(Stretch(active, d))
BY DEF RunUpTo, Stretch

\* Days up to n are days from 1 to n.
LEMMA DaysUpTo ==
    ASSUME NEW n \in Nat, NEW A
    PROVE  A \subseteq 1..n <=> \A d \in A : d \in Nat /\ 1 <= d /\ d <= n
OBVIOUS

\* Initially there is no active day.
LEMMA StreakInit == Init => StreakInv
<1> SUFFICES ASSUME Init PROVE StreakInv  OBVIOUS
<1>1. \A r \in Reqs : req[r].at = "idle"  BY DEF Init, Idle
<1>2. RunUpTo(0) = 0  BY RunIsStretch, StretchFacts
<1> QED  BY <1>1, <1>2 DEF Init, StreakInv, StreakHonest, NoStreak

\* A step that neither records a day nor moves the streak; a request about to
\* record a day goes on with the day it has, or takes today's.
LEMMA StreakKept ==
    ASSUME TypeOK, TypeOK', StreakInv, UNCHANGED active,
           streak'.cur = streak.cur, streak'.longest = streak.longest,
           streak'.last = streak.last, day' = day \/ day' = day + 1,
           \A r \in Reqs : req'[r].at = "record" =>
              \/ req[r].at = "record" /\ req'[r].today = req[r].today
              \/ req'[r].today = day
    PROVE  StreakInv'
<1>1. /\ day \in Nat /\ day >= 1 /\ active \subseteq 1..day
      /\ streak.last \in active \union {0}
  BY DEF TypeOK, StreakInv
<1>2. streak.last \in Nat /\ streak.last <= day
  <2>1. \A d \in active : d \in Nat /\ d <= day  BY <1>1, DaysUpTo
  <2>2. CASE streak.last = 0  BY <1>1, <2>2
  <2>3. CASE streak.last \in active  BY <2>1, <2>3
  <2> QED  BY <1>1, <2>2, <2>3
<1>3. day' >= 1 /\ active' \subseteq 1..day' /\ streak'.last \in active' \union {0}
      /\ \A d \in active' : d <= streak'.last
  BY <1>1 DEF StreakInv
<1>4. ASSUME NEW r \in Reqs, req'[r].at = "record"
      PROVE  req'[r].today >= 1 /\ streak'.last <= req'[r].today /\ req'[r].today <= day'
  <2>1. CASE req[r].at = "record" /\ req'[r].today = req[r].today
    <3>1. req[r].today \in Nat  BY DEF TypeOK, ReqState
    <3>2. req[r].today >= 1 /\ streak.last <= req[r].today /\ req[r].today <= day
      BY <2>1 DEF StreakInv
    <3> QED  BY <1>1, <2>1, <3>1, <3>2
  <2>2. CASE req'[r].today = day  BY <1>1, <1>2, <2>2
  <2> QED  BY <1>4, <2>1, <2>2
<1>5. StreakHonest'
  <2>1. \A d : RunUpTo(d)' = RunUpTo(d)  BY DEF RunUpTo
  <2> QED  BY <2>1 DEF StreakInv, StreakHonest, RunUpTo
<1> QED  BY <1>3, <1>4, <1>5 DEF StreakInv

\* Recording a day extends the run that ended the day before, leaves that of
\* the same day alone, and otherwise starts another.
LEMMA StreakRecorded ==
    ASSUME OneRequest, TypeOK, TypeOK', StreakInv, NEW r \in Reqs, req[r].at = "record",
           req'[r].at # "record", day' = day,
           streak' = Recorded(streak, req[r].today, req[r].row.xp),
           active' = active \union {req[r].today}
    PROVE  StreakInv'
<1> DEFINE t == req[r].today
           B == active \union {t}
           Len(A, d) == Cardinality(Stretch(A, d))
<1>1. /\ day \in Nat /\ t \in Nat /\ t >= 1 /\ t <= day /\ streak.last <= t
      /\ active \subseteq 1..day /\ streak.last \in active \union {0}
      /\ \A d \in active : d <= streak.last
      /\ streak.last \in Nat /\ streak.cur \in Nat /\ streak.longest \in Nat
  BY DEF TypeOK, ReqState, StreakRow, StreakInv
<1>2. /\ streak.cur = Len(active, streak.last)
      /\ \A d \in active : Len(active, d) <= streak.longest
      /\ active # {} => \E d \in active : Len(active, d) = streak.longest
  BY RunIsStretch DEF StreakInv, StreakHonest
<1>3. /\ \A d \in active : d \in Nat /\ d >= 1 /\ d <= t
      /\ active # {} => streak.last # 0
      /\ streak.last # 0 => streak.last \in active
  <2> HIDE DEF t
  <2>1. \A d \in active : d \in Nat /\ 1 <= d  BY <1>1, DaysUpTo
  <2>2. \A d \in active : d <= streak.last /\ d <= t  BY <1>1, <2>1
  <2>3. ASSUME active # {} PROVE streak.last # 0
    <3>1. PICK d \in active : TRUE  BY <2>3
    <3> QED  BY <1>1, <2>1, <2>2, <3>1
  <2> QED  BY <1>1, <2>1, <2>2, <2>3
<1>4. /\ \A d \in Nat : d < t => Len(B, d) = Len(active, d)
      /\ Len(B, t) = IF t - 1 \in active THEN Len(active, t - 1) + 1 ELSE 1
  BY <1>1, StretchGrows
<1>5. \A d \in active : Len(active, d) \in Nat /\ Len(active, d) >= 1
  BY <1>3, StretchFacts
<1> DEFINE Longest == IF Len(B, t) > streak.longest THEN Len(B, t) ELSE streak.longest
<1>6. /\ streak'.last = t /\ streak'.cur = Len(B, t)
      /\ \A d \in B : Len(B, d) <= streak'.longest
      /\ \E d \in B : Len(B, d) = streak'.longest
  <2> HIDE DEF t, B, Len
  <2>1. CASE streak.last = 0
    <3>1. active = {} /\ B = {t}  BY <1>3, <2>1 DEF B
    <3>2. Len(B, t) = 1  BY <1>4, <3>1
    <3>3. streak'.last = t /\ streak'.cur = 1 /\ streak'.longest = 1
      BY <2>1 DEF Recorded, t
    <3> QED  BY <3>1, <3>2, <3>3
  <2>2. CASE streak.last # 0 /\ streak.last = t
    <3>1. t \in active /\ B = active  BY <1>3, <2>2 DEF B
    <3>2. streak.longest >= 1  BY <1>1, <1>2, <1>5, <3>1
    <3>3. streak'.last = t /\ streak'.cur = streak.cur /\ streak'.longest = streak.longest
      BY <1>1, <2>2, <3>2 DEF Recorded, t
    <3> QED  BY <1>2, <2>2, <3>1, <3>3
  <2>3. CASE streak.last # 0 /\ streak.last = t - 1
    <3>1. t - 1 \in active /\ t \notin active  BY <1>1, <1>3, <2>3
    <3>2. Len(B, t) = streak.cur + 1  BY <1>2, <1>4, <2>3, <3>1
    <3>3. streak'.last = t /\ streak'.cur = Len(B, t) /\ streak'.longest = Longest
      BY <1>1, <2>3, <3>2 DEF Recorded, t
    <3>4. \A d \in active : Len(B, d) = Len(active, d)  BY <1>1, <1>3, <1>4, <3>1
    <3>5. Len(B, t) \in Nat /\ t \in B /\ \A d \in B : d \in active \/ d = t
      BY <1>1, <3>2 DEF B
    <3>6. \A d \in B : Len(B, d) <= streak'.longest
      BY <1>1, <1>2, <1>5, <3>3, <3>4, <3>5
    <3>7. \E d \in B : Len(B, d) = streak'.longest
      <4>1. CASE Len(B, t) > streak.longest  BY <3>3, <3>5, <4>1
      <4>2. CASE ~(Len(B, t) > streak.longest)
        <5>1. PICK d \in active : Len(active, d) = streak.longest  BY <1>2, <3>1
        <5> QED  BY <3>3, <3>4, <4>2, <5>1 DEF B
      <4> QED  BY <4>1, <4>2
    <3> QED  BY <3>3, <3>6, <3>7
  <2>4. CASE streak.last # 0 /\ streak.last < t - 1
    <3>1. t - 1 \notin active /\ t \notin active  BY <1>1, <2>4
    <3>2. Len(B, t) = 1  BY <1>4, <3>1
    <3>3. streak.longest >= 1  BY <1>1, <1>2, <1>3, <1>5, <2>4
    <3>4. streak'.last = t /\ streak'.cur = 1 /\ streak'.longest = streak.longest
      BY <1>1, <2>4, <3>3 DEF Recorded, t
    <3>5. \A d \in active : Len(B, d) = Len(active, d)  BY <1>1, <1>3, <1>4, <3>1
    <3>6. \A d \in B : d \in active \/ d = t  BY DEF B
    <3>7. PICK d \in active : Len(active, d) = streak.longest  BY <1>2, <1>3, <2>4
    <3>8. d \in B  BY DEF B
    <3> QED  BY <1>2, <3>2, <3>3, <3>4, <3>5, <3>6, <3>7, <3>8
  <2> QED  BY <1>1, <2>1, <2>2, <2>3, <2>4
<1>7. StreakHonest'
  <2>1. \A d : RunUpTo(d)' = Len(B, d)  BY DEF RunUpTo, Stretch
  <2> HIDE DEF Len
  <2> QED  BY <1>6, <2>1 DEF StreakHonest, RunUpTo
<1>8. \A q \in Reqs : req'[q].at # "record"  BY DEF OneRequest
<1>9. \A d \in B : d \in Nat /\ 1 <= d /\ d <= day /\ d <= t
  <2> HIDE DEF t
  <2> QED  BY <1>1, <1>3
<1>10. t \in B /\ active' = B /\ day' = day  OBVIOUS
<1> HIDE DEF B, t
<1>11. /\ day' >= 1 /\ active' \subseteq 1..day'
       /\ streak'.last \in active' \union {0}
       /\ \A d \in active' : d <= streak'.last
  <2>1. active' \subseteq 1..day'  BY <1>1, <1>9, <1>10, DaysUpTo
  <2>2. streak'.last = t  BY <1>6
  <2> QED  BY <1>1, <1>9, <1>10, <2>1, <2>2
<1> QED  BY <1>7, <1>8, <1>11 DEF StreakInv

\* Every step keeps StreakInv, faults included.
LEMMA StreakStep ==
    ASSUME OneRequest, TypeOK, TypeOK', StreakInv, Next
    PROVE  StreakInv'
<1>1. ASSUME NEW r \in Reqs, NEW s \in Sessions,
             \/ GenerateBegin(r, s) \/ CompleteBegin(r, s)
             \/ \E b \in BOOLEAN : SubmitBegin(r, s, b)
      PROVE  StreakInv'
  <2>1. UNCHANGED <<streak, day, active>>
    BY <1>1 DEF GenerateBegin, CompleteBegin, SubmitBegin, dbVars
  <2>2. req'[r].at # "record" /\ \A q \in Reqs : q # r => req'[q] = req[q]
    <3>1. CASE GenerateBegin(r, s)  BY <3>1 DEF GenerateBegin, Idle, TypeOK
    <3>2. CASE CompleteBegin(r, s)  BY <3>2 DEF CompleteBegin, Idle, TypeOK
    <3>3. CASE \E b \in BOOLEAN : SubmitBegin(r, s, b)
      BY <3>3 DEF SubmitBegin, Idle, TypeOK
    <3> QED  BY <1>1, <3>1, <3>2, <3>3
  <2> QED  BY <2>1, <2>2, StreakKept
<1>2. ASSUME NEW r \in Reqs,
             \/ GenerateCreate(r) \/ GenerateItems(r) \/ SubmitUpsert(r) \/ SubmitSave(r)
             \/ SubmitRefetch(r) \/ SubmitUpdate(r) \/ CompleteStats(r)
      PROVE  StreakInv'
  <2>1. UNCHANGED <<streak, day, active>>
    BY <1>2 DEF GenerateCreate, GenerateItems, SubmitUpsert, SubmitSave, SubmitRefetch,
       SubmitUpdate, CompleteStats, dbVars
  <2>2. req'[r].at # "record" /\ \A q \in Reqs : q # r => req'[q] = req[q]
    <3>1. CASE GenerateCreate(r)  BY <3>1 DEF GenerateCreate, Idle, TypeOK, ReqState
    <3>2. CASE GenerateItems(r)  BY <3>2 DEF GenerateItems, Idle, TypeOK, ReqState
    <3>3. CASE SubmitUpsert(r)  BY <3>3 DEF SubmitUpsert, Idle, TypeOK, ReqState
    <3>4. CASE SubmitSave(r)  BY <3>4 DEF SubmitSave, Idle, TypeOK, ReqState
    <3>5. CASE SubmitRefetch(r)  BY <3>5 DEF SubmitRefetch, Idle, TypeOK, ReqState
    <3>6. CASE SubmitUpdate(r)  BY <3>6 DEF SubmitUpdate, Idle, TypeOK, ReqState
    <3>7. CASE CompleteStats(r)  BY <3>7 DEF CompleteStats, Idle, TypeOK, ReqState
    <3> QED  BY <1>2, <3>1, <3>2, <3>3, <3>4, <3>5, <3>6, <3>7
  <2> QED  BY <2>1, <2>2, StreakKept
<1>3. ASSUME NEW r \in Reqs, CompleteWrite(r) PROVE StreakInv'
  <2>1. UNCHANGED <<streak, day, active>>  BY <1>3 DEF CompleteWrite
  <2>2. /\ req'[r].at = "record" => req'[r].today = day
        /\ \A q \in Reqs : q # r => req'[q] = req[q]
    BY <1>3 DEF CompleteWrite, Idle, TypeOK, ReqState
  <2> QED  BY <2>1, <2>2, StreakKept
<1>4. ASSUME NEW r \in Reqs, CompleteRecord(r) PROVE StreakInv'
  <2>1. /\ req[r].at = "record" /\ req'[r].at = "stats" /\ day' = day
        /\ \A q \in Reqs : q # r => req'[q] = req[q]
    BY <1>4 DEF CompleteRecord, TypeOK, ReqState
  <2>2. \/ UNCHANGED <<streak, active>>
        \/ /\ streak' = Recorded(streak, req[r].today, req[r].row.xp)
           /\ active' = active \union {req[r].today}
    BY <1>4 DEF CompleteRecord
  <2>3. CASE UNCHANGED <<streak, active>>  BY <2>1, <2>3, StreakKept
  <2>4. CASE /\ streak' = Recorded(streak, req[r].today, req[r].row.xp)
             /\ active' = active \union {req[r].today}
    BY <2>1, <2>4, StreakRecorded
  <2> QED  BY <2>2, <2>3, <2>4
<1>5. ASSUME NEW r \in Reqs, CompleteLevel(r) PROVE StreakInv'
  <2>1. UNCHANGED <<day, active>>  BY <1>5 DEF CompleteLevel
  <2>2. streak'.cur = streak.cur /\ streak'.longest = streak.longest /\ streak'.last = streak.last
    BY <1>5 DEF CompleteLevel, TypeOK, StreakRow
  <2>3. req'[r].at # "record" /\ \A q \in Reqs : q # r => req'[q] = req[q]
    BY <1>5 DEF CompleteLevel, Idle, TypeOK
  <2> QED  BY <2>1, <2>2, <2>3, StreakKept
<1>6. ASSUME NextDay \/ Stop PROVE StreakInv'
  <2>1. UNCHANGED <<streak, active>> /\ (day' = day \/ day' = day + 1)
    BY <1>6 DEF NextDay, Stop, dbVars
  <2>2. \A q \in Reqs : req'[q] = req[q] \/ req'[q].at # "record"
    BY <1>6 DEF NextDay, Stop, Idle
  <2> QED  BY <2>1, <2>2, StreakKept
<1> QED  BY <1>1, <1>2, <1>3, <1>4, <1>5, <1>6, Zenon DEF Next

\* Days are recorded in order, one request at a time.
LEMMA StreakAlways == ASSUME OneRequest PROVE Spec => [](TypeOK /\ StreakInv)
<1> DEFINE Inv == TypeOK /\ StreakInv
<1>1. Init => Inv  BY TypeInit, StreakInit
<1>2. Inv /\ [Next]_vars => Inv'
  <2> SUFFICES ASSUME Inv, [Next]_vars PROVE Inv'  OBVIOUS
  <2>1. TypeOK'  BY TypeStep
  <2>2. CASE Next  BY <2>1, <2>2, StreakStep
  <2>3. CASE UNCHANGED vars  BY <2>1, <2>3, StreakKept DEF vars
  <2> QED  BY <2>2, <2>3
<1> QED  BY <1>1, <1>2, PTL DEF Spec

\* The streak is the run of active days that ends on the last one, and the
\* longest streak the longest run ever, on every calendar, even if statements
\* fail and the process stops.
THEOREM StreakIsHonest == ASSUME OneRequest PROVE Spec => []StreakHonest
<1>1. StreakInv => StreakHonest  BY DEF StreakInv
<1> QED  BY <1>1, StreakAlways, PTL

----------------------------------------------------------------------------
(* The ledger.                                                             *)

\* Initially no XP is credited and no answer in flight.
LEMMA CreditInit == Init => CreditInv
<1> SUFFICES ASSUME Init PROVE CreditInv  OBVIOUS
<1>1. \A r \in Reqs : req[r].at = "idle"  BY DEF Init, Idle
<1> QED  BY <1>1 DEF Init, CreditInv, NoStreak

\* A step that leaves the learner's XP alone, and in which an answer goes on
\* with its XP or starts with XP it may earn.
LEMMA CreditKept ==
    ASSUME CreditInv, streak'.xp = streak.xp, streak'.last = streak.last,
           \A r \in Reqs : req'[r].at \in {"upsert", "save", "refetch", "update"} =>
              \/ /\ req[r].at \in {"upsert", "save", "refetch", "update"}
                 /\ req'[r].gain = req[r].gain
              \/ req'[r].gain \in XpOf[TRUE] \union XpOf[FALSE]
    PROVE  CreditInv'
BY DEF CreditInv

\* Every step keeps CreditInv.
LEMMA CreditStep ==
    ASSUME TypeOK, TypeOK', StreakInv, CreditInv, Next
    PROVE  CreditInv'
<1> DEFINE answer == {"upsert", "save", "refetch", "update"}
<1>a. ASSUME NEW r \in Reqs, streak'.xp = streak.xp, streak'.last = streak.last,
             \A q \in Reqs : q # r => req'[q] = req[q],
             req'[r].at \in answer =>
               \/ req[r].at \in answer /\ req'[r].gain = req[r].gain
               \/ req'[r].gain \in XpOf[TRUE] \union XpOf[FALSE]
      PROVE  CreditInv'
  BY <1>a, CreditKept
<1>1. ASSUME NEW r \in Reqs, NEW s \in Sessions, GenerateBegin(r, s) \/ CompleteBegin(r, s)
      PROVE  CreditInv'
  <2>1. UNCHANGED streak
    BY <1>1 DEF GenerateBegin, CompleteBegin, dbVars
  <2>2. req'[r].at \in {"create", "complete"} /\ \A q \in Reqs : q # r => req'[q] = req[q]
    <3>1. CASE GenerateBegin(r, s)  BY <3>1 DEF GenerateBegin, Idle, TypeOK
    <3>2. CASE CompleteBegin(r, s)  BY <3>2 DEF CompleteBegin, Idle, TypeOK
    <3> QED  BY <1>1, <3>1, <3>2
  <2> QED  BY <2>1, <2>2, <1>a
<1>2. ASSUME NEW r \in Reqs, NEW s \in Sessions, NEW b \in BOOLEAN, SubmitBegin(r, s, b)
      PROVE  CreditInv'
  <2>1. UNCHANGED streak  BY <1>2 DEF SubmitBegin, dbVars
  <2>2. req'[r].gain \in XpOf[b] /\ \A q \in Reqs : q # r => req'[q] = req[q]
    BY <1>2 DEF SubmitBegin, Idle, TypeOK
  <2>3. b = TRUE \/ b = FALSE  OBVIOUS
  <2> QED  BY <2>1, <2>2, <2>3, <1>a
<1>3. ASSUME NEW r \in Reqs,
             \/ GenerateCreate(r) \/ GenerateItems(r) \/ SubmitUpsert(r) \/ SubmitSave(r)
             \/ SubmitRefetch(r) \/ SubmitUpdate(r) \/ CompleteStats(r) \/ CompleteWrite(r)
      PROVE  CreditInv'
  <2>1. UNCHANGED streak
    BY <1>3 DEF GenerateCreate, GenerateItems, SubmitUpsert, SubmitSave, SubmitRefetch,
       SubmitUpdate, CompleteStats, CompleteWrite, dbVars
  <2>2. /\ req'[r].at \in answer => req[r].at \in answer /\ req'[r].gain = req[r].gain
        /\ \A q \in Reqs : q # r => req'[q] = req[q]
    <3>1. CASE GenerateCreate(r)  BY <3>1 DEF GenerateCreate, Idle, TypeOK, ReqState
    <3>2. CASE GenerateItems(r)  BY <3>2 DEF GenerateItems, Idle, TypeOK, ReqState
    <3>3. CASE SubmitUpsert(r)  BY <3>3 DEF SubmitUpsert, Idle, TypeOK, ReqState
    <3>4. CASE SubmitSave(r)  BY <3>4 DEF SubmitSave, Idle, TypeOK, ReqState
    <3>5. CASE SubmitRefetch(r)  BY <3>5 DEF SubmitRefetch, Idle, TypeOK, ReqState
    <3>6. CASE SubmitUpdate(r)  BY <3>6 DEF SubmitUpdate, Idle, TypeOK, ReqState
    <3>7. CASE CompleteStats(r)  BY <3>7 DEF CompleteStats, Idle, TypeOK, ReqState
    <3>8. CASE CompleteWrite(r)  BY <3>8 DEF CompleteWrite, Idle, TypeOK, ReqState
    <3> QED  BY <1>3, <3>1, <3>2, <3>3, <3>4, <3>5, <3>6, <3>7, <3>8
  <2> QED  BY <2>1, <2>2, <1>a
<1>4. ASSUME NEW r \in Reqs, CompleteRecord(r) PROVE CreditInv'
  <2>1. /\ req[r].at = "record" /\ req'[r].at = "stats"
        /\ \A q \in Reqs : q # r => req'[q] = req[q]
    BY <1>4 DEF CompleteRecord, TypeOK, ReqState
  <2>2. UNCHANGED streak \/ streak' = Recorded(streak, req[r].today, req[r].row.xp)
    BY <1>4 DEF CompleteRecord
  <2>3. CASE UNCHANGED streak  BY <2>1, <2>3, <1>a
  <2>4. CASE streak' = Recorded(streak, req[r].today, req[r].row.xp)
    <3>1. req[r].today >= 1  BY <2>1 DEF StreakInv
    <3>2. streak'.last = req[r].today /\ req[r].today # 0  BY <2>4, <3>1 DEF Recorded
    <3> QED  BY <2>1, <3>2 DEF CreditInv
  <2> QED  BY <2>2, <2>3, <2>4
<1>5. ASSUME NEW r \in Reqs, CompleteLevel(r) PROVE CreditInv'
  <2>1. streak'.xp = streak.xp /\ streak'.last = streak.last
    BY <1>5 DEF CompleteLevel, TypeOK, StreakRow
  <2>2. req'[r].at = "idle" /\ \A q \in Reqs : q # r => req'[q] = req[q]
    BY <1>5 DEF CompleteLevel, Idle, TypeOK
  <2> QED  BY <2>1, <2>2, <1>a
<1>6. ASSUME NextDay \/ Stop PROVE CreditInv'
  <2>1. UNCHANGED streak /\ \A q \in Reqs : req'[q] = req[q] \/ req'[q].at = "idle"
    BY <1>6 DEF NextDay, Stop, dbVars, Idle
  <2> QED  BY <2>1, CreditKept
<1> QED  BY <1>1, <1>2, <1>3, <1>4, <1>5, <1>6, Zenon DEF Next

\* What is owed to the learner, before and after a step, is what the only
\* request holds.
LEMMA UncreditedIs ==
    ASSUME OneRequest, NEW r \in Reqs
    PROVE  /\ Uncredited = IF StreaksUsable /\ req[r].at = "record"
                           THEN req[r].row.xp ELSE 0
           /\ Uncredited' = IF StreaksUsable /\ req'[r].at = "record"
                            THEN req'[r].row.xp ELSE 0
<1>1. \A q \in Reqs : q = r  BY DEF OneRequest
<1>2. Crediting = IF req[r].at = "record" THEN {r} ELSE {}  BY <1>1 DEF Crediting
<1>3. Crediting' = IF req'[r].at = "record" THEN {r} ELSE {}  BY <1>1 DEF Crediting
<1>4. (CHOOSE q \in {r} : TRUE) = r  OBVIOUS
<1> QED  BY <1>2, <1>3, <1>4 DEF Uncredited

\* Before any request there are no sessions and no XP.
LEMMA KeepsLedgerInit == Init => Ledger!Init
<1> SUFFICES ASSUME Init PROVE Ledger!Init  OBVIOUS
<1>1. \A s \in Sessions : sess[s] = None  BY DEF Init
<1>2. Crediting = {}  BY DEF Init, Crediting, Idle
<1>3. streak.xp + Uncredited = 0  BY <1>2 DEF Uncredited, Init, NoStreak
<1> DEFINE owner == [s \in Sessions |-> IF sess[s].status = "none" THEN "nobody" ELSE Learner]
           status == [s \in Sessions |-> sess[s].status]
           progress == [s \in Sessions |-> [n |-> sess[s].idx, xp |-> sess[s].xp]]
           credit == [l \in {Learner} |-> streak.xp + Uncredited]
<1>5. owner = [s \in Sessions |-> "nobody"] /\ status = [s \in Sessions |-> "none"]
  BY <1>1 DEF None
<1>6. progress = [s \in Sessions |-> [n |-> 0, xp |-> 0]]  BY <1>1 DEF None
<1>7. credit = [l \in {Learner} |-> 0]  BY <1>3
<1> QED  BY <1>5, <1>6, <1>7, Zenon DEF Ledger!Init, Ledger!Zero

\* Every statement is a step of the ledger or none.
LEMMA KeepsLedgerStep ==
    ASSUME OneRequest, NoFaults,
           TypeOK, TypeOK', LifeInv, RowsInv, CreditInv, [Next]_vars
    PROVE  [Ledger!Next]_Ledger!ledger
<1> DEFINE owner == [s \in Sessions |-> IF sess[s].status = "none" THEN "nobody" ELSE Learner]
           status == [s \in Sessions |-> sess[s].status]
           progress == [s \in Sessions |-> [n |-> sess[s].idx, xp |-> sess[s].xp]]
           credit == [l \in {Learner} |-> streak.xp + Uncredited]
<1>0. ~Fault  BY FaultFree
<1>a. ASSUME \A s \in Sessions : /\ sess'[s].status = sess[s].status
                                 /\ sess'[s].idx = sess[s].idx /\ sess'[s].xp = sess[s].xp,
             streak'.xp + Uncredited' = streak.xp + Uncredited
      PROVE  UNCHANGED Ledger!ledger
  BY <1>a DEF Ledger!ledger
<1>1. ASSUME NEW r \in Reqs, NEW z \in Sessions, req[r].s = z, GenerateCreate(r)
      PROVE  Ledger!Start(z, Learner)
  <2> DEFINE new == [None EXCEPT !.status = "active"]
  <2>1. /\ req[r].at = "create" /\ sess[z] = None
        /\ sess' = [sess EXCEPT ![z] = new] /\ streak' = streak
        /\ req'[r].at = "items"
    BY <1>0, <1>1 DEF GenerateCreate, TypeOK, LifeInv, ReqState
  <2>2. /\ new.status = "active" /\ new.idx = None.idx /\ new.xp = None.xp
        /\ None.status = "none"
    BY DEF None
  <2>3. Uncredited = 0 /\ Uncredited' = 0  BY <2>1, UncreditedIs
  <2> HIDE DEF new
  <2>4. sess'[z] = new /\ \A t \in Sessions \ {z} : sess'[t] = sess[t]
    BY <2>1 DEF TypeOK
  <2>5. status[z] = "none"  BY <2>1, <2>2
  <2>6. status' = [status EXCEPT ![z] = "active"] /\ owner' = [owner EXCEPT ![z] = Learner]
    <3>1. status' = [status EXCEPT ![z] = "active"]  BY <2>2, <2>4
    <3>2. owner' = [owner EXCEPT ![z] = Learner]  BY <2>2, <2>4
    <3> QED  BY <3>1, <3>2
  <2>7. progress' = progress /\ credit' = credit  BY <2>1, <2>2, <2>3, <2>4
  <2> QED  BY <2>5, <2>6, <2>7 DEF Ledger!Start
<1>2. ASSUME NEW r \in Reqs, NEW z \in Sessions, req[r].s = z,
             NEW xp \in XpOf[TRUE] \cup XpOf[FALSE], req[r].gain = xp, SubmitUpdate(r)
      PROVE  Ledger!Answer(z, xp)
  <2> DEFINE new == Advanced(req[r].row, req[r].right, req[r].gain)
  <2>1. /\ req[r].at = "update" /\ streak' = streak /\ req'[r].at = "idle"
        /\ sess' = [sess EXCEPT ![z].idx = new.idx, ![z].xp = new.xp, ![z].acc = new.acc]
    BY <1>0, <1>2 DEF SubmitUpdate, TypeOK, Idle
  <2>2. req[r].row.idx = sess[z].idx /\ req[r].row.xp = sess[z].xp
    BY <1>2, <2>1 DEF RowsInv, Holding
  <2>3. new.idx = sess[z].idx + 1 /\ new.xp = sess[z].xp + xp  BY <1>2, <2>2 DEF Advanced
  <2>4. sess[z].status # "none"  BY <1>2, <2>1 DEF LifeInv
  <2>5. Uncredited = 0 /\ Uncredited' = 0  BY <2>1, UncreditedIs
  <2> HIDE DEF new
  <2>6. /\ sess'[z].status = sess[z].status /\ sess'[z].idx = new.idx /\ sess'[z].xp = new.xp
        /\ \A t \in Sessions \ {z} : sess'[t] = sess[t]
    BY <2>1 DEF TypeOK, Row
  <2>7. status[z] # "none"  BY <2>1, <2>4
  <2>8. owner' = owner /\ status' = status  BY <2>6
  <2>9. credit' = credit  BY <2>1, <2>5
  <2>10. progress' = [progress EXCEPT ![z] = [n |-> @.n + 1, xp |-> @.xp + xp]]
    BY <2>1, <2>3, <2>6
  <2> QED  BY <2>7, <2>8, <2>9, <2>10 DEF Ledger!Answer
<1>3. ASSUME NEW r \in Reqs, NEW z \in Sessions, req[r].s = z, CompleteWrite(r)
      PROVE  Ledger!Complete(z)
  <2>1. /\ req[r].at = "complete" /\ streak' = streak
        /\ req' = [req EXCEPT ![r].at = "record", ![r].today = day]
        /\ sess' = [sess EXCEPT ![z].status = "completed",
                                ![z].xp = req[r].row.xp, ![z].acc = req[r].row.acc]
    BY <1>0, <1>3 DEF CompleteWrite, TypeOK
  <2>2. req[r].row.xp = sess[z].xp  BY <1>3, <2>1 DEF RowsInv, Holding
  <2>3. sess[z].status # "none"  BY <1>3, <2>1 DEF LifeInv
  <2>4. req'[r].at = "record" /\ req'[r].row = req[r].row  BY <2>1 DEF TypeOK, ReqState
  <2>5. Uncredited = 0 /\ Uncredited' = IF StreaksUsable THEN sess[z].xp ELSE 0
    BY <2>1, <2>2, <2>4, UncreditedIs
  <2>6. /\ sess'[z].status = "completed" /\ sess'[z].idx = sess[z].idx
        /\ sess'[z].xp = sess[z].xp /\ \A t \in Sessions \ {z} : sess'[t] = sess[t]
    BY <2>1, <2>2 DEF TypeOK, Row
  <2>7. status[z] # "none" /\ status' = [status EXCEPT ![z] = "completed"]
    <3>1. status[z] # "none"  BY <2>1, <2>3
    <3>2. status' = [status EXCEPT ![z] = "completed"]  BY <2>6
    <3> QED  BY <3>1, <3>2
  <2>8. owner' = owner /\ progress' = progress  BY <2>1, <2>3, <2>6
  <2>9. owner[z] = Learner /\ progress[z].xp = sess[z].xp /\ DOMAIN credit = {Learner}
    BY <2>1, <2>3
  <2>10. streak.xp \in Nat /\ sess[z].xp \in Nat  BY <2>1 DEF TypeOK, StreakRow, Row
  <2>11. credit' = IF StreaksUsable
                   THEN [credit EXCEPT ![owner[z]] = @ + progress[z].xp] ELSE credit
    <3>1. CASE StreaksUsable  BY <2>1, <2>5, <2>9, <2>10, <3>1
    <3>2. CASE ~StreaksUsable  BY <2>1, <2>5, <2>10, <3>2
    <3> QED  BY <3>1, <3>2
  <2> QED  BY <2>7, <2>8, <2>11 DEF Ledger!Complete
<1>4. ASSUME NEW r \in Reqs, CompleteRecord(r) PROVE UNCHANGED Ledger!ledger
  <2>1. /\ req[r].at = "record" /\ req'[r].at = "stats" /\ sess' = sess
        /\ streak' = IF StreaksUsable
                     THEN Recorded(streak, req[r].today, req[r].row.xp) ELSE streak
    BY <1>0, <1>4 DEF CompleteRecord, TypeOK, ReqState
  <2>2. /\ Uncredited = IF StreaksUsable THEN req[r].row.xp ELSE 0
        /\ Uncredited' = 0
    BY <2>1, UncreditedIs
  <2>3. streak.xp \in Nat /\ req[r].row.xp \in Nat
    BY DEF TypeOK, StreakRow, ReqState, Row
  <2>4. streak.last = 0 => streak.xp = 0  BY DEF CreditInv
  <2>5. StreaksUsable => streak'.xp = streak.xp + req[r].row.xp
    BY <2>1, <2>3, <2>4 DEF Recorded
  <2>6. streak'.xp + Uncredited' = streak.xp + Uncredited
    <3>1. CASE StreaksUsable  BY <2>2, <2>3, <2>5, <3>1
    <3>2. CASE ~StreaksUsable  BY <2>1, <2>2, <3>2
    <3> QED  BY <3>1, <3>2
  <2> QED  BY <1>a, <2>1, <2>6
<1>5. ASSUME NEW r \in Reqs, NEW s \in Sessions,
             \/ GenerateBegin(r, s) \/ CompleteBegin(r, s)
             \/ \E b \in BOOLEAN : SubmitBegin(r, s, b)
      PROVE  UNCHANGED Ledger!ledger
  <2>1. UNCHANGED <<sess, streak>> /\ req[r].at = "idle"
    BY <1>5 DEF GenerateBegin, CompleteBegin, SubmitBegin, dbVars
  <2>2. req'[r].at # "record"
    <3>1. CASE GenerateBegin(r, s)  BY <3>1 DEF GenerateBegin, Idle, TypeOK
    <3>2. CASE CompleteBegin(r, s)  BY <3>2 DEF CompleteBegin, Idle, TypeOK
    <3>3. CASE \E b \in BOOLEAN : SubmitBegin(r, s, b)
      BY <3>3 DEF SubmitBegin, Idle, TypeOK
    <3> QED  BY <1>5, <3>1, <3>2, <3>3
  <2>3. Uncredited = 0 /\ Uncredited' = 0  BY <2>1, <2>2, UncreditedIs
  <2> QED  BY <1>a, <2>1, <2>3
<1>6. ASSUME NEW r \in Reqs,
             \/ GenerateItems(r) \/ SubmitUpsert(r) \/ SubmitSave(r) \/ SubmitRefetch(r)
             \/ CompleteStats(r) \/ CompleteLevel(r)
      PROVE  UNCHANGED Ledger!ledger
  <2>1. sess' = sess /\ streak'.xp = streak.xp
    BY <1>6 DEF GenerateItems, SubmitUpsert, SubmitSave, SubmitRefetch, CompleteStats,
       CompleteLevel, dbVars, TypeOK, StreakRow
  <2>2. req[r].at # "record" /\ req'[r].at # "record"
    <3>1. CASE GenerateItems(r)  BY <3>1 DEF GenerateItems, Idle, TypeOK, ReqState
    <3>2. CASE SubmitUpsert(r)  BY <3>2 DEF SubmitUpsert, Idle, TypeOK, ReqState
    <3>3. CASE SubmitSave(r)  BY <3>3 DEF SubmitSave, Idle, TypeOK, ReqState
    <3>4. CASE SubmitRefetch(r)  BY <3>4 DEF SubmitRefetch, Idle, TypeOK, ReqState
    <3>5. CASE CompleteStats(r)  BY <3>5 DEF CompleteStats, Idle, TypeOK, ReqState
    <3>6. CASE CompleteLevel(r)  BY <3>6 DEF CompleteLevel, Idle, TypeOK, ReqState
    <3> QED  BY <1>6, <3>1, <3>2, <3>3, <3>4, <3>5, <3>6
  <2>3. Uncredited = 0 /\ Uncredited' = 0  BY <2>2, UncreditedIs
  <2> QED  BY <1>a, <2>1, <2>3
<1>7. ASSUME NextDay \/ UNCHANGED vars PROVE UNCHANGED Ledger!ledger
  <2>1. UNCHANGED <<sess, streak, req>>  BY <1>7 DEF NextDay, dbVars, vars
  <2>2. Uncredited' = Uncredited  BY <2>1 DEF Uncredited, Crediting
  <2> QED  BY <1>a, <2>1, <2>2
<1>8. ASSUME NEW r \in Reqs, GenerateCreate(r) PROVE Ledger!Next
  <2>1. PICK z \in Sessions : req[r].s = z  BY <1>8 DEF GenerateCreate, TypeOK
  <2>2. Ledger!Start(z, Learner)  BY <1>1, <1>8, <2>1
  <2> QED  BY <2>2 DEF Ledger!Next
<1>9. ASSUME NEW r \in Reqs, SubmitUpdate(r) PROVE Ledger!Next
  <2>1. PICK z \in Sessions : req[r].s = z  BY <1>9 DEF SubmitUpdate, TypeOK
  <2>2. PICK xp \in XpOf[TRUE] \cup XpOf[FALSE] : req[r].gain = xp
    BY <1>9 DEF SubmitUpdate, CreditInv
  <2>3. Ledger!Answer(z, xp)  BY <1>2, <1>9, <2>1, <2>2
  <2> QED  BY <2>3, Zenon DEF Ledger!Next
<1>10. ASSUME NEW r \in Reqs, CompleteWrite(r) PROVE Ledger!Next
  <2>1. PICK z \in Sessions : req[r].s = z  BY <1>10 DEF CompleteWrite, TypeOK
  <2>2. Ledger!Complete(z)  BY <1>3, <1>10, <2>1
  <2> QED  BY <2>2, Zenon DEF Ledger!Next
<1> QED
  BY <1>0, <1>4, <1>5, <1>6, <1>7, <1>8, <1>9, <1>10, Zenon DEF Next, Stop

\* One request at a time and with no statement failing but those that the
\* schema itself fails, the statements of the API keep the ledger: every answer
\* moves its session once, and each completion credits exactly what was earned
\* if learner_streaks has the columns the code names, and nothing at all if it
\* is the table the migrations leave.
THEOREM APIKeepsLedger ==
    ASSUME OneRequest, NoFaults
    PROVE  Spec => KeepsLedger
<1> DEFINE Inv == TypeOK /\ LifeInv /\ RowsInv /\ StreakInv /\ CreditInv
<1>1. Spec => []Inv
  <2>1. CreditInv /\ (TypeOK /\ StreakInv) /\ (TypeOK /\ StreakInv)' /\ [Next]_vars
          => CreditInv'
    <3> SUFFICES ASSUME CreditInv, TypeOK, TypeOK', StreakInv, [Next]_vars
                 PROVE  CreditInv'
      OBVIOUS
    <3>1. CASE Next  BY <3>1, CreditStep
    <3>2. CASE UNCHANGED vars  BY <3>2, CreditKept DEF vars
    <3> QED  BY <3>1, <3>2
  <2> QED  BY <2>1, CreditInit, RowsAlways, StreakAlways, PTL DEF Spec
<1>2. Inv /\ Inv' /\ [Next]_vars => [Ledger!Next]_Ledger!ledger
  BY KeepsLedgerStep
<1> QED
  BY <1>1, <1>2, KeepsLedgerInit, PTL DEF Spec, KeepsLedger, Ledger!Spec

----------------------------------------------------------------------------
(* Levels.                                                                 *)

\* Without XP the level is 1.
LEMMA FirstLevel == ASSUME LevelsEarned PROVE LevelFromXP(0) = 1
<1> DEFINE S == {l \in DOMAIN XPForLevel : XPForLevel[l] <= 0}
<1>1. S = {}  BY DEF LevelsEarned
<1> HIDE DEF S
<1>2. Cardinality(S) = 0  BY <1>1, FS_EmptySet
<1> QED  BY <1>2 DEF LevelFromXP, S

\* Initially the learner is at level 1 without XP.
LEMMA LevelInit == ASSUME LevelsEarned, Init PROVE LevelInv
<1>1. \A r \in Reqs : req[r].at = "idle"  BY DEF Init, Idle
<1>2. streak.xp = 0 /\ streak.level = 1 /\ streak = NoStreak  BY DEF Init, NoStreak
<1> QED  BY <1>1, <1>2, FirstLevel DEF LevelInv

\* Every step keeps LevelInv.
LEMMA LevelStep ==
    ASSUME OneRequest, NoFaults, LevelsEarned,
           TypeOK, TypeOK', StreakInv, LevelInv, Next
    PROVE  LevelInv'
<1> DEFINE levelling == {"stats", "level"}
<1>0. ~Fault  BY FaultFree
<1>a. ASSUME NEW r \in Reqs PROVE \A q \in Reqs : q = r  BY DEF OneRequest
<1>b. ASSUME NEW r \in Reqs, UNCHANGED streak,
             req[r].at \notin levelling, req'[r].at \notin levelling
      PROVE  LevelInv'
  <2>1. \A q \in Reqs : req[q].at \notin levelling /\ req'[q].at \notin levelling
    BY <1>a, <1>b
  <2>2. streak.level = LevelFromXP(streak.xp)  BY <2>1 DEF LevelInv
  <2> QED  BY <1>b, <2>1, <2>2 DEF LevelInv, LevelFromXP
<1>1. ASSUME NEW r \in Reqs, NEW s \in Sessions,
             \/ GenerateBegin(r, s) \/ CompleteBegin(r, s)
             \/ \E b \in BOOLEAN : SubmitBegin(r, s, b)
      PROVE  LevelInv'
  <2>1. UNCHANGED streak /\ req[r].at = "idle"
    BY <1>1 DEF GenerateBegin, CompleteBegin, SubmitBegin, dbVars
  <2>2. req'[r].at \notin levelling
    <3>1. CASE GenerateBegin(r, s)  BY <3>1 DEF GenerateBegin, Idle, TypeOK
    <3>2. CASE CompleteBegin(r, s)  BY <3>2 DEF CompleteBegin, Idle, TypeOK
    <3>3. CASE \E b \in BOOLEAN : SubmitBegin(r, s, b)
      BY <3>3 DEF SubmitBegin, Idle, TypeOK
    <3> QED  BY <1>1, <3>1, <3>2, <3>3
  <2> QED  BY <2>1, <2>2, <1>b
<1>2. ASSUME NEW r \in Reqs,
             \/ GenerateCreate(r) \/ GenerateItems(r) \/ SubmitUpsert(r) \/ SubmitSave(r)
             \/ SubmitRefetch(r) \/ SubmitUpdate(r) \/ CompleteWrite(r)
      PROVE  LevelInv'
  <2>1. UNCHANGED streak /\ req[r].at \notin levelling
    BY <1>2 DEF GenerateCreate, GenerateItems, SubmitUpsert, SubmitSave, SubmitRefetch,
       SubmitUpdate, CompleteWrite, dbVars
  <2>2. req'[r].at \notin levelling
    <3>1. CASE GenerateCreate(r)  BY <3>1 DEF GenerateCreate, Idle, TypeOK, ReqState
    <3>2. CASE GenerateItems(r)  BY <3>2 DEF GenerateItems, Idle, TypeOK, ReqState
    <3>3. CASE SubmitUpsert(r)  BY <3>3 DEF SubmitUpsert, Idle, TypeOK, ReqState
    <3>4. CASE SubmitSave(r)  BY <3>4 DEF SubmitSave, Idle, TypeOK, ReqState
    <3>5. CASE SubmitRefetch(r)  BY <3>5 DEF SubmitRefetch, Idle, TypeOK, ReqState
    <3>6. CASE SubmitUpdate(r)  BY <3>6 DEF SubmitUpdate, Idle, TypeOK, ReqState
    <3>7. CASE CompleteWrite(r)  BY <3>7 DEF CompleteWrite, Idle, TypeOK, ReqState
    <3> QED  BY <1>2, <3>1, <3>2, <3>3, <3>4, <3>5, <3>6, <3>7
  <2> QED  BY <2>1, <2>2, <1>b
<1>3. ASSUME NEW r \in Reqs, CompleteRecord(r) PROVE LevelInv'
  <2>1. req[r].at = "record" /\ req'[r].at = "stats"
    BY <1>3 DEF CompleteRecord, TypeOK, ReqState
  <2>2. IF StreaksUsable THEN streak' = Recorded(streak, req[r].today, req[r].row.xp)
        ELSE UNCHANGED streak
    BY <1>0, <1>3 DEF CompleteRecord
  <2>3. req[r].today >= 1  BY <2>1 DEF StreakInv
  <2>4. StreaksUsable => streak'.last # 0  BY <2>2, <2>3 DEF Recorded
  <2>5. ~StreaksUsable => streak' = NoStreak  BY <2>2 DEF LevelInv
  <2>6. \A q \in Reqs : req'[q].at = "stats"  BY <1>a, <2>1
  <2>7. \E q \in Reqs : req'[q].at \in levelling  BY <2>1
  <2> QED  BY <2>4, <2>5, <2>6, <2>7 DEF LevelInv
<1>4. ASSUME NEW r \in Reqs, CompleteStats(r) PROVE LevelInv'
  <2>1. req[r].at = "stats" /\ UNCHANGED streak /\ req'[r].at = "level"
    BY <1>4 DEF CompleteStats, dbVars, TypeOK, ReqState
  <2>2. StreaksUsable => req'[r].total = streak.xp
    BY <1>0, <1>4 DEF CompleteStats, TypeOK, ReqState
  <2>3. StreaksUsable => streak.last # 0  BY <2>1 DEF LevelInv
  <2>4. ~StreaksUsable => streak = NoStreak  BY DEF LevelInv
  <2>5. \A q \in Reqs : q = r  BY <1>a
  <2> QED  BY <2>1, <2>2, <2>3, <2>4, <2>5 DEF LevelInv
<1>5. ASSUME NEW r \in Reqs, CompleteLevel(r) PROVE LevelInv'
  <2>1. req[r].at = "level" /\ req'[r].at = "idle"
        /\ streak' = IF StreaksUsable /\ streak.last # 0
                     THEN [streak EXCEPT !.level = LevelFromXP(req[r].total)] ELSE streak
    BY <1>0, <1>5 DEF CompleteLevel, TypeOK, Idle
  <2>2. \A q \in Reqs : req'[q].at \notin levelling  BY <1>a, <2>1
  <2>3. CASE StreaksUsable
    <3>1. streak.last # 0 /\ req[r].total = streak.xp  BY <2>1, <2>3 DEF LevelInv
    <3>2. streak'.level = LevelFromXP(streak.xp) /\ streak'.xp = streak.xp
      BY <2>1, <2>3, <3>1 DEF TypeOK, StreakRow
    <3> QED  BY <2>2, <2>3, <3>2 DEF LevelInv, LevelFromXP
  <2>4. CASE ~StreaksUsable
    <3>1. streak = NoStreak /\ streak' = NoStreak  BY <2>1, <2>4 DEF LevelInv
    <3>2. streak'.level = LevelFromXP(streak'.xp)  BY <3>1, FirstLevel DEF NoStreak
    <3> QED  BY <2>2, <2>4, <3>1, <3>2 DEF LevelInv, LevelFromXP
  <2> QED  BY <2>3, <2>4
<1>6. ASSUME NextDay PROVE LevelInv'
  BY <1>6 DEF NextDay, dbVars, LevelInv, LevelFromXP
<1> QED
  BY <1>0, <1>1, <1>2, <1>3, <1>4, <1>5, <1>6, Zenon DEF Next, Stop

\* At rest the stored level is that of the stored XP, for every table of
\* thresholds, although two statements write them.
THEOREM LevelIsThatOfXP ==
    ASSUME OneRequest, NoFaults, LevelsEarned
    PROVE  Spec => []LevelMatchesXP
<1>1. Init => LevelInv  BY LevelInit
<1>2. LevelInv /\ (TypeOK /\ StreakInv) /\ (TypeOK /\ StreakInv)' /\ [Next]_vars => LevelInv'
  <2> SUFFICES ASSUME LevelInv, TypeOK, TypeOK', StreakInv, [Next]_vars PROVE LevelInv'
    OBVIOUS
  <2>1. CASE Next  BY <2>1, LevelStep
  <2>2. CASE UNCHANGED vars  BY <2>2 DEF vars, LevelInv, LevelFromXP
  <2> QED  BY <2>1, <2>2
<1>3. LevelInv => LevelMatchesXP  BY DEF LevelInv, LevelMatchesXP
<1> QED  BY <1>1, <1>2, <1>3, StreakAlways, PTL DEF Spec

----------------------------------------------------------------------------
(* Summaries.                                                              *)

\* A summary counts the answers that were right when it was made: truncating
\* the rounded accuracy loses less than one of them.
LEMMA TruncationLosesOne ==
    ASSUME NEW acc \in Nat, NEW n \in Nat, NEW right \in Nat, Near(acc, n, right),
           n * (n + 1) < 4 * Unit
    PROVE  (acc * n) \div Unit \in {right - 1, right}
<1> DEFINE x == acc * n
           u == Unit * right
           t == n * (n + 1)
           q == x \div Unit
<1>1. x \in Nat /\ u \in Nat /\ t \in Nat  BY UnitNat, SMT
<1>2. 4 * (x - u) <= t /\ -t <= 4 * (x - u) /\ t < 4 * Unit  BY DEF Near
<1>3. x - u < Unit /\ -Unit < x - u
  <2> HIDE DEF x, u, t
  <2> QED  BY <1>1, <1>2, UnitNat
<1>4. Unit \in Nat \ {0}  BY DEF Unit
<1>5. q \in Int /\ x % Unit \in 0..(Unit - 1) /\ x = Unit * q + (x % Unit)
  <2> HIDE DEF x
  <2> QED  BY <1>1, <1>4, SMT
<1>6. Unit * q - u < Unit /\ -(2 * Unit) < Unit * q - u
  <2>1. Unit * q \in Int  BY <1>4, <1>5, SMT
  <2> HIDE DEF x, u, q
  <2> QED  BY <1>1, <1>3, <1>4, <1>5, <2>1
<1>7. \A k \in Int : Unit * k < Unit /\ -(2 * Unit) < Unit * k => k \in {-1, 0}
  BY DEF Unit
<1>8. \A a, b \in Int : Unit * (a - b) = Unit * a - Unit * b  BY DEF Unit
<1> HIDE DEF q
<1>9. q - right \in {-1, 0}
  <2>1. q - right \in Int /\ Unit * (q - right) = Unit * q - Unit * right
    BY <1>5, <1>8
  <2> QED  BY <1>6, <1>7, <2>1
<1> QED  BY <1>5, <1>9 DEF q

\* Making a summary keeps the promise.
LEMMA SummaryStep ==
    ASSUME OneRequest, NoFaults, ShortSessions,
           TypeOK, RowsInv, SummaryWithinOne, Next
    PROVE  SummaryWithinOne'
<1>1. ASSUME NEW r \in Reqs, CompleteLevel(r) PROVE SummaryWithinOne'
  <2> DEFINE z == req[r].s
             m == [s |-> z, answered |-> req[r].row.idx, items |-> items[z],
                   right |-> results[z].right, correct |-> (req[r].row.acc * items[z]) \div Unit]
  <2>1. summaries' = summaries \union {m} /\ z \in Sessions /\ req[r].at = "level"
    BY <1>1 DEF CompleteLevel, TypeOK
  <2>2. ASSUME req[r].row.idx = items[z]
        PROVE  (req[r].row.acc * items[z]) \div Unit \in {results[z].right - 1, results[z].right}
    <3>1. \A q \in Reqs : ~Pending(q)  BY <2>1 DEF OneRequest, Pending
    <3>2. Exact(sess[z], results[z])  BY <2>1, <3>1 DEF RowsInv
    <3>3. req[r].row.idx = sess[z].idx /\ req[r].row.acc = sess[z].acc
      BY <2>1 DEF RowsInv, Holding
    <3> DEFINE n == items[z]
               acc == req[r].row.acc
    <3>4. n = results[z].n /\ Near(acc, n, results[z].right)
      BY <2>2, <3>2, <3>3 DEF Exact
    <3>5. n \in ItemCounts \union {0}  BY <2>1 DEF RowsInv
    <3>6. n * (n + 1) < 4 * Unit
      <4>1. CASE n \in ItemCounts  BY <4>1 DEF ShortSessions
      <4>2. CASE n = 0  BY <4>2 DEF Unit
      <4> QED  BY <3>5, <4>1, <4>2
    <3>7. acc \in Nat /\ n \in Nat /\ results[z].right \in Nat
      BY <2>1, UnitNat DEF TypeOK, ReqState, Row
    <3> HIDE DEF n, acc
    <3>8. (acc * n) \div Unit \in {results[z].right - 1, results[z].right}
      BY <3>4, <3>6, <3>7, TruncationLosesOne
    <3> QED  BY <3>8 DEF n, acc
  <2>3. m.answered = m.items => m.correct \in {m.right - 1, m.right}  BY <2>2
  <2> HIDE DEF m
  <2> QED  BY <2>1, <2>3 DEF SummaryWithinOne
<1>2. CASE UNCHANGED summaries  BY <1>2 DEF SummaryWithinOne
<1> QED
  BY <1>1, <1>2 DEF Next, GenerateBegin, GenerateCreate, GenerateItems, SubmitBegin,
     SubmitUpsert, SubmitSave, SubmitRefetch, SubmitUpdate, CompleteBegin, CompleteWrite,
     CompleteRecord, CompleteStats, NextDay, Stop

\* The summary of a session whose every item was answered never credits a
\* wrong answer and costs one right answer at most, for every session of up to
\* 62 items.
THEOREM SummaryIsWithinOne ==
    ASSUME OneRequest, NoFaults, ShortSessions
    PROVE  Spec => []SummaryWithinOne
<1>1. Init => SummaryWithinOne  BY DEF Init, SummaryWithinOne
<1>2. SummaryWithinOne /\ (TypeOK /\ LifeInv /\ RowsInv) /\ [Next]_vars => SummaryWithinOne'
  <2> SUFFICES ASSUME SummaryWithinOne, TypeOK, RowsInv, [Next]_vars PROVE SummaryWithinOne'
    OBVIOUS
  <2>1. CASE Next  BY <2>1, SummaryStep
  <2>2. CASE UNCHANGED vars  BY <2>2 DEF vars, SummaryWithinOne
  <2> QED  BY <2>1, <2>2
<1> QED  BY <1>1, <1>2, RowsAlways, PTL DEF Spec
=============================================================================
